------------------------------ MODULE Headless ------------------------------
(***************************************************************************)
(* A session without a window (headless.rs): the same worker, driven over  *)
(* the same two pipes by a loop that reads one line at a time, looks at    *)
(* its deadline only between two lines, and answers with an exit code.     *)
(*                                                                         *)
(* The worker is what the loop can see of video.rs: HostQuality has its    *)
(* switch and HostLink its way to the phone in full.                       *)
(***************************************************************************)
EXTENDS Integers, Sequences

CONSTANTS
    NoQuality,      \* no --quality
    Qualities,      \* the modes --quality can name
    MaxLines        \* bound: lines in the pipe and pictures per worker

ASSUME HeadlessAssumption == NoQuality \notin Qualities /\ MaxLines \in Nat

VARIABLES
    caller,     \* the command line and the state of run()
    worker,     \* the child process
    lines,      \* the worker's stdout
    orders      \* the worker's stdin

headlessVars == <<caller, worker, lines, orders>>

Options == [quality : {NoQuality} \union Qualities, seconds : BOOLEAN]
Event(kind) == [kind |-> kind, mode |-> NoQuality]
ModeEvent(kind, mode) == [kind |-> kind, mode |-> mode]

(* The worker's `reported' and `confirmed' are history: what it ever wrote. *)
HeadlessStarts(options) ==
    /\ caller = [options |-> options, step |-> "settings", exit |-> 3, deadline |-> "none",
                 streamed |-> FALSE, requested |-> FALSE, applied |-> NoQuality]
    /\ worker = [step |-> "none", asked |-> NoQuality, pictures |-> 0,
               reported |-> FALSE, confirmed |-> NoQuality]
    /\ lines = <<>> /\ orders = <<>>

HeadlessInit == \E options \in Options : HeadlessStarts(options)

-----------------------------------------------------------------------------
(* run(): 3 stands for an exit code that is not known yet.                 *)

Exits(c, code) == [c EXCEPT !.step = "ended", !.exit = code]
Dead == [worker EXCEPT !.step = "dead"]

(* Settings that cannot be read or used, or no process.                    *)
CannotStart ==
    /\ caller.step = "settings"
    /\ caller' = Exits(caller, 2)
    /\ UNCHANGED <<worker, lines, orders>>

Spawns ==
    /\ caller.step = "settings"
    /\ caller' = [caller EXCEPT !.step = "start"]
    /\ worker' = [worker EXCEPT !.step = "fresh"]
    /\ UNCHANGED <<lines, orders>>

(* The deadline is computed once the command is in the pipe.               *)
SendsStart ==
    /\ caller.step = "start" /\ worker.step # "dead"
    /\ orders' = Append(orders, Event("start"))
    /\ caller' = [caller EXCEPT !.step = "loop",
                    !.deadline = IF caller.options.seconds THEN "armed" ELSE "none"]
    /\ UNCHANGED <<worker, lines>>
StartBreaks ==
    /\ caller.step = "start" /\ worker.step = "dead"
    /\ caller' = Exits(caller, 2)
    /\ UNCHANGED <<worker, lines, orders>>

\* Mutant: the code answers whether there was a stream, whatever was asked.
ExitCode_AnyStream(c) == IF c.streamed THEN 0 ELSE 1
ExitCode(c) ==
    IF c.streamed /\ c.options.quality \in {NoQuality, c.applied} THEN 0 ELSE 1

(* child.kill() and child.wait() follow the loop, however it ended.        *)
Leaves(c) == /\ caller' = Exits(c, ExitCode(c))
             /\ worker' = Dead

LoopHead ==
    /\ caller.step = "loop"
    /\ IF caller.deadline = "passed"
       THEN /\ orders' = Append(orders, Event("stop"))
            /\ Leaves(caller)
       ELSE /\ caller' = [caller EXCEPT !.step = "read"]
            /\ UNCHANGED <<worker, orders>>
    /\ UNCHANGED lines

(* What one event changes, and the request the first Stats lets through.   *)
Noted(c, event) ==
    [c EXCEPT !.step = "loop",
              !.streamed = @ \/ event.kind = "stats",
              !.requested = @ \/ (event.kind = "stats" /\ c.options.quality # NoQuality),
              !.applied = IF event.kind = "applied" THEN event.mode ELSE @]

ReadsLine ==
    /\ caller.step = "read" /\ lines # <<>>
    /\ lines' = Tail(lines)
    /\ LET noted == Noted(caller, Head(lines)) IN
         /\ orders' = IF noted.requested /\ ~caller.requested /\ worker.step # "dead"
                      THEN Append(orders, ModeEvent("prepare", caller.options.quality))
                      ELSE orders
         /\ IF Head(lines).kind = "stopped" THEN Leaves(noted)
            ELSE caller' = noted /\ UNCHANGED worker

EndOfLines ==
    /\ caller.step = "read" /\ lines = <<>> /\ worker.step = "dead"
    /\ Leaves(caller)
    /\ UNCHANGED <<lines, orders>>

DeadlinePasses_Headless ==
    /\ caller.step \in {"loop", "read"} /\ caller.deadline = "armed"
    /\ caller' = [caller EXCEPT !.deadline = "passed"]
    /\ UNCHANGED <<worker, lines, orders>>

-----------------------------------------------------------------------------
(* The worker: one action per turn of its loop. *)

Says(events) == /\ Len(lines) < MaxLines
                /\ lines' = lines \o events

WorkerStarts ==
    /\ worker.step = "fresh" /\ orders # <<>>
    /\ worker' = [worker EXCEPT !.step = "connecting"]
    /\ orders' = Tail(orders)
    /\ Says(<<Event("connecting")>>) /\ UNCHANGED caller
(* The transport, the exchange and the decoder are there.                  *)
WorkerWaits ==
    /\ worker.step = "connecting"
    /\ worker' = [worker EXCEPT !.step = "streaming"]
    /\ Says(<<Event("waiting")>>) /\ UNCHANGED <<caller, orders>>

(* A request the phone's list does not allow, or the phone refuses, is     *)
(* answered; one it takes makes the next picture that of the mode.         *)
WorkerTakesOrder ==
    /\ worker.step = "streaming" /\ orders # <<>> /\ Head(orders).kind = "prepare"
    /\ orders' = Tail(orders)
    /\ \/ worker' = [worker EXCEPT !.asked = Head(orders).mode] /\ UNCHANGED lines
       \/ Says(<<Event("failed")>>) /\ UNCHANGED worker
    /\ UNCHANGED caller
(* A picture was decoded; an output has taken it or not.  Stats come once  *)
(* a second at most, and after Applied.                                    *)
WorkerDecodes ==
    /\ worker.step = "streaming" /\ worker.pictures < MaxLines
    /\ \E submitted, due \in BOOLEAN :
         LET applies == submitted /\ worker.asked # NoQuality IN
         /\ worker' = [worker EXCEPT
              !.pictures = @ + 1,
              !.reported = @ \/ due,
              !.confirmed = IF applies THEN worker.asked ELSE @,
              !.asked = IF applies THEN NoQuality ELSE @]
         /\ Says((IF applies THEN <<ModeEvent("applied", worker.asked)>> ELSE <<>>)
                 \o (IF due THEN <<Event("stats")>> ELSE <<>>))
    /\ UNCHANGED <<caller, orders>>
WorkerEnds ==
    /\ worker.step \in {"connecting", "streaming"}
    /\ worker' = Dead
    /\ Says(<<Event("error"), Event("stopped")>>) /\ UNCHANGED <<caller, orders>>
WorkerDies ==
    /\ worker.step \in {"fresh", "connecting", "streaming"}
    /\ worker' = Dead /\ UNCHANGED <<caller, lines, orders>>

HeadlessNext ==
    \/ CannotStart \/ Spawns \/ SendsStart \/ StartBreaks
    \/ LoopHead \/ ReadsLine \/ EndOfLines \/ DeadlinePasses_Headless
    \/ WorkerStarts \/ WorkerWaits \/ WorkerTakesOrder \/ WorkerDecodes
    \/ WorkerEnds \/ WorkerDies
HeadlessSpec == HeadlessInit /\ [][HeadlessNext]_headlessVars

-----------------------------------------------------------------------------
(* Properties *)

(* The exit code a script gates on is the truth (run, streamed): 0 only    *)
(* for a session that streamed and confirmed the mode asked for, and 1     *)
(* only for one that did not, unless its deadline cut it short; and no     *)
(* worker outlives the command.                                            *)
ExitIsTrue ==
    LET succeeded == /\ worker.reported
                     /\ \/ caller.options.quality = NoQuality
                        \/ worker.confirmed = caller.options.quality
    IN  /\ caller.exit = 0 => succeeded
        /\ caller.exit = 1 /\ caller.deadline # "passed" => ~succeeded
        /\ caller.exit # 3 => worker.step \in {"none", "dead"}
=============================================================================
