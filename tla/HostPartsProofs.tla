--------------------------- MODULE HostPartsProofs ---------------------------
(***************************************************************************)
(* Theorems about three parts of the PC's program: the preview's record    *)
(* (PreviewRecord), a session without a window (Headless) and the way to   *)
(* an authorized phone with the USB probe (HostLink).                      *)
(***************************************************************************)
EXTENDS PreviewRecord, Headless, HostLink, FiniteSetTheorems, SequenceTheorems, TLAPS

-----------------------------------------------------------------------------
(* PreviewRecord: the invariant. *)

Pictures == Nat \union {NoPicture}
Halves == [1..2 -> Pictures]

PreviewTypeOK ==
    /\ file \in [seq : Nat, frame : Pictures, pixels : Halves]
    /\ producer \in [step : {"none", "idle"} \union Writing, seq : Nat]
    /\ consumer \in [step : {"idle", "first", "second", "check"}, seq : Nat,
                     frame : Pictures, copy : Halves, shown : Halves, older : BOOLEAN]
    /\ shots \in Nat

(* While the worker writes, the record carries its odd number and the      *)
(* halves written so far; an even number stands over a whole picture.      *)
RecordInv ==
    /\ producer.step \in Writing => file.seq = producer.seq /\ Odd(file.seq)
    /\ producer.step \in {"first", "second"} => file.pixels[1] = shots
    /\ producer.step = "second" => file.pixels[2] = shots
    /\ ~Odd(file.seq) => file.pixels[1] = file.pixels[2]

(* Once a worker has published, its numbers only grow past the record's.   *)
NumbersGrow == producer.seq > 0 => file.seq <= producer.seq

(* A number that the window has read from the worker of now never comes    *)
(* back: as long as the record still has it, what was copied is unchanged. *)
Copying == consumer.step \in {"first", "second", "check"} /\ ~consumer.older
ReaderInv ==
    Copying =>
        /\ ~Odd(consumer.seq)
        /\ producer.step # "none" => consumer.seq <= producer.seq /\ producer.seq > 0
        /\ file.seq = consumer.seq =>
              /\ consumer.step # "first" => consumer.copy[1] = file.pixels[1]
              /\ consumer.step = "check" => consumer.copy[2] = file.pixels[2]

PreviewInv == PreviewTypeOK /\ RecordInv /\ NumbersGrow /\ ReaderInv

-----------------------------------------------------------------------------
(* PreviewRecord: the numbers of publish(). *)

(* The number before a picture is odd and new; the one after it is even    *)
(* and new if the one before was odd.                                      *)
LEMMA NextNumbers ==
    ASSUME NEW n \in Nat
    PROVE  /\ NextOdd(n) \in Nat /\ Odd(NextOdd(n)) /\ n < NextOdd(n)
           /\ NextEven(n) \in Nat /\ n <= NextEven(n)
           /\ Odd(n) => ~Odd(NextEven(n)) /\ n < NextEven(n)
BY DEF NextOdd, NextEven, Odd

-----------------------------------------------------------------------------
(* PreviewRecord: every step keeps the invariant. *)

LEMMA PreviewInitInv == PreviewInit => PreviewInv
<1>1. <<NoPicture, NoPicture>> \in Halves /\ NoPicture \in Pictures
  BY DEF Halves, Pictures
<1>2. ~Odd(0)
  BY DEF Odd
<1> QED
  BY <1>1, <1>2 DEF PreviewInit, PreviewInv, PreviewTypeOK, RecordInv, NumbersGrow, ReaderInv,
                    Copying, NoProducer, NoConsumer, Writing

LEMMA PreviewNextInv ==
    ASSUME PreviewInv, [PreviewNext]_previewVars
    PROVE  PreviewInv'
<1> USE DEF PreviewInv, PreviewTypeOK, Writing
<1>1. CASE ProducerOpens
  BY <1>1 DEF ProducerOpens, NoProducer, RecordInv, NumbersGrow, ReaderInv, Copying
<1>2. CASE MarksRecord
  <2>1. /\ producer' = [step |-> "mark", seq |-> NextOdd(producer.seq)]
        /\ file' = [file EXCEPT !.seq = NextOdd(producer.seq), !.frame = shots']
        /\ shots' \in Nat /\ consumer' = consumer /\ producer.step = "idle"
    BY <1>2 DEF MarksRecord
  <2>2. /\ NextOdd(producer.seq) \in Nat /\ Odd(NextOdd(producer.seq))
        /\ producer.seq < NextOdd(producer.seq)
    BY NextNumbers
  <2>3. PreviewTypeOK'
    BY <2>1, <2>2 DEF Pictures
  <2>4. RecordInv' /\ NumbersGrow'
    BY <2>1, <2>2 DEF RecordInv, NumbersGrow
  <2>5. ReaderInv'
    BY <2>1, <2>2 DEF ReaderInv, Copying
  <2> QED
    BY <2>3, <2>4, <2>5
<1>3. CASE WritesPixels
  <2>1. CASE producer.step = "mark"
    <3>1. /\ file' = [file EXCEPT !.pixels[1] = shots]
          /\ producer' = [producer EXCEPT !.step = "first"]
          /\ UNCHANGED <<consumer, shots>>
      BY <1>3, <2>1 DEF WritesPixels
    <3>2. PreviewTypeOK'
      BY <3>1 DEF Pictures, Halves
    <3>3. RecordInv' /\ NumbersGrow' /\ ReaderInv'
      BY <2>1, <3>1 DEF RecordInv, NumbersGrow, ReaderInv, Copying, Halves
    <3> QED
      BY <3>2, <3>3
  <2>2. CASE producer.step = "first"
    <3>1. /\ file' = [file EXCEPT !.pixels[2] = shots]
          /\ producer' = [producer EXCEPT !.step = "second"]
          /\ UNCHANGED <<consumer, shots>>
      BY <1>3, <2>2 DEF WritesPixels
    <3>2. PreviewTypeOK'
      BY <3>1 DEF Pictures, Halves
    <3>3. RecordInv' /\ NumbersGrow' /\ ReaderInv'
      BY <2>2, <3>1 DEF RecordInv, NumbersGrow, ReaderInv, Copying, Halves
    <3> QED
      BY <3>2, <3>3
  <2> QED
    BY <1>3, <2>1, <2>2 DEF WritesPixels
<1>4. CASE ReleasesRecord
  <2>1. /\ producer' = [step |-> "idle", seq |-> NextEven(producer.seq)]
        /\ file' = [file EXCEPT !.seq = NextEven(producer.seq)]
        /\ UNCHANGED <<consumer, shots>> /\ producer.step = "second"
    BY <1>4 DEF ReleasesRecord
  <2>2. /\ NextEven(producer.seq) \in Nat /\ ~Odd(NextEven(producer.seq))
        /\ producer.seq < NextEven(producer.seq)
    BY <2>1, NextNumbers DEF RecordInv
  <2>3. PreviewTypeOK'
    BY <2>1, <2>2
  <2>4. RecordInv' /\ NumbersGrow'
    BY <2>1, <2>2 DEF RecordInv, NumbersGrow
  <2>5. ReaderInv'
    BY <2>1, <2>2 DEF ReaderInv, Copying
  <2> QED
    BY <2>3, <2>4, <2>5
<1>5. CASE WriteFails
  <2> DEFINE n == IF producer.step = "second" THEN NextEven(producer.seq) ELSE producer.seq
  <2>1. producer' = [step |-> "idle", seq |-> n]
    BY <1>5 DEF WriteFails
  <2>2. n \in Nat /\ producer.seq <= n
    BY NextNumbers
  <2>3. UNCHANGED <<file, consumer, shots>> /\ producer.step \in Writing
    BY <1>5 DEF WriteFails
  <2> HIDE DEF n
  <2>4. PreviewTypeOK'
    BY <2>1, <2>2, <2>3
  <2>5. RecordInv' /\ NumbersGrow'
    BY <2>1, <2>2, <2>3 DEF RecordInv, NumbersGrow
  <2>6. ReaderInv'
    BY <2>1, <2>2, <2>3 DEF ReaderInv, Copying
  <2> QED
    BY <2>4, <2>5, <2>6
<1>6. CASE ProducerDies
  BY <1>6 DEF ProducerDies, NoProducer, RecordInv, NumbersGrow, ReaderInv, Copying
<1>7. CASE ReadsHeader
  <2>1. /\ consumer' = [consumer EXCEPT !.step = "first", !.seq = file.seq,
                            !.frame = file.frame,
                            !.older = producer.step # "none" /\ producer.seq = 0]
        /\ UNCHANGED <<file, producer, shots>> /\ ~Odd(file.seq)
    BY <1>7 DEF ReadsHeader
  <2>2. PreviewTypeOK'
    BY <2>1
  <2>3. RecordInv' /\ NumbersGrow'
    BY <2>1 DEF RecordInv, NumbersGrow
  <2>4. /\ consumer'.step = "first" /\ consumer'.seq = file.seq
        /\ consumer'.older <=> producer.step # "none" /\ producer.seq = 0
    BY <2>1
  <2>5. ReaderInv'
    BY <2>1, <2>4 DEF ReaderInv, Copying, NumbersGrow
  <2> QED
    BY <2>2, <2>3, <2>5
<1>8. CASE ReadsPixels
  <2>1. CASE consumer.step = "first"
    <3>1. /\ consumer' = [consumer EXCEPT !.copy[1] = file.pixels[1], !.step = "second"]
          /\ UNCHANGED <<file, producer, shots>>
      BY <1>8, <2>1 DEF ReadsPixels
    <3>2. consumer.copy \in Halves /\ file.pixels \in Halves
      OBVIOUS
    <3>3. /\ consumer'.step = "second" /\ consumer'.seq = consumer.seq
          /\ consumer'.older = consumer.older
          /\ consumer'.copy[1] = file.pixels[1]
      BY <3>1, <3>2 DEF Halves
    <3>4. PreviewTypeOK'
      BY <3>1, <3>2 DEF Halves
    <3>5. RecordInv' /\ NumbersGrow' /\ ReaderInv'
      BY <2>1, <3>1, <3>3 DEF RecordInv, NumbersGrow, ReaderInv, Copying
    <3> QED
      BY <3>4, <3>5
  <2>2. CASE consumer.step = "second"
    <3>1. /\ consumer' = [consumer EXCEPT !.copy[2] = file.pixels[2], !.step = "check"]
          /\ UNCHANGED <<file, producer, shots>>
      BY <1>8, <2>2 DEF ReadsPixels
    <3>2. consumer.copy \in Halves /\ file.pixels \in Halves
      OBVIOUS
    <3>3. /\ consumer'.step = "check" /\ consumer'.seq = consumer.seq
          /\ consumer'.older = consumer.older
          /\ consumer'.copy[2] = file.pixels[2] /\ consumer'.copy[1] = consumer.copy[1]
      BY <3>1, <3>2 DEF Halves
    <3>4. PreviewTypeOK'
      BY <3>1, <3>2 DEF Halves
    <3>5. RecordInv' /\ NumbersGrow' /\ ReaderInv'
      BY <2>2, <3>1, <3>3 DEF RecordInv, NumbersGrow, ReaderInv, Copying
    <3> QED
      BY <3>4, <3>5
  <2> QED
    BY <1>8, <2>1, <2>2 DEF ReadsPixels
<1>9. CASE ChecksHeader
  BY <1>9 DEF ChecksHeader, RecordInv, NumbersGrow, ReaderInv, Copying
<1>10. CASE WindowForgets
  <2>1. <<NoPicture, NoPicture>> \in Halves /\ NoPicture \in Pictures
    BY DEF Halves, Pictures
  <2> QED
    BY <1>10, <2>1 DEF WindowForgets, NoConsumer, RecordInv, NumbersGrow, ReaderInv, Copying
<1>11. CASE UNCHANGED previewVars
  BY <1>11 DEF previewVars, RecordInv, NumbersGrow, ReaderInv, Copying
<1> QED
  BY <1>1, <1>2, <1>3, <1>4, <1>5, <1>6, <1>7, <1>8, <1>9, <1>10, <1>11 DEF PreviewNext

-----------------------------------------------------------------------------
(* PreviewRecord: the theorem. *)

(* A check of the header after a copy (Consumer::latest) lets a picture    *)
(* through only as it was published, whatever the worker of now does with  *)
(* the record meanwhile and whichever of its writes have failed.           *)
THEOREM WholePictures == PreviewSpec => WholeWithinAWorker
<1>1. PreviewInit => PreviewInv
  BY PreviewInitInv
<1>2. PreviewInv /\ [PreviewNext]_previewVars => PreviewInv'
  BY PreviewNextInv
<1>3. ASSUME PreviewInv, PreviewNext, consumer.step = "check", consumer'.step = "idle",
             ~consumer.older
      PROVE  consumer'.shown[1] = consumer'.shown[2] \/ UNCHANGED consumer.shown
  <2>1. CASE ChecksHeader
    <3>1. CASE file.seq = consumer.seq
      <4>1. consumer'.shown = consumer.copy
        BY <2>1, <3>1 DEF ChecksHeader, PreviewInv, PreviewTypeOK
      <4>2. consumer.copy[1] = file.pixels[1] /\ consumer.copy[2] = file.pixels[2]
        BY <1>3, <3>1 DEF PreviewInv, ReaderInv, Copying
      <4>3. file.pixels[1] = file.pixels[2]
        BY <1>3, <3>1 DEF PreviewInv, ReaderInv, Copying, RecordInv
      <4> QED
        BY <4>1, <4>2, <4>3
    <3>2. CASE file.seq # consumer.seq
      BY <2>1, <3>2, <1>3 DEF ChecksHeader, PreviewInv, PreviewTypeOK
    <3> QED
      BY <3>1, <3>2
  <2>2. CASE consumer' = consumer
    BY <2>2
  <2> QED
    BY <1>3, <2>1, <2>2 DEF PreviewNext, ProducerOpens, MarksRecord, WritesPixels,
       ReleasesRecord, WriteFails, ProducerDies, ReadsHeader, ReadsPixels, WindowForgets,
       PreviewInv, PreviewTypeOK
<1>4. PreviewInv /\ [PreviewNext]_previewVars
      => [consumer.step = "check" /\ consumer'.step = "idle" /\ ~consumer.older
            => consumer'.shown[1] = consumer'.shown[2] \/ UNCHANGED consumer.shown]_previewVars
  BY <1>3
<1> QED
  BY <1>1, <1>2, <1>4, PTL DEF PreviewSpec, WholeWithinAWorker

-----------------------------------------------------------------------------
(* Headless: the invariant. *)

Choices == {NoQuality} \union Qualities
Lines == [kind : {"connecting", "waiting", "failed", "applied", "stats", "error", "stopped"},
          mode : Choices]
Orders == [kind : {"start", "prepare", "stop"}, mode : Choices]
Callers ==
    [options : Options, step : {"settings", "start", "loop", "read", "ended"}, exit : {0, 1, 2, 3},
     deadline : {"none", "armed", "passed"}, streamed : BOOLEAN, requested : BOOLEAN,
     applied : Choices]
Children ==
    [step : {"none", "fresh", "connecting", "streaming", "dead"}, asked : Choices,
     pictures : Nat, reported : BOOLEAN, confirmed : Choices]
HeadlessTypeOK ==
    /\ caller \in Callers /\ worker \in Children
    /\ lines \in Seq(Lines) /\ orders \in Seq(Orders)

Asked == caller.options.quality
Unread(kind) == \E i \in DOMAIN lines : lines[i].kind = kind
(* One mode is asked for, and every line and every note is true of it.     *)
TruthInv ==
    /\ {worker.asked, worker.confirmed, caller.applied} \subseteq {NoQuality, Asked}
    /\ \A i \in DOMAIN orders : orders[i].kind = "prepare" => orders[i].mode = Asked
    /\ \A i \in DOMAIN lines :
           /\ lines[i].kind = "stats" => worker.reported
           /\ lines[i].kind = "applied" => lines[i].mode = Asked /\ worker.confirmed = Asked
    /\ caller.streamed => worker.reported
    /\ caller.applied # NoQuality => worker.confirmed = Asked
(* What the worker has reported was read, or is in the pipe still.         *)
ReportInv ==
    /\ worker.reported => caller.streamed \/ Unread("stats")
    /\ worker.confirmed # NoQuality => caller.applied = Asked \/ Unread("applied")
(* Nothing follows the last line, and no worker outlives the command.      *)
EndInv ==
    /\ \A i \in DOMAIN lines : lines[i].kind = "stopped" => i = Len(lines) /\ worker.step = "dead"
    /\ caller.step = "ended" <=> caller.exit # 3
    /\ caller.step = "ended" => worker.step \in {"none", "dead"}
    /\ caller.step = "settings" => worker.step = "none"
    /\ worker.step = "none" => caller.step \in {"settings", "ended"}

HeadlessInv == HeadlessTypeOK /\ TruthInv /\ ReportInv /\ EndInv /\ ExitIsTrue

LEMMA HeadlessInitInv == HeadlessInit => HeadlessInv
<1> SUFFICES ASSUME NEW options \in Options, HeadlessStarts(options) PROVE HeadlessInv
  BY DEF HeadlessInit
<1>1. HeadlessTypeOK
  BY DEF HeadlessStarts, HeadlessTypeOK, Callers, Children, Choices, Options
<1>2. TruthInv /\ ReportInv /\ EndInv /\ ExitIsTrue
  BY DEF HeadlessStarts, TruthInv, ReportInv, EndInv, ExitIsTrue, Asked, Unread
<1> QED
  BY <1>1, <1>2 DEF HeadlessInv

(* The command by itself.                                                  *)
LEMMA CallerSteps ==
    ASSUME HeadlessInv,
           CannotStart \/ Spawns \/ SendsStart \/ StartBreaks \/ DeadlinePasses_Headless
    PROVE  HeadlessInv'
<1> USE DEF HeadlessInv
<1>1. CASE CannotStart
  <2>1. /\ caller' = [caller EXCEPT !.step = "ended", !.exit = 2] /\ UNCHANGED <<worker, lines, orders>>
        /\ worker.step \in {"none", "dead"}
    BY <1>1 DEF CannotStart, Exits, EndInv
  <2>2. HeadlessTypeOK'
    BY <2>1 DEF HeadlessTypeOK, Callers
  <2>3. TruthInv' /\ ReportInv' /\ EndInv' /\ ExitIsTrue'
    BY <2>1 DEF HeadlessTypeOK, Callers, TruthInv, ReportInv, EndInv, ExitIsTrue, Asked, Unread
  <2> QED
    BY <2>2, <2>3
<1>2. CASE Spawns
  BY <1>2 DEF Spawns, HeadlessTypeOK, Callers, Children, TruthInv, ReportInv, EndInv, ExitIsTrue, Asked, Unread
<1>3. CASE SendsStart
  <2>1. /\ orders' = Append(orders, Event("start")) /\ UNCHANGED <<worker, lines>>
        /\ caller' = [caller EXCEPT !.step = "loop",
                        !.deadline = IF caller.options.seconds THEN "armed" ELSE "none"]
        /\ caller.step = "start"
    BY <1>3 DEF SendsStart
  <2>2. Event("start") \in Orders /\ Event("start").kind # "prepare"
    BY DEF Event, Orders, Choices
  <2> DEFINE d == IF caller.options.seconds THEN "armed" ELSE "none"
  <2>a. d \in {"none", "armed", "passed"} /\ caller' = [caller EXCEPT !.step = "loop", !.deadline = d]
    BY <2>1
  <2> HIDE DEF d
  <2>b. caller' \in Callers
    BY <2>a DEF HeadlessTypeOK, Callers
  <2>3. HeadlessTypeOK'
    BY <2>1, <2>2, <2>b DEF HeadlessTypeOK
  <2>4. /\ Asked' = Asked /\ caller'.streamed = caller.streamed /\ caller'.applied = caller.applied
        /\ caller'.exit = caller.exit /\ caller'.step = "loop"
    BY <2>1 DEF HeadlessTypeOK, Callers, Children, Asked
  <2>5. TruthInv'
    BY <2>1, <2>2, <2>4 DEF TruthInv, HeadlessTypeOK, Callers, Children
  <2>6. ReportInv' /\ EndInv' /\ ExitIsTrue'
    BY <2>1, <2>4 DEF ReportInv, EndInv, ExitIsTrue, Unread, Asked
  <2> QED
    BY <2>3, <2>5, <2>6
<1>4. CASE StartBreaks
  <2>1. /\ caller' = [caller EXCEPT !.step = "ended", !.exit = 2] /\ UNCHANGED <<worker, lines, orders>>
        /\ worker.step \in {"none", "dead"}
    BY <1>4 DEF StartBreaks, Exits, EndInv
  <2>2. HeadlessTypeOK'
    BY <2>1 DEF HeadlessTypeOK, Callers
  <2>3. TruthInv' /\ ReportInv' /\ EndInv' /\ ExitIsTrue'
    BY <2>1 DEF HeadlessTypeOK, Callers, TruthInv, ReportInv, EndInv, ExitIsTrue, Asked, Unread
  <2> QED
    BY <2>2, <2>3
<1>5. CASE DeadlinePasses_Headless
  BY <1>5 DEF DeadlinePasses_Headless, HeadlessTypeOK, Callers, Children, TruthInv, ReportInv, EndInv, ExitIsTrue, Asked, Unread
<1> QED
  BY <1>1, <1>2, <1>3, <1>4, <1>5

(* The exit code, when everything that was reported has been read.         *)
LEMMA LeavesTruly ==
    ASSUME HeadlessInv, NEW c \in Callers,
           c.options = caller.options, Leaves(c),
           c.streamed => worker.reported, c.applied \in {NoQuality, Asked},
           c.applied # NoQuality => worker.confirmed = Asked,
           worker.step # "none",
           c.deadline # "passed" =>
               /\ worker.reported => c.streamed
               /\ worker.confirmed # NoQuality => c.applied = Asked
    PROVE  /\ caller'.exit # 3 /\ caller'.step = "ended" /\ worker' = Dead
           /\ caller' \in Callers
           /\ caller'.options = caller.options /\ caller'.streamed = c.streamed
           /\ caller'.applied = c.applied /\ Asked' = Asked
           /\ worker' \in Children
           /\ worker'.step = "dead" /\ worker'.reported = worker.reported
           /\ worker'.confirmed = worker.confirmed /\ worker'.asked = worker.asked
           /\ ExitIsTrue'
<1>1. /\ caller' = [c EXCEPT !.step = "ended", !.exit = ExitCode(c)]
      /\ worker' = [worker EXCEPT !.step = "dead"] /\ worker' = Dead
  BY DEF Leaves, Exits, Dead
<1>2. ExitCode(c) \in {0, 1}
  BY DEF ExitCode
<1>3. ExitCode(c) = 0 <=> c.streamed /\ c.options.quality \in {NoQuality, c.applied}
  BY DEF ExitCode
<1>4. /\ worker'.step = "dead" /\ worker'.reported = worker.reported
      /\ worker'.confirmed = worker.confirmed /\ worker'.asked = worker.asked
      /\ caller'.step = "ended" /\ caller'.exit = ExitCode(c) /\ caller'.options = caller.options
      /\ caller'.streamed = c.streamed /\ caller'.applied = c.applied /\ caller'.deadline = c.deadline
      /\ Asked' = Asked
  BY <1>1 DEF HeadlessInv, HeadlessTypeOK, Callers, Children, Asked
<1>5. worker.confirmed \in {NoQuality, Asked}
  BY DEF HeadlessInv, TruthInv
<1>6. ExitIsTrue'
  BY <1>2, <1>3, <1>4, <1>5 DEF ExitIsTrue, Asked
<1>7. /\ caller' \in Callers
      /\ worker' \in Children
  <2>1. caller' \in Callers
    BY <1>1, <1>2 DEF Callers
  <2>2. worker' \in Children
    BY <1>1 DEF HeadlessInv, HeadlessTypeOK, Children
  <2> QED
    BY <2>1, <2>2
<1> QED
  BY <1>1, <1>2, <1>4, <1>6, <1>7

LEMMA OrderAppended ==
    ASSUME orders \in Seq(Orders),
           \A i \in DOMAIN orders : orders[i].kind = "prepare" => orders[i].mode = Asked,
           NEW order \in Orders, order.kind = "prepare" => order.mode = Asked,
           orders' = orders \/ orders' = Append(orders, order)
    PROVE  /\ orders' \in Seq(Orders)
           /\ \A i \in DOMAIN orders' : orders'[i].kind = "prepare" => orders'[i].mode = Asked
<1>1. CASE orders' = orders
  BY <1>1
<1>2. CASE orders' = Append(orders, order)
  <2>1. /\ orders' \in Seq(Orders) /\ Len(orders') = Len(orders) + 1
        /\ \A i \in DOMAIN orders' : (i \in DOMAIN orders /\ orders'[i] = orders[i]) \/ orders'[i] = order
    BY <1>2
  <2> QED
    BY <2>1
<1> QED
  BY <1>1, <1>2

(* Two sequences, one after the other.                                     *)
LEMMA Concats ==
    ASSUME NEW S, NEW s \in Seq(S), NEW t \in Seq(S)
    PROVE  /\ s \o t \in Seq(S) /\ Len(s \o t) = Len(s) + Len(t)
           /\ \A i \in DOMAIN (s \o t) : (s \o t)[i] = IF i <= Len(s) THEN s[i] ELSE t[i - Len(s)]
OBVIOUS

LEMMA LoopSteps ==
    ASSUME HeadlessInv, LoopHead \/ EndOfLines
    PROVE  HeadlessInv'
<1> USE DEF HeadlessInv
<1>0. caller \in Callers /\ worker \in Children /\ lines \in Seq(Lines) /\ orders \in Seq(Orders)
  BY DEF HeadlessTypeOK
<1>1. CASE LoopHead /\ caller.deadline # "passed"
  <2>1. /\ caller' = [caller EXCEPT !.step = "read"] /\ UNCHANGED <<worker, lines, orders>>
        /\ caller.step = "loop"
    BY <1>1 DEF LoopHead
  <2>2. HeadlessTypeOK'
    BY <1>0, <2>1 DEF HeadlessTypeOK, Callers
  <2>3. TruthInv' /\ ReportInv' /\ EndInv' /\ ExitIsTrue'
    BY <1>0, <2>1 DEF Callers, TruthInv, ReportInv, EndInv, ExitIsTrue, Asked, Unread
  <2> QED
    BY <2>2, <2>3
<1>2. CASE Leaves(caller) /\ caller.step \in {"loop", "read"} /\ UNCHANGED lines
           /\ (orders' = orders \/ orders' = Append(orders, Event("stop")))
           /\ (caller.deadline # "passed" => lines = <<>>)
  <2>1. worker.step # "none"
    BY <1>2 DEF EndInv
  <2>2. /\ caller.streamed => worker.reported
        /\ caller.applied \in {NoQuality, Asked}
        /\ caller.applied # NoQuality => worker.confirmed = Asked
    BY DEF TruthInv
  <2>3. caller.deadline # "passed" =>
             /\ worker.reported => caller.streamed
             /\ worker.confirmed # NoQuality => caller.applied = Asked
    BY <1>2 DEF ReportInv, Unread
  <2>4. /\ caller'.exit # 3 /\ caller'.step = "ended"
        /\ caller' \in Callers /\ worker' \in Children
        /\ caller'.streamed = caller.streamed /\ caller'.applied = caller.applied /\ Asked' = Asked
        /\ worker'.step = "dead" /\ worker'.reported = worker.reported
        /\ worker'.confirmed = worker.confirmed /\ worker'.asked = worker.asked
        /\ ExitIsTrue'
    BY <1>0, <1>2, <2>1, <2>2, <2>3, LeavesTruly, Zenon
  <2>5. Event("stop") \in Orders /\ Event("stop").kind # "prepare"
    BY DEF Event, Orders, Choices
  <2>6. HeadlessTypeOK'
    BY <1>0, <1>2, <2>4, <2>5 DEF HeadlessTypeOK
  <2>7. TruthInv'
    <3> DEFINE order == Event("stop")
    <3>0. order \in Orders /\ order.kind # "prepare" /\ (orders' = orders \/ orders' = Append(orders, order))
      BY <1>2, <2>5
    <3> HIDE DEF order
    <3>1. \A i \in DOMAIN orders' : orders'[i].kind = "prepare" => orders'[i].mode = Asked
      BY <1>0, <3>0, OrderAppended DEF TruthInv
    <3> QED
      BY <1>2, <2>4, <3>1 DEF TruthInv
  <2>8. ReportInv' /\ EndInv'
    BY <1>2, <2>4 DEF ReportInv, EndInv, Unread
  <2> QED
    BY <2>4, <2>6, <2>7, <2>8
<1> QED
  BY <1>1, <1>2 DEF LoopHead, EndOfLines

LEMMA ReadsLineInv ==
    ASSUME HeadlessInv, ReadsLine
    PROVE  HeadlessInv'
<1> USE DEF HeadlessInv
<1> DEFINE line  == Head(lines)
           noted == Noted(caller, line)
<1>0. /\ caller \in Callers /\ worker \in Children /\ lines \in Seq(Lines) /\ orders \in Seq(Orders)
      /\ lines # <<>> /\ line \in Lines /\ line = lines[1] /\ lines' = Tail(lines) /\ lines' \in Seq(Lines)
      /\ Len(lines') = Len(lines) - 1 /\ \A i \in DOMAIN lines' : i + 1 \in DOMAIN lines /\ lines'[i] = lines[i + 1]
  BY DEF HeadlessTypeOK, ReadsLine
<1>1. /\ noted \in Callers /\ noted.options = caller.options /\ noted.step = "loop"
      /\ noted.exit = caller.exit /\ noted.deadline = caller.deadline
      /\ noted.streamed <=> caller.streamed \/ line.kind = "stats"
      /\ noted.applied = IF line.kind = "applied" THEN line.mode ELSE caller.applied
  <2>1. line.mode \in Choices
    BY <1>0 DEF Lines
  <2> HIDE DEF line
  <2> QED
    BY <1>0, <2>1 DEF Noted, Callers
<1>2. /\ caller.step = "read"
      /\ orders' = orders \/ orders' = Append(orders, ModeEvent("prepare", Asked))
      /\ IF line.kind = "stopped" THEN Leaves(noted) ELSE caller' = noted /\ UNCHANGED worker
  BY DEF ReadsLine, Asked
<1>3. /\ line.kind = "stats" => worker.reported
      /\ line.kind = "applied" => line.mode = Asked /\ worker.confirmed = Asked
      /\ line.kind = "stopped" => lines' = <<>> /\ worker.step = "dead"
  BY <1>0 DEF TruthInv, EndInv
<1>4. /\ noted.streamed => worker.reported
      /\ noted.applied \in {NoQuality, Asked}
      /\ noted.applied # NoQuality => worker.confirmed = Asked
  BY <1>1, <1>3 DEF TruthInv
<1>5. /\ worker.reported => noted.streamed \/ \E i \in DOMAIN lines' : lines'[i].kind = "stats"
      /\ worker.confirmed # NoQuality => noted.applied = Asked \/ \E i \in DOMAIN lines' : lines'[i].kind = "applied"
  <2>1. \A k : (\E i \in DOMAIN lines : lines[i].kind = k)
               => line.kind = k \/ \E i \in DOMAIN lines' : lines'[i].kind = k
    <3> SUFFICES ASSUME NEW k, NEW i \in DOMAIN lines, lines[i].kind = k, line.kind # k
                 PROVE  \E j \in DOMAIN lines' : lines'[j].kind = k
      OBVIOUS
    <3>1. i # 1 /\ i - 1 \in DOMAIN lines' /\ lines'[i - 1] = lines[i]
      BY <1>0
    <3> QED
      BY <3>1
  <2> HIDE DEF line, noted
  <2> QED
    BY <2>1, <1>1, <1>3 DEF ReportInv, Unread
<1>6. ModeEvent("prepare", Asked) \in Orders /\ ModeEvent("prepare", Asked).mode = Asked
  BY <1>0 DEF ModeEvent, Orders, Asked, Choices, Callers, Options
<1>7. orders' \in Seq(Orders) /\ \A i \in DOMAIN orders' : orders'[i].kind = "prepare" => orders'[i].mode = Asked
  <2> DEFINE order == ModeEvent("prepare", Asked)
  <2>1. order \in Orders /\ order.mode = Asked /\ (orders' = orders \/ orders' = Append(orders, order))
    BY <1>2, <1>6
  <2> HIDE DEF order
  <2> QED
    BY <1>0, <2>1, OrderAppended DEF TruthInv
<1>8. Asked = caller.options.quality
  BY DEF Asked
<1> HIDE DEF line, noted
<1>9. CASE line.kind # "stopped"
  <2>1. caller' = noted /\ worker' = worker /\ Asked' = Asked
    BY <1>1, <1>2, <1>9 DEF Asked
  <2>2. HeadlessTypeOK'
    BY <1>0, <1>1, <1>7, <2>1 DEF HeadlessTypeOK
  <2>3. TruthInv'
    BY <1>0, <1>4, <1>7, <2>1 DEF TruthInv
  <2>4. ReportInv'
    BY <1>5, <2>1 DEF ReportInv, Unread
  <2>5. EndInv'
    BY <1>0, <1>1, <1>2, <2>1 DEF EndInv
  <2>6. ExitIsTrue'
    BY <1>1, <1>2, <2>1 DEF EndInv, ExitIsTrue
  <2> QED
    BY <2>2, <2>3, <2>4, <2>5, <2>6
<1>10. CASE line.kind = "stopped"
  <2>1. /\ caller'.exit # 3 /\ caller'.step = "ended"
        /\ caller' \in Callers /\ worker' \in Children
        /\ caller'.streamed = noted.streamed /\ caller'.applied = noted.applied /\ Asked' = Asked
        /\ worker'.step = "dead" /\ worker'.reported = worker.reported
        /\ worker'.confirmed = worker.confirmed /\ worker'.asked = worker.asked
        /\ ExitIsTrue'
    <3>1. Leaves(noted) /\ worker.step # "none" /\ lines' = <<>>
      BY <1>2, <1>3, <1>10
    <3>2. noted.deadline # "passed" =>
               /\ worker.reported => noted.streamed
               /\ worker.confirmed # NoQuality => noted.applied = Asked
      BY <1>5, <3>1
    <3> QED
      BY <1>1, <1>4, <3>1, <3>2, LeavesTruly, Zenon
  <2>2. HeadlessTypeOK'
    BY <1>0, <1>7, <2>1 DEF HeadlessTypeOK
  <2>3. TruthInv'
    BY <1>0, <1>4, <1>7, <2>1, <1>3, <1>10 DEF TruthInv
  <2>4. ReportInv'
    BY <1>5, <2>1 DEF ReportInv, Unread
  <2>5. EndInv'
    BY <1>0, <1>3, <1>10, <2>1 DEF EndInv
  <2> QED
    BY <2>1, <2>2, <2>3, <2>4, <2>5
<1> QED
  BY <1>9, <1>10

(* The worker w writes and has its notes, the command does not move.       *)
LEMMA WorkerWrites ==
    ASSUME HeadlessInv, UNCHANGED caller, worker' \in Children,
           worker.step \notin {"none", "dead"}, worker'.step # "none",
           orders' \in Seq(Orders),
           \A i \in DOMAIN orders' : orders'[i].kind = "prepare" => orders'[i].mode = Asked,
           NEW said \in Seq(Lines), lines' = lines \o said,
           worker'.asked \in {NoQuality, Asked}, worker'.confirmed \in {NoQuality, Asked},
           worker.reported => worker'.reported,
           worker.confirmed = Asked => worker'.confirmed = Asked,
           \A i \in DOMAIN said :
               /\ said[i].kind = "stats" => worker'.reported
               /\ said[i].kind = "applied" => said[i].mode = Asked /\ worker'.confirmed = Asked
               /\ said[i].kind = "stopped" => i = Len(said) /\ worker'.step = "dead",
           worker'.reported => worker.reported \/ \E i \in DOMAIN said : said[i].kind = "stats",
           worker'.confirmed # NoQuality => worker.confirmed # NoQuality
                                            \/ \E i \in DOMAIN said : said[i].kind = "applied"
    PROVE  HeadlessInv'
<1> USE DEF HeadlessInv
<1>0. caller \in Callers /\ worker \in Children /\ lines \in Seq(Lines)
  BY DEF HeadlessTypeOK
<1>1. /\ lines' \in Seq(Lines) /\ Len(lines') = Len(lines) + Len(said)
      /\ \A i \in DOMAIN lines : i \in DOMAIN lines' /\ lines'[i] = lines[i]
      /\ \A i \in DOMAIN said : i + Len(lines) \in DOMAIN lines' /\ lines'[i + Len(lines)] = said[i]
      /\ \A i \in DOMAIN lines' : i \in DOMAIN lines \/ i - Len(lines) \in DOMAIN said
      /\ \A i \in DOMAIN lines' : i \notin DOMAIN lines => lines'[i] = said[i - Len(lines)]
  BY <1>0
<1>2. Asked' = Asked /\ caller' = caller
  BY DEF Asked
<1>3. \A k : (\/ \E i \in DOMAIN lines : lines[i].kind = k
             \/ \E i \in DOMAIN said : said[i].kind = k)
            => \E i \in DOMAIN lines' : lines'[i].kind = k
  <2> SUFFICES ASSUME NEW k PROVE (\/ \E i \in DOMAIN lines : lines[i].kind = k
                                   \/ \E i \in DOMAIN said : said[i].kind = k)
                                  => \E i \in DOMAIN lines' : lines'[i].kind = k
    OBVIOUS
  <2>1. ASSUME NEW i \in DOMAIN lines, lines[i].kind = k PROVE \E j \in DOMAIN lines' : lines'[j].kind = k
    BY <1>1, <2>1
  <2>2. ASSUME NEW i \in DOMAIN said, said[i].kind = k PROVE \E j \in DOMAIN lines' : lines'[j].kind = k
    BY <1>1, <2>2
  <2> QED
    BY <2>1, <2>2
<1>4. HeadlessTypeOK'
  BY <1>0, <1>1, <1>2 DEF HeadlessTypeOK
<1>5. TruthInv'
  <2>1. \A i \in DOMAIN lines' :
            /\ lines'[i].kind = "stats" => worker'.reported
            /\ lines'[i].kind = "applied" => lines'[i].mode = Asked /\ worker'.confirmed = Asked
    BY <1>1 DEF TruthInv
  <2> QED
    BY <1>2, <2>1 DEF TruthInv
<1>6. ReportInv'
  BY <1>2, <1>3 DEF ReportInv, Unread
<1>7. EndInv'
  <2>1. \A i \in DOMAIN lines' : lines'[i].kind = "stopped" => i = Len(lines') /\ worker'.step = "dead"
    <3> SUFFICES ASSUME NEW i \in DOMAIN lines', lines'[i].kind = "stopped"
                 PROVE  i = Len(lines') /\ worker'.step = "dead"
      OBVIOUS
    <3>1. i \notin DOMAIN lines
      BY <1>1 DEF EndInv
    <3>2. i - Len(lines) \in DOMAIN said /\ said[i - Len(lines)].kind = "stopped"
      BY <1>1, <3>1
    <3> QED
      BY <1>0, <1>1, <3>2
  <2> QED
    BY <1>2, <2>1 DEF EndInv
<1>8. ExitIsTrue'
  BY <1>2 DEF ExitIsTrue, EndInv
<1> QED
  BY <1>4, <1>5, <1>6, <1>7, <1>8

LEMMA WorkerSteps ==
    ASSUME HeadlessInv, WorkerStarts \/ WorkerWaits \/ WorkerTakesOrder \/ WorkerDecodes
                        \/ WorkerEnds \/ WorkerDies
    PROVE  HeadlessInv'
<1>0. /\ caller \in Callers /\ worker \in Children /\ lines \in Seq(Lines) /\ orders \in Seq(Orders)
      /\ {worker.asked, worker.confirmed} \subseteq {NoQuality, Asked}
      /\ \A i \in DOMAIN orders : orders[i].kind = "prepare" => orders[i].mode = Asked
      /\ Asked \in Choices
  BY DEF HeadlessInv, HeadlessTypeOK, TruthInv, Asked, Callers, Options, Choices
<1>1. orders # <<>> => /\ Tail(orders) \in Seq(Orders) /\ Head(orders) = orders[1] /\ Head(orders) \in Orders
                       /\ \A i \in DOMAIN Tail(orders) : Tail(orders)[i].kind = "prepare" => Tail(orders)[i].mode = Asked
  BY <1>0
<1>2. /\ <<>> \in Seq(Lines) /\ lines \o <<>> = lines
      /\ \A kind \in {"connecting", "waiting", "failed", "stats"} : <<Event(kind)>> \in Seq(Lines)
      /\ <<Event("error"), Event("stopped")>> \in Seq(Lines)
  BY <1>0 DEF Event, Lines, Choices
<1>3. CASE WorkerStarts
  <2>1. /\ worker' = [worker EXCEPT !.step = "connecting"] /\ orders' = Tail(orders) /\ orders # <<>>
        /\ lines' = lines \o <<Event("connecting")>> /\ caller' = caller /\ worker.step = "fresh"
    BY <1>3 DEF WorkerStarts, Says
  <2>2. /\ worker' \in Children /\ worker'.step = "connecting" /\ worker'.asked = worker.asked
        /\ worker'.confirmed = worker.confirmed /\ worker'.reported = worker.reported
    BY <1>0, <2>1 DEF Children
  <2>3. \A i \in DOMAIN <<Event("connecting")>> : <<Event("connecting")>>[i].kind = "connecting"
    BY DEF Event
  <2> QED
    BY <1>0, <1>1, <1>2, <2>1, <2>2, <2>3, WorkerWrites
<1>4. CASE WorkerWaits
  <2>1. /\ worker' = [worker EXCEPT !.step = "streaming"] /\ orders' = orders
        /\ lines' = lines \o <<Event("waiting")>> /\ caller' = caller /\ worker.step = "connecting"
    BY <1>4 DEF WorkerWaits, Says
  <2>2. /\ worker' \in Children /\ worker'.step = "streaming" /\ worker'.asked = worker.asked
        /\ worker'.confirmed = worker.confirmed /\ worker'.reported = worker.reported
    BY <1>0, <2>1 DEF Children
  <2>3. \A i \in DOMAIN <<Event("waiting")>> : <<Event("waiting")>>[i].kind = "waiting"
    BY DEF Event
  <2> QED
    BY <1>0, <1>2, <2>1, <2>2, <2>3, WorkerWrites
<1>5. CASE WorkerTakesOrder
  <2>1. /\ orders' = Tail(orders) /\ orders # <<>> /\ Head(orders).kind = "prepare"
        /\ caller' = caller /\ worker.step = "streaming"
    BY <1>5 DEF WorkerTakesOrder
  <2>2. Head(orders).mode = Asked
    BY <1>0, <1>1, <2>1
  <2>3. CASE worker' = [worker EXCEPT !.asked = Head(orders).mode] /\ UNCHANGED lines
    <3>1. /\ worker' \in Children /\ worker'.step = "streaming" /\ worker'.asked = Asked
          /\ worker'.confirmed = worker.confirmed /\ worker'.reported = worker.reported
      BY <1>0, <2>1, <2>2, <2>3 DEF Children
    <3> DEFINE said == <<>>
    <3>2. said \in Seq(Lines) /\ lines' = lines \o said /\ DOMAIN said = {}
      BY <1>2, <2>3
    <3> HIDE DEF said
    <3> QED
      BY <1>0, <1>1, <2>1, <3>1, <3>2, WorkerWrites
  <2>4. CASE lines' = lines \o <<Event("failed")>> /\ UNCHANGED worker
    <3>1. \A i \in DOMAIN <<Event("failed")>> : <<Event("failed")>>[i].kind = "failed"
      BY DEF Event
    <3> QED
      BY <1>0, <1>1, <1>2, <2>1, <2>4, <3>1, WorkerWrites
  <2> QED
    BY <1>5, <2>3, <2>4 DEF WorkerTakesOrder, Says
<1>6. CASE WorkerDecodes
  <2>1. PICK submitted \in BOOLEAN, due \in BOOLEAN :
         LET applies == submitted /\ worker.asked # NoQuality IN
         /\ worker' = [worker EXCEPT
              !.pictures = @ + 1,
              !.reported = @ \/ due,
              !.confirmed = IF applies THEN worker.asked ELSE @,
              !.asked = IF applies THEN NoQuality ELSE @]
         /\ Says((IF applies THEN <<ModeEvent("applied", worker.asked)>> ELSE <<>>)
                 \o (IF due THEN <<Event("stats")>> ELSE <<>>))
    BY <1>6, Zenon DEF WorkerDecodes
  <2> DEFINE applies == submitted /\ worker.asked # NoQuality
             one == IF applies THEN <<ModeEvent("applied", worker.asked)>> ELSE <<>>
             two == IF due THEN <<Event("stats")>> ELSE <<>>
             confirmed == IF applies THEN worker.asked ELSE worker.confirmed
             asked == IF applies THEN NoQuality ELSE worker.asked
             reported == worker.reported \/ due
  <2>a. caller' = caller /\ orders' = orders /\ worker.step = "streaming"
    BY <1>6, Zenon DEF WorkerDecodes
  <2>b. lines' = lines \o (one \o two)
    BY <2>1, Zenon DEF Says
  <2>c. worker' = [worker EXCEPT !.pictures = worker.pictures + 1, !.reported = reported,
                                    !.confirmed = confirmed, !.asked = asked]
    BY <2>1, Zenon
  <2>2. /\ worker' = [worker EXCEPT !.pictures = worker.pictures + 1, !.reported = reported,
                                    !.confirmed = confirmed, !.asked = asked]
        /\ lines' = lines \o (one \o two) /\ caller' = caller /\ orders' = orders /\ worker.step = "streaming"
    BY <2>a, <2>b, <2>c
  <2>3. /\ applies \in BOOLEAN /\ confirmed \in {NoQuality, Asked} /\ asked \in {NoQuality, Asked}
        /\ reported \in BOOLEAN /\ {confirmed, asked} \subseteq Choices
        /\ applies => worker.asked = Asked /\ confirmed = Asked
        /\ ~applies => confirmed = worker.confirmed
        /\ worker.confirmed = Asked => confirmed = Asked
    BY <1>0 DEF Choices
  <2>4. /\ one \in Seq(Lines) /\ Len(one) = (IF applies THEN 1 ELSE 0)
        /\ applies => one[1].kind = "applied" /\ one[1].mode = worker.asked
    <3> DEFINE event == ModeEvent("applied", worker.asked)
    <3>1. event \in Lines /\ event.kind = "applied" /\ event.mode = worker.asked
      BY <1>0 DEF ModeEvent, Lines, Children
    <3>2. one = IF applies THEN <<event>> ELSE <<>>
      OBVIOUS
    <3> HIDE DEF event, applies, one
    <3>3. CASE applies
      BY <3>1, <3>2, <3>3
    <3>4. CASE ~applies
      BY <3>2, <3>4
    <3> QED
      BY <3>3, <3>4
  <2>5. two \in Seq(Lines) /\ Len(two) = (IF due THEN 1 ELSE 0) /\ (due => two[1].kind = "stats")
    <3> DEFINE event == Event("stats")
    <3>1. event \in Lines /\ event.kind = "stats"
      BY DEF Event, Lines, Choices
    <3>2. two = IF due THEN <<event>> ELSE <<>>
      OBVIOUS
    <3> HIDE DEF event, two
    <3>3. CASE due
      BY <3>1, <3>2, <3>3
    <3>4. CASE ~due
      BY <3>2, <3>4
    <3> QED
      BY <3>3, <3>4
  <2>6. reported <=> worker.reported \/ due
    OBVIOUS
  <2> HIDE DEF applies, one, two, confirmed, asked, reported
  <2>7. /\ worker' \in Children /\ worker'.step = "streaming" /\ worker'.asked = asked
        /\ worker'.confirmed = confirmed /\ worker'.reported = reported
    <3> DEFINE pictures == worker.pictures + 1
    <3>1. pictures \in Nat /\ worker' = [worker EXCEPT !.pictures = pictures, !.reported = reported,
                                    !.confirmed = confirmed, !.asked = asked]
      BY <1>0, <2>2 DEF Children
    <3>2. confirmed \in Choices /\ asked \in Choices /\ reported \in BOOLEAN /\ worker \in Children
      BY <1>0, <2>3
    <3> HIDE DEF pictures
    <3>3. worker' \in Children
      BY <3>1, <3>2 DEF Children
    <3>4. /\ worker'.step = worker.step /\ worker'.asked = asked
          /\ worker'.confirmed = confirmed /\ worker'.reported = reported
      BY <3>1, <3>2, Zenon DEF Children
    <3> QED
      BY <2>2, <3>3, <3>4
  <2> DEFINE said == one \o two
  <2>8. /\ said \in Seq(Lines) /\ Len(said) = Len(one) + Len(two)
        /\ \A i \in DOMAIN said : \/ applies /\ i = 1 /\ said[i] = one[1]
                                  \/ due /\ i = Len(said) /\ said[i] = two[1]
        /\ applies => 1 \in DOMAIN said /\ said[1] = one[1]
        /\ due => Len(said) \in DOMAIN said /\ said[Len(said)] = two[1]
    <3>1. /\ said \in Seq(Lines) /\ Len(said) = Len(one) + Len(two)
          /\ \A i \in DOMAIN said : said[i] = IF i <= Len(one) THEN one[i] ELSE two[i - Len(one)]
      <4>1. one \in Seq(Lines) /\ two \in Seq(Lines)
        BY <2>4, <2>5
      <4> QED
        BY <4>1, Concats
    <3> HIDE DEF said
    <3>2. CASE applies /\ due
      BY <2>4, <2>5, <3>1, <3>2
    <3>3. CASE applies /\ ~due
      BY <2>4, <2>5, <3>1, <3>3
    <3>4. CASE ~applies /\ due
      BY <2>4, <2>5, <3>1, <3>4
    <3>5. CASE ~applies /\ ~due
      BY <2>4, <2>5, <3>1, <3>5
    <3> QED
      BY <2>3, <3>2, <3>3, <3>4, <3>5
  <2>9. lines' = lines \o said
    BY <2>2
  <2> HIDE DEF said
  <2>10. /\ \A i \in DOMAIN said :
               /\ said[i].kind = "stats" => worker'.reported
               /\ said[i].kind = "applied" => said[i].mode = Asked /\ worker'.confirmed = Asked
               /\ said[i].kind # "stopped"
         /\ worker'.reported => worker.reported \/ \E i \in DOMAIN said : said[i].kind = "stats"
         /\ worker'.confirmed # NoQuality => worker.confirmed # NoQuality
                                             \/ \E i \in DOMAIN said : said[i].kind = "applied"
    BY <2>3, <2>4, <2>5, <2>6, <2>7, <2>8
  <2>11. /\ worker'.asked \in {NoQuality, Asked} /\ worker'.confirmed \in {NoQuality, Asked}
         /\ worker.reported => worker'.reported
         /\ worker.confirmed = Asked => worker'.confirmed = Asked
         /\ worker.step \notin {"none", "dead"} /\ worker'.step # "none"
         /\ UNCHANGED caller /\ orders' \in Seq(Orders)
         /\ \A i \in DOMAIN orders' : orders'[i].kind = "prepare" => orders'[i].mode = Asked
    BY <1>0, <2>2, <2>3, <2>6, <2>7
  <2> QED
    BY <2>7, <2>8, <2>9, <2>10, <2>11, WorkerWrites
<1>7. CASE WorkerEnds
  <2> DEFINE said == <<Event("error"), Event("stopped")>>
  <2>1. /\ worker' = [worker EXCEPT !.step = "dead"] /\ orders' = orders
        /\ lines' = lines \o said /\ caller' = caller /\ worker.step \in {"connecting", "streaming"}
    BY <1>7 DEF WorkerEnds, Says, Dead
  <2>2. /\ worker' \in Children /\ worker'.step = "dead" /\ worker'.asked = worker.asked
        /\ worker'.confirmed = worker.confirmed /\ worker'.reported = worker.reported
    BY <1>0, <2>1 DEF Children
  <2>3. /\ Len(said) = 2 /\ said[1].kind = "error" /\ said[2].kind = "stopped"
        /\ DOMAIN said = {1, 2} /\ said \in Seq(Lines)
    BY <1>2 DEF Event
  <2> HIDE DEF said
  <2> QED
    BY <1>0, <2>1, <2>2, <2>3, WorkerWrites
<1>8. CASE WorkerDies
  <2>1. /\ worker' = [worker EXCEPT !.step = "dead"] /\ orders' = orders
        /\ lines' = lines \o <<>> /\ caller' = caller
        /\ worker.step \in {"fresh", "connecting", "streaming"}
    BY <1>2, <1>8 DEF WorkerDies, Dead
  <2>2. /\ worker' \in Children /\ worker'.step = "dead" /\ worker'.asked = worker.asked
        /\ worker'.confirmed = worker.confirmed /\ worker'.reported = worker.reported
    BY <1>0, <2>1 DEF Children
  <2> DEFINE said == <<>>
  <2>3. said \in Seq(Lines) /\ lines' = lines \o said /\ DOMAIN said = {}
    BY <1>2, <2>1
  <2> HIDE DEF said
  <2>4. /\ worker'.asked \in {NoQuality, Asked} /\ worker'.confirmed \in {NoQuality, Asked}
        /\ worker.step \notin {"none", "dead"} /\ worker'.step # "none"
        /\ UNCHANGED caller /\ orders' \in Seq(Orders)
        /\ \A i \in DOMAIN orders' : orders'[i].kind = "prepare" => orders'[i].mode = Asked
    BY <1>0, <2>1, <2>2
  <2> QED
    BY <2>2, <2>3, <2>4, WorkerWrites
<1> QED
  BY <1>3, <1>4, <1>5, <1>6, <1>7, <1>8

(* Whatever line is read last and whenever the worker dies, the exit code  *)
(* says whether there was a stream in the mode that was asked for, and the *)
(* command leaves no worker behind (headless.rs run, streamed).            *)
THEOREM ExitCodes == HeadlessSpec => []ExitIsTrue
<1>1. HeadlessInit => HeadlessInv
  BY HeadlessInitInv
<1>2. HeadlessInv /\ [HeadlessNext]_headlessVars => HeadlessInv'
  <2>1. CASE UNCHANGED headlessVars
    BY <2>1 DEF headlessVars, HeadlessInv, HeadlessTypeOK, TruthInv, ReportInv, EndInv, ExitIsTrue,
                Asked, Unread
  <2> QED
    BY <2>1, CallerSteps, LoopSteps, ReadsLineInv, WorkerSteps DEF HeadlessNext
<1>3. HeadlessInv => ExitIsTrue
  BY DEF HeadlessInv
<1> QED
  BY <1>1, <1>2, <1>3, PTL DEF HeadlessSpec

-----------------------------------------------------------------------------
(* HostLink: the invariant, of a worker l, a report r, the transfers pc and  *)
(* the messages tp under way, and a phone p.                               *)

Messages == [kind : Kinds, value : Values]
Pieces == [head : BOOLEAN, of : Messages]
Links ==
    [step : {"dial", "align", "challenge", "result", "hello", "ping", "pong", "ended"},
     route : {"lan", "usb"}, probing : BOOLEAN, addresses : Seq(Addresses), attempt : {1, 2},
     stop : BOOLEAN, deadline : {"none", "armed", "expired"}, pending : BOOLEAN,
     nonce : Values, half : Messages \union {None}, outcome : LinkOutcomes \union {None}]
Reports == [sent : Int, echoed : Nat, mismatched : Nat, timedOut : Nat, seams : Int,
            index : Nat, target : Int, had : Int]
Phones == [session : Nat, state : {"challenged", "pending", "granted", "off"}, bound : BOOLEAN,
           out : Seq(Pieces), spoke : BOOLEAN, pongs : Nat, left : SUBSET Nat, grants : SUBSET Nat]
LinkTypes(l, r, pc, tp, p) ==
    /\ l \in Links /\ r \in Reports /\ pc \in Seq(Pieces) /\ tp \in Seq(Messages)
    /\ p \in Phones

(* Everything the PC has not read, in the order in which it will.          *)
Stream(pc, p) == pc \o p.out
IsChallenge(t) == t.head /\ t.of.kind = "challenge"
IsGrant(t) == t.head /\ t.of.kind = "result" /\ t.of.value = "authorized"
IsPong(t)  == t.head /\ t.of.kind = "pong"

(* What follows position n of the stream is of the session v, up to the    *)
(* next challenge: a grant in it is that session's.                        *)
Follows(v, q, n, p) ==
    /\ v \in 1..p.session
    /\ v = p.session \/ \E j \in DOMAIN q : j > n /\ IsChallenge(q[j])
    /\ \A j \in DOMAIN q : j > n =>
          /\ IsChallenge(q[j]) => v < q[j].of.value
          /\ IsGrant(q[j]) => v \in p.grants \/ \E k \in n+1..j : IsChallenge(q[k])
HoldsChallenge(l) == l.half # None /\ l.half.kind = "challenge"
HoldsGrant(l) == l.half # None /\ l.half.kind = "result" /\ l.half.value = "authorized"
StreamInv(l, q, p) ==
    /\ \A i \in DOMAIN q : IsChallenge(q[i]) => Follows(q[i].of.value, q, i, p)
    /\ HoldsChallenge(l) => Follows(l.half.value, q, 0, p)
    /\ l.step = "result" /\ ~HoldsChallenge(l) => Follows(l.nonce, q, 0, p)
    /\ l.step = "result" /\ HoldsGrant(l) => l.nonce \in p.grants

(* The worker has answered the challenge nonce.                            *)
Committed(l) == l.step = "result" \/ l.outcome = "authorized"
(* v is the value of no challenge that the worker can still answer.        *)
Unanswerable(v, l, q) ==
    /\ \A i \in DOMAIN q : IsChallenge(q[i]) => v < q[i].of.value
    /\ HoldsChallenge(l) => v < l.half.value
Helloed(tp, n) == \E i \in DOMAIN tp : i > n /\ tp[i].kind = "hello"
(* Each session is answered once, and left only if it is not the one that  *)
(* the worker has answered last.                                           *)
AnswerInv(l, q, tp, p) ==
    /\ p.session >= 1
    /\ p.state \in {"pending", "granted"} => Unanswerable(p.session, l, q)
    /\ \A i \in DOMAIN tp : tp[i].kind = "auth" =>
          /\ tp[i].value \in 1..p.session /\ Unanswerable(tp[i].value, l, q)
          /\ Committed(l) /\ Helloed(tp, i) => tp[i].value < l.nonce
    /\ Helloed(tp, 0) => l.attempt = 2
    /\ l.step = "hello" => l.attempt = 1
    /\ Committed(l) =>
          /\ l.nonce \in 1..p.session \ p.left
          /\ Helloed(tp, 0) /\ l.nonce = p.session => p.state \in {"challenged", "off"}
    /\ l.outcome = "authorized" => l.nonce \in p.grants
    /\ \A v \in p.left : v \in 1..p.session /\ Unanswerable(v, l, q)

Pongs(q) == {i \in DOMAIN q : IsPong(q[i])}
Held(l) == IF l.half # None /\ l.half.kind = "pong" THEN 1 ELSE 0
(* Every PING the report counts has one outcome, every echo one pong.      *)
CountInv(l, r, q, p) ==
    /\ l.step = "ended" <=> l.outcome # None
    /\ l.outcome \in {None, "report"} =>
          r.sent = r.echoed + r.mismatched + r.timedOut + (IF l.step = "pong" THEN 1 ELSE 0)
    /\ r.echoed + Cardinality(Pongs(q)) + Held(l) <= p.pongs

LinkTruth(l, r, q, tp, p) == StreamInv(l, q, p) /\ AnswerInv(l, q, tp, p) /\ CountInv(l, r, q, p)
LinkSound(l, r, pc, tp, p) == LinkTypes(l, r, pc, tp, p) /\ LinkTruth(l, r, Stream(pc, p), tp, p)
LinkInv == LinkSound(link, report, toPc, toPhone, phone)

\* What Append does to the positions.
LEMMA Appends ==
    ASSUME NEW S, NEW s \in Seq(S), NEW t \in S
    PROVE  /\ Append(s, t) \in Seq(S) /\ Len(Append(s, t)) = Len(s) + 1
           /\ DOMAIN Append(s, t) = 1..Len(s) + 1 /\ DOMAIN s = 1..Len(s) /\ Len(s) \in Nat
           /\ Append(s, t)[Len(s) + 1] = t
           /\ \A i \in 1..Len(s) : Append(s, t)[i] = s[i]
OBVIOUS

\* What Tail does to the positions.
LEMMA Tails ==
    ASSUME NEW S, NEW s \in Seq(S), s # <<>>
    PROVE  /\ Tail(s) \in Seq(S) /\ Len(Tail(s)) = Len(s) - 1 /\ Len(s) \in Nat \ {0}
           /\ DOMAIN Tail(s) = 1..Len(s) - 1 /\ DOMAIN s = 1..Len(s)
           /\ Head(s) = s[1] /\ s[1] \in S
           /\ \A i \in 1..Len(s) - 1 : Tail(s)[i] = s[i + 1]
OBVIOUS

-----------------------------------------------------------------------------
(* HostLink: what follows a position of the stream. *)

(* What is appended after a position is of the same session, unless it is  *)
(* a challenge; a grant is then the phone's of now.                        *)
LEMMA FollowsAppended ==
    ASSUME NEW v, NEW q \in Seq(Pieces), NEW n \in 0..Len(q), NEW p \in Phones,
           NEW t \in Pieces, ~IsChallenge(t), IsGrant(t) => p.session \in p.grants,
           Follows(v, q, n, p)
    PROVE  Follows(v, Append(q, t), n, p)
<1> DEFINE s == Append(q, t)
<1>1. /\ DOMAIN s = 1..Len(q) + 1 /\ DOMAIN q = 1..Len(q) /\ Len(q) \in Nat /\ s[Len(q) + 1] = t
      /\ \A i \in 1..Len(q) : s[i] = q[i]
  BY Appends
<1> HIDE DEF s
<1>2. /\ v \in 1..p.session
      /\ v = p.session \/ \E j \in DOMAIN q : j > n /\ IsChallenge(q[j])
      /\ \A j \in DOMAIN q : j > n =>
            /\ IsChallenge(q[j]) => v < q[j].of.value
            /\ IsGrant(q[j]) => v \in p.grants \/ \E k \in n+1..j : IsChallenge(q[k])
  BY DEF Follows
<1>3. v = p.session \/ \E j \in DOMAIN s : j > n /\ IsChallenge(s[j]) /\ j \in 1..Len(q)
  BY <1>1, <1>2
<1>4. ASSUME NEW j \in DOMAIN s, j > n
      PROVE  /\ IsChallenge(s[j]) => v < s[j].of.value
             /\ IsGrant(s[j]) => v \in p.grants \/ \E k \in n+1..j : IsChallenge(s[k])
  <2>1. CASE j \in 1..Len(q)
    <3>1. s[j] = q[j] /\ \A k \in n+1..j : s[k] = q[k]
      BY <1>1, <2>1
    <3> QED
      BY <1>1, <1>2, <1>4, <2>1, <3>1
  <2>2. CASE j = Len(q) + 1
    <3>1. s[j] = t /\ \A k \in 1..Len(q) : k > n => k \in n+1..j
      BY <1>1, <2>2
    <3> QED
      BY <1>1, <1>3, <3>1
  <2> QED
    BY <1>1, <1>4, <2>1, <2>2
<1> QED
  BY <1>1, <1>2, <1>3, <1>4 DEF Follows, s

(* A new session's challenge is greater than those before it.              *)
LEMMA FollowsChallenge ==
    ASSUME NEW v, NEW q \in Seq(Pieces), NEW n \in 0..Len(q), NEW p \in Phones, NEW x \in Phones,
           NEW t \in Pieces, IsChallenge(t), t.of.value = x.session,
           x.session = p.session + 1, x.grants = p.grants,
           Follows(v, q, n, p)
    PROVE  Follows(v, Append(q, t), n, x)
<1> DEFINE s == Append(q, t)
<1>1. /\ DOMAIN s = 1..Len(q) + 1 /\ DOMAIN q = 1..Len(q) /\ Len(q) \in Nat /\ s[Len(q) + 1] = t
      /\ \A i \in 1..Len(q) : s[i] = q[i]
  BY Appends
<1> HIDE DEF s
<1>2. /\ v \in 1..p.session
      /\ \A j \in DOMAIN q : j > n =>
            /\ IsChallenge(q[j]) => v < q[j].of.value
            /\ IsGrant(q[j]) => v \in p.grants \/ \E k \in n+1..j : IsChallenge(q[k])
  BY DEF Follows
<1>3. p.session \in Nat /\ v \in 1..x.session /\ v < x.session
  BY <1>2 DEF Phones
<1>4. \E j \in DOMAIN s : j > n /\ IsChallenge(s[j])
  BY <1>1
<1>5. ASSUME NEW j \in DOMAIN s, j > n
      PROVE  /\ IsChallenge(s[j]) => v < s[j].of.value
             /\ IsGrant(s[j]) => v \in x.grants \/ \E k \in n+1..j : IsChallenge(s[k])
  <2>1. CASE j \in 1..Len(q)
    <3>1. s[j] = q[j] /\ \A k \in n+1..j : s[k] = q[k]
      BY <1>1, <2>1
    <3> QED
      BY <1>1, <1>2, <1>5, <2>1, <3>1
  <2>2. CASE j = Len(q) + 1
    BY <1>1, <1>3, <1>5, <2>2 DEF IsChallenge, IsGrant
  <2> QED
    BY <1>1, <1>5, <2>1, <2>2
<1> QED
  BY <1>3, <1>4, <1>5 DEF Follows, s

(* Reading moves the position, or drops what follows it at once.           *)
LEMMA FollowsRead ==
    ASSUME NEW v, NEW q \in Seq(Pieces), q # <<>>, NEW n \in 0..Len(q), NEW p \in Phones,
           n = 0 => ~IsChallenge(q[1]), Follows(v, q, n, p)
    PROVE  Follows(v, Tail(q), IF n = 0 THEN 0 ELSE n - 1, p)
<1> DEFINE s == Tail(q)
           m == IF n = 0 THEN 0 ELSE n - 1
<1>1. /\ DOMAIN s = 1..Len(q) - 1 /\ DOMAIN q = 1..Len(q) /\ Len(q) \in Nat \ {0}
      /\ \A i \in 1..Len(q) - 1 : s[i] = q[i + 1]
  BY Tails
<1>2. m \in Nat /\ \A i \in Nat : i > m => i + 1 > n
  OBVIOUS
<1>3. \A i \in DOMAIN q : i > n /\ IsChallenge(q[i]) => i - 1 > m /\ i - 1 \in DOMAIN s
  BY <1>1
<1> HIDE DEF s, m
<1>4. /\ v \in 1..p.session
      /\ v = p.session \/ \E j \in DOMAIN q : j > n /\ IsChallenge(q[j])
      /\ \A j \in DOMAIN q : j > n =>
            /\ IsChallenge(q[j]) => v < q[j].of.value
            /\ IsGrant(q[j]) => v \in p.grants \/ \E k \in n+1..j : IsChallenge(q[k])
  BY DEF Follows
<1>5. \A i \in DOMAIN q : i > n /\ IsChallenge(q[i]) => s[i - 1] = q[i]
  BY <1>1, <1>3
<1>6. v = p.session \/ \E j \in DOMAIN s : j > m /\ IsChallenge(s[j])
  BY <1>3, <1>4, <1>5
<1>7. ASSUME NEW j \in DOMAIN s, j > m
      PROVE  /\ IsChallenge(s[j]) => v < s[j].of.value
             /\ IsGrant(s[j]) => v \in p.grants \/ \E k \in m+1..j : IsChallenge(s[k])
  <2>1. j + 1 \in DOMAIN q /\ j + 1 > n /\ s[j] = q[j + 1] /\ j \in Nat
    <3>1. j \in 1..Len(q) - 1 /\ j \in Nat /\ j + 1 \in 1..Len(q)
      BY <1>1
    <3> QED
      BY <1>1, <1>2, <1>7, <3>1
  <2>2. ASSUME NEW k \in n+1..j+1, IsChallenge(q[k]) PROVE k - 1 \in m+1..j /\ IsChallenge(s[k - 1])
    <3>1. k \in DOMAIN q /\ k > n
      BY <1>1, <2>1, <2>2
    <3> QED
      BY <1>2, <1>3, <1>5, <2>1, <2>2, <3>1
  <2> QED
    BY <1>4, <2>1, <2>2
<1> QED
  BY <1>4, <1>6, <1>7 DEF Follows, s, m

(* A grant that is read at once is of the session it follows.              *)
LEMMA FollowsGrant ==
    ASSUME NEW v, NEW q \in Seq(Pieces), q # <<>>, NEW p \in Phones, IsGrant(q[1]),
           Follows(v, q, 0, p)
    PROVE  v \in p.grants
<1>1. 1 \in DOMAIN q /\ \A k \in 0+1..1 : k = 1
  BY Tails
<1>2. v \in p.grants \/ \E k \in 0+1..1 : IsChallenge(q[k])
  BY <1>1 DEF Follows
<1> QED
  BY <1>1, <1>2 DEF IsGrant, IsChallenge

-----------------------------------------------------------------------------
(* HostLink: counting the echoes. *)

LEMMA PongsFinite ==
    ASSUME NEW q \in Seq(Pieces)
    PROVE  IsFiniteSet(Pongs(q)) /\ Cardinality(Pongs(q)) \in Nat
<1>1. IsFiniteSet(1..Len(q))
  BY FS_Interval
<1>2. Pongs(q) \in SUBSET (1..Len(q))
  BY DEF Pongs
<1> QED
  BY <1>1, <1>2, FS_Subset, FS_CardinalityType

\* A transfer adds one if it is an echo.
LEMMA PongAppended ==
    ASSUME NEW q \in Seq(Pieces), NEW t \in Pieces
    PROVE  Cardinality(Pongs(Append(q, t))) = Cardinality(Pongs(q)) + (IF IsPong(t) THEN 1 ELSE 0)
<1> DEFINE s == Append(q, t)
<1>1. /\ DOMAIN s = 1..Len(q) + 1 /\ DOMAIN q = 1..Len(q) /\ Len(q) \in Nat /\ s[Len(q) + 1] = t
      /\ \A i \in 1..Len(q) : s[i] = q[i]
  BY Appends
<1> HIDE DEF s
<1>2. Pongs(s) = IF IsPong(t) THEN Pongs(q) \union {Len(q) + 1} ELSE Pongs(q)
  <2>1. ASSUME NEW i PROVE i \in Pongs(s) <=> (i \in Pongs(q) \/ (i = Len(q) + 1 /\ IsPong(t)))
    <3>1. i \in 1..Len(q) + 1 <=> (i \in 1..Len(q) \/ i = Len(q) + 1)
      BY <1>1
    <3> QED
      BY <1>1, <3>1 DEF Pongs
  <2> QED
    BY <2>1
<1>3. Len(q) + 1 \notin Pongs(q)
  BY <1>1 DEF Pongs
<1>4. IsFiniteSet(Pongs(q)) /\ Cardinality(Pongs(q)) \in Nat
  BY PongsFinite
<1>5. Cardinality(Pongs(q) \union {Len(q) + 1}) = Cardinality(Pongs(q)) + 1
  BY <1>3, <1>4, FS_AddElement
<1> QED
  BY <1>2, <1>4, <1>5 DEF s

\* The first transfer takes one away if it is an echo.
LEMMA PongRead ==
    ASSUME NEW q \in Seq(Pieces), q # <<>>
    PROVE  Cardinality(Pongs(Tail(q))) + (IF IsPong(q[1]) THEN 1 ELSE 0) <= Cardinality(Pongs(q))
<1> DEFINE s == Tail(q)
           shift == [i \in Pongs(s) |-> i + 1]
<1>1. /\ s \in Seq(Pieces) /\ DOMAIN s = 1..Len(q) - 1 /\ DOMAIN q = 1..Len(q)
      /\ Len(q) \in Nat \ {0} /\ \A i \in 1..Len(q) - 1 : s[i] = q[i + 1]
  BY Tails
<1>2. shift \in Injection(Pongs(s), Pongs(q) \ {1})
  <2> HIDE DEF s
  <2>1. ASSUME NEW i \in Pongs(s) PROVE i \in Nat /\ i + 1 \in Pongs(q) \ {1}
    <3>1. i \in 1..Len(q) - 1 /\ IsPong(s[i])
      BY <1>1 DEF Pongs
    <3>2. i \in Nat /\ i + 1 \in 1..Len(q) /\ i + 1 # 1 /\ s[i] = q[i + 1]
      BY <1>1, <3>1
    <3> QED
      BY <1>1, <3>1, <3>2 DEF Pongs
  <2>2. shift \in [Pongs(s) -> Pongs(q) \ {1}] /\ DOMAIN shift = Pongs(s)
    BY <2>1
  <2>3. ASSUME NEW a \in Pongs(s), NEW b \in Pongs(s), shift[a] = shift[b] PROVE a = b
    BY <2>1, <2>3
  <2> HIDE DEF shift
  <2> QED
    BY <2>2, <2>3 DEF Injection, IsInjective
<1>3. /\ IsFiniteSet(Pongs(q)) /\ Cardinality(Pongs(q)) \in Nat
      /\ IsFiniteSet(Pongs(s)) /\ Cardinality(Pongs(s)) \in Nat
  BY <1>1, PongsFinite
<1>4. /\ IsFiniteSet(Pongs(q) \ {1})
      /\ Cardinality(Pongs(q) \ {1}) = IF 1 \in Pongs(q) THEN Cardinality(Pongs(q)) - 1
                                       ELSE Cardinality(Pongs(q))
  BY <1>3, FS_RemoveElement
<1>5. Cardinality(Pongs(s)) <= Cardinality(Pongs(q) \ {1})
  BY <1>2, <1>4, FS_Injection
<1>6. 1 \in Pongs(q) <=> IsPong(q[1])
  BY <1>1 DEF Pongs
<1> QED
  BY <1>3, <1>4, <1>5, <1>6

-----------------------------------------------------------------------------
(* HostLink: what a step of the stream keeps true. *)

(* A transfer that is no challenge is written.                             *)
LEMMA PieceWritten ==
    ASSUME NEW l \in Links, NEW r \in Reports, NEW q \in Seq(Pieces), NEW tp \in Seq(Messages),
           NEW p \in Phones, NEW t \in Pieces,
           ~IsChallenge(t), IsGrant(t) => p.session \in p.grants,
           IsPong(t) => r.echoed + Cardinality(Pongs(q)) + Held(l) < p.pongs,
           LinkTruth(l, r, q, tp, p)
    PROVE  LinkTruth(l, r, Append(q, t), tp, p)
<1> DEFINE s == Append(q, t)
<1>1. /\ s \in Seq(Pieces) /\ DOMAIN s = 1..Len(q) + 1 /\ DOMAIN q = 1..Len(q) /\ Len(q) \in Nat
      /\ s[Len(q) + 1] = t /\ \A i \in 1..Len(q) : s[i] = q[i]
  BY Appends
<1>2. Cardinality(Pongs(s)) = Cardinality(Pongs(q)) + (IF IsPong(t) THEN 1 ELSE 0)
  BY PongAppended
<1>3. \A v : \A n \in 0..Len(q) : Follows(v, q, n, p) => Follows(v, s, n, p)
  BY FollowsAppended
<1> HIDE DEF s
<1>4. \A i \in DOMAIN s : IsChallenge(s[i]) => i \in DOMAIN q /\ s[i] = q[i]
  BY <1>1
<1>5. StreamInv(l, s, p)
  <2>1. 0 \in 0..Len(q) /\ \A i \in DOMAIN q : i \in 0..Len(q)
    BY <1>1
  <2> QED
    BY <1>3, <1>4, <2>1 DEF LinkTruth, StreamInv
<1>6. \A v : Unanswerable(v, l, q) => Unanswerable(v, l, s)
  BY <1>4 DEF Unanswerable
<1>7. AnswerInv(l, s, tp, p)
  BY <1>6 DEF LinkTruth, AnswerInv
<1>8. CountInv(l, r, s, p)
  <2>1. Cardinality(Pongs(q)) \in Nat /\ r.echoed \in Nat /\ Held(l) \in {0, 1} /\ p.pongs \in Nat
    BY PongsFinite DEF Reports, Phones, Held
  <2>2. r.echoed + Cardinality(Pongs(q)) + Held(l) <= p.pongs
    BY DEF LinkTruth, CountInv
  <2>3. r.echoed + Cardinality(Pongs(s)) + Held(l) <= p.pongs
    BY <1>2, <2>1, <2>2
  <2> QED
    BY <2>3 DEF LinkTruth, CountInv
<1> QED
  BY <1>5, <1>7, <1>8 DEF LinkTruth, s

(* The challenge of a new session is written.                              *)
LEMMA ChallengeWritten ==
    ASSUME NEW l \in Links, NEW r \in Reports, NEW q \in Seq(Pieces), NEW tp \in Seq(Messages),
           NEW p \in Phones, NEW x \in Phones, NEW t \in Pieces,
           IsChallenge(t), t.of.value = x.session, x.session = p.session + 1,
           x.state = "challenged", x.grants = p.grants, x.left = p.left, x.pongs = p.pongs,
           LinkTruth(l, r, q, tp, p)
    PROVE  LinkTruth(l, r, Append(q, t), tp, x)
<1> DEFINE s == Append(q, t)
<1>1. /\ s \in Seq(Pieces) /\ DOMAIN s = 1..Len(q) + 1 /\ DOMAIN q = 1..Len(q) /\ Len(q) \in Nat
      /\ s[Len(q) + 1] = t /\ \A i \in 1..Len(q) : s[i] = q[i]
  BY Appends
<1>2. Cardinality(Pongs(s)) = Cardinality(Pongs(q))
  <2>1. ~IsPong(t) /\ Cardinality(Pongs(q)) \in Nat
    BY PongsFinite DEF IsPong, IsChallenge
  <2> QED
    BY <2>1, PongAppended
<1>3. \A v : \A n \in 0..Len(q) : Follows(v, q, n, p) => Follows(v, s, n, x)
  BY FollowsChallenge
<1> HIDE DEF s
<1>4. p.session \in Nat /\ p.session >= 1
  BY DEF LinkTruth, AnswerInv, Phones
<1>5. StreamInv(l, s, x)
  <2>1. 0 \in 0..Len(q) /\ \A i \in DOMAIN q : i \in 0..Len(q)
    BY <1>1
  <2>2. Follows(x.session, s, Len(q) + 1, x)
    BY <1>1, <1>4 DEF Follows
  <2>3. ASSUME NEW i \in DOMAIN s, IsChallenge(s[i]) PROVE Follows(s[i].of.value, s, i, x)
    <3>1. CASE i \in DOMAIN q
      BY <1>1, <1>3, <2>1, <2>3, <3>1 DEF LinkTruth, StreamInv
    <3>2. CASE i = Len(q) + 1
      BY <1>1, <2>2, <3>2
    <3> QED
      BY <1>1, <3>1, <3>2
  <2> QED
    BY <1>3, <2>1, <2>3 DEF LinkTruth, StreamInv
<1>6. \A v \in 1..p.session : v \in 1..x.session /\ (Unanswerable(v, l, q) => Unanswerable(v, l, s))
  <2>1. ASSUME NEW v \in 1..p.session, Unanswerable(v, l, q) PROVE Unanswerable(v, l, s)
    <3>1. v < x.session
      BY <1>4
    <3>2. \A i \in DOMAIN s : i \in DOMAIN q \/ i = Len(q) + 1
      BY <1>1
    <3> QED
      BY <1>1, <2>1, <3>1, <3>2 DEF Unanswerable
  <2>2. \A v \in 1..p.session : v \in 1..x.session
    BY <1>4
  <2> QED
    BY <2>1, <2>2
<1>7. AnswerInv(l, s, tp, x)
  <2>1. x.session >= 1 /\ x.session \notin 1..p.session
    BY <1>4
  <2>2. /\ \A i \in DOMAIN tp : tp[i].kind = "auth" =>
              /\ tp[i].value \in 1..p.session /\ Unanswerable(tp[i].value, l, q)
              /\ Committed(l) /\ Helloed(tp, i) => tp[i].value < l.nonce
        /\ Helloed(tp, 0) => l.attempt = 2
        /\ l.step = "hello" => l.attempt = 1
        /\ Committed(l) => l.nonce \in 1..p.session \ p.left
        /\ l.outcome = "authorized" => l.nonce \in p.grants
        /\ \A v \in p.left : v \in 1..p.session /\ Unanswerable(v, l, q)
    BY DEF LinkTruth, AnswerInv
  <2> QED
    BY <1>6, <2>1, <2>2 DEF AnswerInv
<1>8. CountInv(l, r, s, x)
  BY <1>2 DEF LinkTruth, CountInv
<1> QED
  BY <1>5, <1>7, <1>8 DEF LinkTruth, s

(* The rest of a frame is read, or dropped.                                *)
LEMMA PieceRead ==
    ASSUME NEW l \in Links, NEW r \in Reports, NEW q \in Seq(Pieces), NEW tp \in Seq(Messages),
           NEW p \in Phones, q # <<>>, ~q[1].head, LinkTruth(l, r, q, tp, p)
    PROVE  LinkTruth(l, r, Tail(q), tp, p)
<1> DEFINE s == Tail(q)
<1>1. /\ s \in Seq(Pieces) /\ DOMAIN s = 1..Len(q) - 1 /\ DOMAIN q = 1..Len(q)
      /\ Len(q) \in Nat \ {0} /\ \A i \in 1..Len(q) - 1 : s[i] = q[i + 1]
  BY Tails
<1>2. ~IsChallenge(q[1]) /\ ~IsPong(q[1])
  BY DEF IsChallenge, IsPong
<1>3. Cardinality(Pongs(s)) <= Cardinality(Pongs(q))
  <2>1. Cardinality(Pongs(q)) \in Nat /\ Cardinality(Pongs(s)) \in Nat
    BY <1>1, PongsFinite
  <2> QED
    BY <1>2, <2>1, PongRead
<1>4. \A v : \A n \in 0..Len(q) : Follows(v, q, n, p) => Follows(v, s, IF n = 0 THEN 0 ELSE n - 1, p)
  BY <1>2, FollowsRead
<1> HIDE DEF s
<1>5. \A i \in DOMAIN s : i + 1 \in DOMAIN q /\ i + 1 \in 0..Len(q) /\ i + 1 # 0 /\ (i + 1) - 1 = i
                          /\ s[i] = q[i + 1]
  <2>1. ASSUME NEW i \in 1..Len(q) - 1
        PROVE  i + 1 \in 1..Len(q) /\ i + 1 \in 0..Len(q) /\ i + 1 # 0 /\ (i + 1) - 1 = i
    BY <1>1
  <2> QED
    BY <1>1, <2>1
<1>6. StreamInv(l, s, p)
  <2>1. 0 \in 0..Len(q)
    BY <1>1
  <2>2. \A v : Follows(v, q, 0, p) => Follows(v, s, 0, p)
    BY <1>4, <2>1
  <2>3. ASSUME NEW i \in DOMAIN s, IsChallenge(s[i]) PROVE Follows(s[i].of.value, s, i, p)
    <3>1. Follows(q[i + 1].of.value, q, i + 1, p)
      BY <1>5, <2>3 DEF LinkTruth, StreamInv
    <3> QED
      BY <1>4, <1>5, <3>1
  <2> QED
    BY <2>2, <2>3 DEF LinkTruth, StreamInv
<1>7. \A v : Unanswerable(v, l, q) => Unanswerable(v, l, s)
  BY <1>5 DEF Unanswerable
<1>8. AnswerInv(l, s, tp, p)
  BY <1>7 DEF LinkTruth, AnswerInv
<1>9. CountInv(l, r, s, p)
  <2>1. /\ Cardinality(Pongs(q)) \in Nat /\ Cardinality(Pongs(s)) \in Nat
        /\ r.echoed \in Nat /\ Held(l) \in {0, 1} /\ p.pongs \in Nat
    BY <1>1, PongsFinite DEF Reports, Phones, Held
  <2>2. r.echoed + Cardinality(Pongs(q)) + Held(l) <= p.pongs
    BY DEF LinkTruth, CountInv
  <2>3. r.echoed + Cardinality(Pongs(s)) + Held(l) <= p.pongs
    BY <1>3, <2>1, <2>2
  <2> QED
    BY <2>3 DEF LinkTruth, CountInv
<1> QED
  BY <1>6, <1>8, <1>9 DEF LinkTruth, s

(* A header is read and kept.                                              *)
LEMMA HeaderKept ==
    ASSUME NEW l \in Links, NEW y \in Links, NEW r \in Reports, NEW q \in Seq(Pieces),
           NEW tp \in Seq(Messages), NEW p \in Phones, q # <<>>, q[1].head,
           l.half = None, y.half = q[1].of, y.step = l.step, y.nonce = l.nonce,
           y.outcome = l.outcome, y.attempt = l.attempt, LinkTruth(l, r, q, tp, p)
    PROVE  LinkTruth(y, r, Tail(q), tp, p)
<1> DEFINE s == Tail(q)
<1>1. /\ s \in Seq(Pieces) /\ DOMAIN s = 1..Len(q) - 1 /\ DOMAIN q = 1..Len(q) /\ q[1] \in Pieces
      /\ Len(q) \in Nat \ {0} /\ \A i \in 1..Len(q) - 1 : s[i] = q[i + 1]
  BY Tails
<1>2. /\ HoldsChallenge(y) <=> IsChallenge(q[1])
      /\ HoldsGrant(y) <=> IsGrant(q[1])
      /\ Held(y) = (IF IsPong(q[1]) THEN 1 ELSE 0)
      /\ ~HoldsChallenge(l) /\ Held(l) = 0
  <2>1. y.half # None
    BY <1>1, NoneAssumption DEF Pieces, Messages
  <2> QED
    BY <2>1 DEF HoldsChallenge, HoldsGrant, Held, IsChallenge, IsGrant, IsPong
<1>3. Cardinality(Pongs(s)) + (IF IsPong(q[1]) THEN 1 ELSE 0) <= Cardinality(Pongs(q))
  BY PongRead
<1>4. \A v : \A n \in 0..Len(q) : (n = 0 => ~IsChallenge(q[1])) /\ Follows(v, q, n, p)
                                 => Follows(v, s, IF n = 0 THEN 0 ELSE n - 1, p)
  BY FollowsRead
<1> HIDE DEF s
<1>5. \A i \in DOMAIN s : i + 1 \in DOMAIN q /\ i + 1 \in 0..Len(q) /\ i + 1 # 0 /\ (i + 1) - 1 = i
                          /\ s[i] = q[i + 1]
  <2>1. ASSUME NEW i \in 1..Len(q) - 1
        PROVE  i + 1 \in 1..Len(q) /\ i + 1 \in 0..Len(q) /\ i + 1 # 0 /\ (i + 1) - 1 = i
    BY <1>1
  <2> QED
    BY <1>1, <2>1
<1>6. StreamInv(y, s, p)
  <2>1. 0 \in 0..Len(q) /\ 1 \in 0..Len(q) /\ 1 \in DOMAIN q /\ 1 - 1 = 0
    BY <1>1
  <2>2. \A v : ~IsChallenge(q[1]) /\ Follows(v, q, 0, p) => Follows(v, s, 0, p)
    BY <1>4, <2>1
  <2>3. \A v : Follows(v, q, 1, p) => Follows(v, s, 0, p)
    BY <1>4, <2>1
  <2>4. ASSUME NEW i \in DOMAIN s, IsChallenge(s[i]) PROVE Follows(s[i].of.value, s, i, p)
    <3>1. Follows(q[i + 1].of.value, q, i + 1, p)
      BY <1>5, <2>4 DEF LinkTruth, StreamInv
    <3> QED
      BY <1>4, <1>5, <3>1
  <2>5. IsChallenge(q[1]) => Follows(y.half.value, s, 0, p)
    BY <2>1, <2>3 DEF LinkTruth, StreamInv
  <2>6. y.step = "result" => Follows(y.nonce, q, 0, p)
    BY <1>2 DEF LinkTruth, StreamInv
  <2>7. y.step = "result" /\ IsGrant(q[1]) => y.nonce \in p.grants
    BY <2>6, FollowsGrant
  <2> QED
    BY <1>2, <2>2, <2>4, <2>5, <2>6, <2>7 DEF StreamInv
<1>7. \A v : Unanswerable(v, l, q) => Unanswerable(v, y, s)
  <2>1. 1 \in DOMAIN q
    BY <1>1
  <2> QED
    BY <1>2, <1>5, <2>1 DEF Unanswerable
<1>8. AnswerInv(y, s, tp, p)
  <2>1. Committed(y) <=> Committed(l)
    BY DEF Committed
  <2> QED
    BY <1>7, <2>1 DEF LinkTruth, AnswerInv
<1>9. CountInv(y, r, s, p)
  <2>1. /\ Cardinality(Pongs(q)) \in Nat /\ Cardinality(Pongs(s)) \in Nat
        /\ r.echoed \in Nat /\ Held(l) \in {0, 1} /\ p.pongs \in Nat
    BY <1>1, PongsFinite DEF Reports, Phones, Held
  <2>2. r.echoed + Cardinality(Pongs(q)) + Held(l) <= p.pongs
    BY DEF LinkTruth, CountInv
  <2>3. r.echoed + Cardinality(Pongs(s)) + Held(y) <= p.pongs
    BY <1>2, <1>3, <2>1, <2>2
  <2> QED
    BY <2>3 DEF LinkTruth, CountInv
<1> QED
  BY <1>6, <1>8, <1>9 DEF LinkTruth, s

(* The worker goes on, or gives up, without an answer to a challenge.      *)
LEMMA WorkerMoves ==
    ASSUME NEW l \in Links, NEW y \in Links, NEW r \in Reports, NEW u \in Reports,
           NEW q \in Seq(Pieces), NEW tp \in Seq(Messages), NEW p \in Phones,
           y.half \in {l.half, None},
           y.step = "result" => /\ l.step = "result" /\ y.nonce = l.nonce
                                /\ y.half = l.half \/ ~HoldsChallenge(l),
           y.step = "hello" => y.attempt = 1, y.attempt \in {l.attempt, 2},
           y.outcome = "authorized" =>
               /\ y.nonce = l.nonce
               /\ l.outcome = "authorized" \/ (l.step = "result" /\ l.nonce \in p.grants),
           CountInv(y, u, q, p), LinkTruth(l, r, q, tp, p)
    PROVE  LinkTruth(y, u, q, tp, p)
<1>1. /\ HoldsChallenge(y) => HoldsChallenge(l) /\ y.half = l.half
      /\ HoldsGrant(y) => HoldsGrant(l)
  BY DEF HoldsChallenge, HoldsGrant
<1>2. StreamInv(y, q, p)
  <2>1. y.step = "result" /\ ~HoldsChallenge(y) => ~HoldsChallenge(l)
    BY DEF HoldsChallenge
  <2> QED
    BY <1>1, <2>1 DEF LinkTruth, StreamInv
<1>3. \A v : Unanswerable(v, l, q) => Unanswerable(v, y, q)
  BY <1>1 DEF Unanswerable
<1>4. Committed(y) => Committed(l) /\ y.nonce = l.nonce
  BY DEF Committed
<1>5. AnswerInv(y, q, tp, p)
  BY <1>3, <1>4 DEF LinkTruth, AnswerInv
<1> QED
  BY <1>2, <1>5 DEF LinkTruth

(* A PING or another message that is no answer and no HOST_HELLO is sent.  *)
LEMMA MessageSent ==
    ASSUME NEW l \in Links, NEW r \in Reports, NEW q \in Seq(Pieces), NEW tp \in Seq(Messages),
           NEW p \in Phones, NEW m \in Messages, m.kind \notin {"auth", "hello"},
           LinkTruth(l, r, q, tp, p)
    PROVE  LinkTruth(l, r, q, Append(tp, m), p)
<1> DEFINE to == Append(tp, m)
<1>1. /\ DOMAIN to = 1..Len(tp) + 1 /\ DOMAIN tp = 1..Len(tp) /\ Len(tp) \in Nat
      /\ to[Len(tp) + 1] = m /\ \A i \in 1..Len(tp) : to[i] = tp[i]
  BY Appends
<1> HIDE DEF to
<1>2. \A i \in DOMAIN to : to[i].kind \in {"auth", "hello"} => i \in DOMAIN tp /\ to[i] = tp[i]
  BY <1>1
<1>3. \A n : Helloed(to, n) => Helloed(tp, n)
  BY <1>2 DEF Helloed
<1>4. AnswerInv(l, q, to, p)
  BY <1>2, <1>3 DEF LinkTruth, AnswerInv
<1> QED
  BY <1>4 DEF LinkTruth, to

(* The phone reads the first message.                                      *)
LEMMA MessageTaken ==
    ASSUME NEW l \in Links, NEW r \in Reports, NEW q \in Seq(Pieces), NEW tp \in Seq(Messages),
           NEW p \in Phones, tp # <<>>, LinkTruth(l, r, q, tp, p)
    PROVE  LinkTruth(l, r, q, Tail(tp), p)
<1> DEFINE to == Tail(tp)
<1>1. /\ DOMAIN to = 1..Len(tp) - 1 /\ DOMAIN tp = 1..Len(tp)
      /\ Len(tp) \in Nat \ {0} /\ \A i \in 1..Len(tp) - 1 : to[i] = tp[i + 1]
  BY Tails
<1> HIDE DEF to
<1>2. \A i \in DOMAIN to : i + 1 \in DOMAIN tp /\ i \in Nat /\ to[i] = tp[i + 1]
  <2>1. \A i \in 1..Len(tp) - 1 : i + 1 \in 1..Len(tp) /\ i \in Nat
    BY <1>1
  <2> QED
    BY <1>1, <2>1
<1>3. \A n \in Nat : Helloed(to, n) => Helloed(tp, n + 1) /\ Helloed(tp, 0)
  <2>1. \A n \in Nat : \A i \in Nat : i > n => i + 1 > n + 1 /\ i + 1 > 0
    OBVIOUS
  <2> QED
    BY <1>2, <2>1 DEF Helloed
<1>4. AnswerInv(l, q, to, p)
  BY <1>2, <1>3 DEF LinkTruth, AnswerInv
<1> QED
  BY <1>4 DEF LinkTruth, to

-----------------------------------------------------------------------------
(* HostLink: the two halves of the stream. *)

\* The lemmas say of sequences what the steps do to pc \o p.out.
LEMMA PieceMoved ==
    ASSUME NEW S, NEW s \in Seq(S), NEW t \in Seq(S), t # <<>>
    PROVE  Append(s, Head(t)) \o Tail(t) = s \o t
<1> DEFINE a == Append(s, Head(t)) \o Tail(t)
           b == s \o t
<1>1. a \in Seq(S) /\ b \in Seq(S) /\ Len(a) = Len(b)
  OBVIOUS
<1>2. ASSUME NEW i \in 1..Len(b) PROVE a[i] = b[i]
  OBVIOUS
<1> HIDE DEF a, b
<1>3. a = b
  BY <1>1, <1>2
<1> QED
  BY <1>3 DEF a, b

\* What is read from the endpoint is the start of the stream.
LEMMA FirstTaken ==
    ASSUME NEW S, NEW s \in Seq(S), NEW t \in Seq(S), s # <<>>
    PROVE  Tail(s) \o t = Tail(s \o t) /\ s \o t # <<>> /\ (s \o t)[1] = Head(s)
<1> DEFINE a == Tail(s) \o t
           b == Tail(s \o t)
<1>1. a \in Seq(S) /\ b \in Seq(S) /\ Len(a) = Len(b)
  OBVIOUS
<1>2. ASSUME NEW i \in 1..Len(b) PROVE a[i] = b[i]
  OBVIOUS
<1>3. s \o t # <<>> /\ (s \o t)[1] = Head(s)
  OBVIOUS
<1> HIDE DEF a, b
<1>4. a = b
  BY <1>1, <1>2
<1> QED
  BY <1>3, <1>4 DEF a, b

\* A frame is two transfers at its end.
LEMMA TwoAppended ==
    ASSUME NEW S, NEW s \in Seq(S), NEW t \in Seq(S), NEW one \in S, NEW two \in S
    PROVE  s \o (t \o <<one, two>>) = Append(Append(s \o t, one), two)
<1> DEFINE a == s \o (t \o <<one, two>>)
           b == Append(Append(s \o t, one), two)
<1>1. a \in Seq(S) /\ b \in Seq(S) /\ Len(a) = Len(b)
  OBVIOUS
<1>2. ASSUME NEW i \in 1..Len(b) PROVE a[i] = b[i]
  OBVIOUS
<1> HIDE DEF a, b
<1>3. a = b
  BY <1>1, <1>2
<1> QED
  BY <1>3 DEF a, b

-----------------------------------------------------------------------------
(* HostLink: what the phone does. *)

LEMMA PhoneSends ==
    ASSUME NEW p \in Phones, NEW m \in Messages, NEW pc \in Seq(Pieces)
    PROVE  LET x == Sends(p, m)
               one == [head |-> TRUE, of |-> m]
               two == [head |-> FALSE, of |-> m]
           IN  /\ x \in Phones /\ one \in Pieces /\ two \in Pieces
               /\ x.session = p.session /\ x.state = p.state /\ x.grants = p.grants
               /\ x.left = p.left /\ x.pongs = p.pongs
               /\ Stream(pc, x) = Append(Append(Stream(pc, p), one), two)
               /\ Stream(pc, p) \in Seq(Pieces)
<1> DEFINE x == Sends(p, m)
           one == [head |-> TRUE, of |-> m]
           two == [head |-> FALSE, of |-> m]
           out == p.out \o <<one, two>>
<1>1. one \in Pieces /\ two \in Pieces
  BY DEF Pieces
<1>2. p.out \in Seq(Pieces) /\ Stream(pc, p) \in Seq(Pieces)
  BY DEF Phones, Stream
<1>3. x = [p EXCEPT !.out = out]
  BY DEF Sends, Transfers
<1> HIDE DEF one, two, x
<1>4. out \in Seq(Pieces)
  BY <1>1, <1>2
<1>5. pc \o out = Append(Append(pc \o p.out, one), two)
  <2> DEFINE before == p.out
  <2>1. before \in Seq(Pieces)
    BY <1>2
  <2> HIDE DEF before
  <2>2. pc \o (before \o <<one, two>>) = Append(Append(pc \o before, one), two)
    BY <1>1, <2>1, TwoAppended
  <2> QED
    BY <2>2 DEF before
<1> HIDE DEF out
<1>6. /\ x \in Phones /\ x.out = out
      /\ x.session = p.session /\ x.state = p.state /\ x.grants = p.grants
      /\ x.left = p.left /\ x.pongs = p.pongs
  BY <1>3, <1>4 DEF Phones
<1>7. Stream(pc, x) = Append(Append(Stream(pc, p), one), two)
  BY <1>5, <1>6 DEF Stream
<1> QED
  BY <1>1, <1>2, <1>6, <1>7 DEF x, one, two

(* Only the session, its state, what it has granted and left, and what it  *)
(* has echoed count.                                                       *)
LEMMA PhoneMoves ==
    ASSUME NEW l \in Links, NEW r \in Reports, NEW q \in Seq(Pieces), NEW tp \in Seq(Messages),
           NEW p \in Phones, NEW x \in Phones,
           x.session = p.session, p.grants \subseteq x.grants, p.pongs <= x.pongs,
           x.state \in {"pending", "granted"} =>
               \/ p.state \in {"pending", "granted"}
               \/ /\ Unanswerable(p.session, l, q)
                  /\ ~(Committed(l) /\ Helloed(tp, 0) /\ l.nonce = p.session),
           x.left \subseteq p.left \union {p.session},
           p.session \in x.left =>
               \/ p.session \in p.left
               \/ Unanswerable(p.session, l, q) /\ (Committed(l) => l.nonce # p.session),
           LinkTruth(l, r, q, tp, p)
    PROVE  LinkTruth(l, r, q, tp, x)
<1>1. \A v : \A n : Follows(v, q, n, p) => Follows(v, q, n, x)
  BY DEF Follows
<1>2. StreamInv(l, q, x)
  BY <1>1 DEF LinkTruth, StreamInv
<1>3. CountInv(l, r, q, x)
  <2>1. /\ Cardinality(Pongs(q)) \in Nat /\ r.echoed \in Nat /\ Held(l) \in {0, 1}
        /\ p.pongs \in Nat /\ x.pongs \in Nat
    BY PongsFinite DEF Reports, Phones, Held
  <2>2. r.echoed + Cardinality(Pongs(q)) + Held(l) <= p.pongs
    BY DEF LinkTruth, CountInv
  <2>3. r.echoed + Cardinality(Pongs(q)) + Held(l) <= x.pongs
    BY <2>1, <2>2
  <2> QED
    BY <2>3 DEF LinkTruth, CountInv
<1>4. /\ p.session >= 1 /\ p.session \in 1..p.session
      /\ x.state \in {"challenged", "pending", "granted", "off"}
  BY DEF LinkTruth, AnswerInv, Phones
<1>5. AnswerInv(l, q, tp, x)
  <2>1. /\ p.state \in {"pending", "granted"} => Unanswerable(p.session, l, q)
        /\ \A i \in DOMAIN tp : tp[i].kind = "auth" =>
              /\ tp[i].value \in 1..p.session /\ Unanswerable(tp[i].value, l, q)
              /\ Committed(l) /\ Helloed(tp, i) => tp[i].value < l.nonce
        /\ Helloed(tp, 0) => l.attempt = 2
        /\ l.step = "hello" => l.attempt = 1
        /\ Committed(l) =>
              /\ l.nonce \in 1..p.session \ p.left
              /\ Helloed(tp, 0) /\ l.nonce = p.session => p.state \in {"challenged", "off"}
        /\ l.outcome = "authorized" => l.nonce \in p.grants
        /\ \A v \in p.left : v \in 1..p.session /\ Unanswerable(v, l, q)
    BY DEF LinkTruth, AnswerInv
  <2>2. Committed(l) => l.nonce \in 1..x.session \ x.left
    BY <2>1
  <2>3. Committed(l) /\ Helloed(tp, 0) /\ l.nonce = x.session => x.state \in {"challenged", "off"}
    BY <1>4, <2>1
  <2>4. \A v \in x.left : v \in 1..x.session /\ Unanswerable(v, l, q)
    BY <1>4, <2>1
  <2>5. l.outcome = "authorized" => l.nonce \in x.grants
    BY <2>1
  <2>6. x.state \in {"pending", "granted"} => Unanswerable(x.session, l, q)
    BY <2>1
  <2> QED
    BY <1>4, <2>1, <2>2, <2>3, <2>4, <2>5, <2>6 DEF AnswerInv
<1> QED
  BY <1>2, <1>3, <1>5 DEF LinkTruth

(* A frame that is no challenge.                                           *)
LEMMA FrameSent ==
    ASSUME NEW l, NEW r, NEW pc, NEW tp, NEW p, NEW m \in Messages, m.kind # "challenge",
           m.kind = "result" /\ m.value = "authorized" => p.session \in p.grants,
           m.kind = "pong" => r.echoed + Cardinality(Pongs(Stream(pc, p))) + Held(l) < p.pongs,
           LinkSound(l, r, pc, tp, p)
    PROVE  LinkSound(l, r, pc, tp, Sends(p, m))
<1> DEFINE x == Sends(p, m)
           one == [head |-> TRUE, of |-> m]
           two == [head |-> FALSE, of |-> m]
           q == Stream(pc, p)
<1>1. /\ l \in Links /\ r \in Reports /\ pc \in Seq(Pieces) /\ tp \in Seq(Messages) /\ p \in Phones
      /\ LinkTruth(l, r, q, tp, p)
  BY DEF LinkSound, LinkTypes
<1>2. /\ x \in Phones /\ one \in Pieces /\ two \in Pieces
      /\ x.session = p.session /\ x.state = p.state /\ x.grants = p.grants
      /\ x.left = p.left /\ x.pongs = p.pongs
      /\ Stream(pc, x) = Append(Append(q, one), two) /\ q \in Seq(Pieces)
  BY <1>1, PhoneSends
<1>3. /\ ~IsChallenge(one) /\ (IsGrant(one) => p.session \in p.grants)
      /\ IsPong(one) => r.echoed + Cardinality(Pongs(q)) + Held(l) < p.pongs
      /\ ~IsChallenge(two) /\ ~IsGrant(two) /\ ~IsPong(two)
  BY DEF IsChallenge, IsGrant, IsPong
<1> HIDE DEF x, one, two, q
<1>4. LinkTruth(l, r, Append(q, one), tp, p) /\ Append(q, one) \in Seq(Pieces)
  BY <1>1, <1>2, <1>3, PieceWritten
<1>5. LinkTruth(l, r, Append(Append(q, one), two), tp, p)
  BY <1>1, <1>2, <1>3, <1>4, PieceWritten
<1>6. Append(Append(q, one), two) \in Seq(Pieces) /\ p.pongs <= x.pongs
  BY <1>1, <1>2, <1>4 DEF Phones
<1>7. LinkTruth(l, r, Append(Append(q, one), two), tp, x)
  <2>1. x.state \in {"pending", "granted"} => p.state \in {"pending", "granted"}
    BY <1>2
  <2>2. x.left \subseteq p.left \union {p.session} /\ (p.session \in x.left => p.session \in p.left)
    BY <1>2
  <2> QED
    BY <1>1, <1>2, <1>5, <1>6, <2>1, <2>2, PhoneMoves
<1>8. LinkTypes(l, r, pc, tp, x)
  BY <1>1, <1>2 DEF LinkTypes
<1> QED
  BY <1>2, <1>7, <1>8 DEF LinkSound, x

(* The session ends, and over USB the next one begins with its challenge.  *)
LEMMA SessionRenewed ==
    ASSUME NEW l, NEW r, NEW pc, NEW tp, NEW p, LinkSound(l, r, pc, tp, p)
    PROVE  LinkSound(l, r, pc, tp, Renewed(p))
<1> DEFINE q == Stream(pc, p)
<1>1. /\ l \in Links /\ r \in Reports /\ pc \in Seq(Pieces) /\ tp \in Seq(Messages) /\ p \in Phones
      /\ LinkTruth(l, r, q, tp, p)
  BY DEF LinkSound, LinkTypes
<1>2. CASE Renewed(p) = [p EXCEPT !.state = "off"]
  <2> DEFINE x == [p EXCEPT !.state = "off"]
  <2>1. /\ x \in Phones /\ x.out = p.out /\ x.session = p.session /\ x.grants = p.grants
        /\ x.left = p.left /\ x.pongs = p.pongs /\ x.state = "off"
    BY <1>1 DEF Phones
  <2> HIDE DEF x
  <2>2. /\ Stream(pc, x) = q /\ q \in Seq(Pieces) /\ p.pongs <= x.pongs
        /\ x.left \subseteq p.left \union {p.session} /\ (p.session \in x.left => p.session \in p.left)
    BY <1>1, <2>1 DEF Stream, Phones
  <2>3. LinkTruth(l, r, q, tp, x)
    <3> HIDE DEF q
    <3> QED
      BY <1>1, <2>1, <2>2, PhoneMoves
  <2>4. LinkTypes(l, r, pc, tp, x)
    BY <1>1, <2>1 DEF LinkTypes
  <2> QED
    BY <1>2, <2>2, <2>3, <2>4 DEF LinkSound, x
<1>3. CASE Renewed(p) = Sends([p EXCEPT !.state = "challenged", !.session = @ + 1, !.spoke = FALSE],
                              Message("challenge", p.session + 1))
  <2> DEFINE next == [p EXCEPT !.state = "challenged", !.session = @ + 1, !.spoke = FALSE]
             m == Message("challenge", p.session + 1)
             x == Sends(next, m)
             one == [head |-> TRUE, of |-> m]
             two == [head |-> FALSE, of |-> m]
  <2>1. /\ next \in Phones /\ next.out = p.out /\ next.session = p.session + 1
        /\ next.grants = p.grants /\ next.left = p.left /\ next.pongs = p.pongs
        /\ next.state = "challenged"
    <3> DEFINE session == p.session + 1
    <3>1. session \in Nat /\ session = p.session + 1
      BY <1>1 DEF Phones
    <3>2. next = [p EXCEPT !.state = "challenged", !.session = session, !.spoke = FALSE]
      BY <1>1 DEF Phones
    <3> HIDE DEF next, session
    <3> QED
      BY <1>1, <3>1, <3>2 DEF Phones
  <2>2. m \in Messages /\ m.kind = "challenge" /\ m.value = next.session
    BY <1>1, <2>1 DEF Messages, Message, Kinds, Values, Phones
  <2>3. IsChallenge(one) /\ one.of.value = next.session
        /\ ~IsChallenge(two) /\ ~IsGrant(two) /\ ~IsPong(two)
    BY <2>2 DEF IsChallenge, IsGrant, IsPong
  <2> HIDE DEF next, m
  <2>4. /\ x \in Phones /\ one \in Pieces /\ two \in Pieces
        /\ x.session = next.session /\ x.state = next.state /\ x.grants = next.grants
        /\ x.left = next.left /\ x.pongs = next.pongs
        /\ Stream(pc, x) = Append(Append(Stream(pc, next), one), two)
        /\ Stream(pc, next) \in Seq(Pieces)
    BY <1>1, <2>1, <2>2, PhoneSends
  <2>5. Stream(pc, next) = q
    BY <2>1 DEF Stream
  <2> HIDE DEF one, two, x, q
  <2>6. LinkTruth(l, r, Append(q, one), tp, x) /\ Append(q, one) \in Seq(Pieces)
    BY <1>1, <2>1, <2>3, <2>4, <2>5, ChallengeWritten
  <2>7. LinkTruth(l, r, Append(Append(q, one), two), tp, x)
    BY <1>1, <2>3, <2>4, <2>6, PieceWritten
  <2>8. LinkTypes(l, r, pc, tp, x)
    BY <1>1, <2>4 DEF LinkTypes
  <2>9. LinkSound(l, r, pc, tp, x)
    BY <2>4, <2>5, <2>7, <2>8 DEF LinkSound
  <2> QED
    BY <1>3, <2>9 DEF x, next, m
<1> QED
  BY <1>2, <1>3 DEF Renewed

\* Reading a message brings those behind it one position nearer.
LEMMA HelloedLater ==
    ASSUME NEW tp \in Seq(Messages), tp # <<>>, Helloed(Tail(tp), 0)
    PROVE  Helloed(tp, 1)
<1>1. PICK i \in DOMAIN Tail(tp) : i > 0 /\ Tail(tp)[i].kind = "hello"
  BY DEF Helloed
<1>2. i \in 1..Len(tp) - 1 /\ DOMAIN tp = 1..Len(tp) /\ Len(tp) \in Nat /\ Tail(tp)[i] = tp[i + 1]
  BY Tails
<1>3. i + 1 \in DOMAIN tp /\ i + 1 > 1
  BY <1>2
<1> QED
  BY <1>1, <1>2, <1>3 DEF Helloed

(* A message is answered by a grant, a wait, a refusal or an echo; any     *)
(* other ends the session.                                                 *)
LEMMA PhoneReadsInv == LinkInv /\ PhoneReads => LinkInv'
<1> SUFFICES ASSUME LinkInv, PhoneReads PROVE LinkInv'
  OBVIOUS
<1> DEFINE p == phone
           tp == Tail(toPhone)
           m == Head(toPhone)
           q == Stream(toPc, p)
           refusal == Message("result", "rejected")
<1>1. /\ toPhone # <<>> /\ toPhone' = tp /\ UNCHANGED <<link, report, toPc>>
  BY DEF PhoneReads
<1>2. /\ link \in Links /\ report \in Reports /\ toPc \in Seq(Pieces)
      /\ toPhone \in Seq(Messages) /\ p \in Phones /\ LinkTruth(link, report, q, toPhone, p)
  BY DEF LinkInv, LinkSound, LinkTypes
<1>3. /\ tp \in Seq(Messages) /\ m = toPhone[1] /\ 1 \in DOMAIN toPhone /\ m \in Messages
      /\ q \in Seq(Pieces)
  <2>1. p.out \in Seq(Pieces)
    BY <1>2 DEF Phones
  <2>2. 1 \in DOMAIN toPhone
    BY <1>1, <1>2, Tails
  <2> QED
    BY <1>1, <1>2, <2>1, <2>2, Tails DEF Stream
<1>4. LinkSound(link, report, toPc, tp, p)
  <2>1. LinkTruth(link, report, q, tp, p)
    <3> HIDE DEF tp, q
    <3> QED
      BY <1>1, <1>2, <1>3, MessageTaken DEF tp
  <2> QED
    BY <1>2, <1>3, <2>1 DEF LinkSound, LinkTypes
<1>5. SUFFICES LinkSound(link, report, toPc, tp, phone')
  BY <1>1 DEF LinkInv
<1>6. \A status \in {"rejected", "pending", "authorized"} :
          Message("result", status) \in Messages /\ Message("result", status).kind = "result"
          /\ Message("result", status).value = status
  BY DEF Message, Messages, Kinds, Values
<1>7. CASE m.kind = "auth" /\ p.state = "challenged"
  <2>1. \/ phone' = Renewed(Sends(p, refusal))
        \/ m.value = p.session /\ phone' = Granted(p)
        \/ m.value = p.session
           /\ phone' = Sends([p EXCEPT !.state = "pending"], Message("result", "pending"))
    BY <1>7, Zenon DEF PhoneReads
  <2>2. CASE phone' = Renewed(Sends(p, refusal))
    <3>1. LinkSound(link, report, toPc, tp, Sends(p, refusal))
      BY <1>4, <1>6, FrameSent
    <3> QED
      BY <2>2, <3>1, SessionRenewed
  <2>3. ASSUME m.value = p.session
        PROVE  Unanswerable(p.session, link, q)
               /\ ~(Committed(link) /\ Helloed(tp, 0) /\ link.nonce = p.session)
    <3>1. /\ Unanswerable(m.value, link, q) /\ m.value \in 1..p.session
          /\ Committed(link) /\ Helloed(toPhone, 1) => m.value < link.nonce
      BY <1>2, <1>3, <1>7 DEF LinkTruth, AnswerInv
    <3>2. Helloed(tp, 0) => Helloed(toPhone, 1)
      BY <1>1, <1>2, HelloedLater
    <3>3. p.session \in Nat
      BY <1>2 DEF Phones
    <3> QED
      BY <2>3, <3>1, <3>2, <3>3
  <2>4. ASSUME NEW x \in Phones, m.value = p.session, x.session = p.session, x.out = p.out,
               p.grants \subseteq x.grants, x.pongs = p.pongs, x.left = p.left
        PROVE  LinkSound(link, report, toPc, tp, x)
    <3>1. Stream(toPc, x) = q /\ p.pongs <= x.pongs
      BY <1>2, <2>4 DEF Stream, Phones
    <3>2. LinkTruth(link, report, q, tp, p)
      BY <1>4 DEF LinkSound
    <3>3. x.left \subseteq p.left \union {p.session} /\ (p.session \in x.left => p.session \in p.left)
      BY <2>4
    <3> HIDE DEF q, p, tp
    <3>4. LinkTruth(link, report, q, tp, x)
      BY <1>2, <1>3, <2>3, <2>4, <3>1, <3>2, <3>3, PhoneMoves
    <3> QED
      BY <1>2, <1>3, <3>1, <3>4 DEF LinkSound, LinkTypes
  <2>5. CASE m.value = p.session /\ phone' = Granted(p)
    <3> DEFINE x == [p EXCEPT !.state = "granted", !.grants = @ \union {p.session}]
    <3>1. /\ x \in Phones /\ x.session = p.session /\ x.out = p.out /\ p.grants \subseteq x.grants
          /\ x.pongs = p.pongs /\ x.left = p.left /\ p.session \in x.grants
      BY <1>2 DEF Phones
    <3> HIDE DEF x
    <3>2. LinkSound(link, report, toPc, tp, x)
      BY <2>4, <2>5, <3>1
    <3>3. LinkSound(link, report, toPc, tp, Sends(x, Message("result", "authorized")))
      BY <1>6, <3>1, <3>2, FrameSent
    <3> QED
      BY <2>5, <3>3 DEF Granted, x
  <2>6. CASE /\ m.value = p.session
             /\ phone' = Sends([p EXCEPT !.state = "pending"], Message("result", "pending"))
    <3> DEFINE x == [p EXCEPT !.state = "pending"]
    <3>1. /\ x \in Phones /\ x.session = p.session /\ x.out = p.out /\ p.grants \subseteq x.grants
          /\ x.pongs = p.pongs /\ x.left = p.left
      BY <1>2 DEF Phones
    <3> HIDE DEF x
    <3>2. LinkSound(link, report, toPc, tp, x)
      BY <2>4, <2>6, <3>1
    <3>3. LinkSound(link, report, toPc, tp, Sends(x, Message("result", "pending")))
      BY <1>6, <3>2, FrameSent
    <3> QED
      BY <2>6, <3>3 DEF x
  <2> QED
    BY <2>1, <2>2, <2>5, <2>6
<1>8. CASE m.kind = "ping" /\ p.state = "granted"
  <2> DEFINE x == [p EXCEPT !.pongs = @ + 1]
             echo == Message("pong", m.value)
  <2>1. phone' = Sends(x, echo)
    BY <1>8, Zenon DEF PhoneReads
  <2>2. /\ x \in Phones /\ x.session = p.session /\ x.out = p.out /\ x.grants = p.grants
        /\ x.pongs = p.pongs + 1 /\ x.left = p.left /\ x.state = p.state
        /\ p.pongs \in Nat
    <3> DEFINE pongs == p.pongs + 1
    <3>1. pongs \in Nat /\ pongs = p.pongs + 1 /\ p.pongs \in Nat
      BY <1>2 DEF Phones
    <3>2. x = [p EXCEPT !.pongs = pongs]
      BY <1>2 DEF Phones
    <3> HIDE DEF x, pongs
    <3> QED
      BY <1>2, <3>1, <3>2 DEF Phones
  <2>3. echo \in Messages /\ echo.kind = "pong"
    BY <1>3 DEF Message, Messages, Kinds
  <2> HIDE DEF x, echo
  <2>4. Stream(toPc, x) = q /\ LinkTruth(link, report, q, tp, p)
    BY <1>4, <2>2 DEF Stream, LinkSound
  <2>5. LinkTruth(link, report, q, tp, x)
    <3> HIDE DEF q, p, tp
    <3>1. x.left \subseteq p.left \union {p.session} /\ (p.session \in x.left => p.session \in p.left)
          /\ p.grants \subseteq x.grants /\ p.pongs <= x.pongs
      BY <2>2
    <3> QED
      BY <1>2, <1>3, <2>2, <2>4, <3>1, PhoneMoves
  <2>6. LinkSound(link, report, toPc, tp, x)
    BY <1>2, <1>3, <2>2, <2>4, <2>5 DEF LinkSound, LinkTypes
  <2>7. report.echoed + Cardinality(Pongs(q)) + Held(link) < x.pongs
    <3>1. /\ Cardinality(Pongs(q)) \in Nat /\ report.echoed \in Nat /\ Held(link) \in {0, 1}
      BY <1>2, <1>3, PongsFinite DEF Reports, Held
    <3>2. report.echoed + Cardinality(Pongs(q)) + Held(link) <= p.pongs
      BY <2>4 DEF LinkTruth, CountInv
    <3> HIDE DEF q
    <3> QED
      BY <2>2, <3>1, <3>2
  <2>8. LinkSound(link, report, toPc, tp, Sends(x, echo))
    BY <2>3, <2>4, <2>6, <2>7, FrameSent
  <2> QED
    BY <2>1, <2>8
<1>9. CASE m.kind = "hello" /\ p.state = "granted"
  <2> DEFINE x == [p EXCEPT !.left = @ \union {p.session}]
  <2>1. phone' = Renewed(x)
    BY <1>9, Zenon DEF PhoneReads
  <2>2. /\ x \in Phones /\ x.session = p.session /\ x.out = p.out /\ x.grants = p.grants
        /\ x.pongs = p.pongs /\ x.left = p.left \union {p.session} /\ x.state = p.state
        /\ p.pongs \in Nat
    BY <1>2 DEF Phones
  <2> HIDE DEF x
  <2>3. Stream(toPc, x) = q /\ LinkTruth(link, report, q, tp, p)
    BY <1>4, <2>2 DEF Stream, LinkSound
  <2>4. Unanswerable(p.session, link, q) /\ (Committed(link) => link.nonce # p.session)
    <3>1. Helloed(toPhone, 0)
      BY <1>3, <1>9 DEF Helloed
    <3> QED
      BY <1>2, <1>9, <3>1 DEF LinkTruth, AnswerInv
  <2>5. LinkTruth(link, report, q, tp, x)
    <3> HIDE DEF q, p, tp
    <3>1. x.left \subseteq p.left \union {p.session} /\ p.grants \subseteq x.grants /\ p.pongs <= x.pongs
          /\ (x.state \in {"pending", "granted"} => p.state \in {"pending", "granted"})
      BY <2>2
    <3> QED
      BY <1>2, <1>3, <2>2, <2>3, <2>4, <3>1, PhoneMoves
  <2>6. LinkSound(link, report, toPc, tp, x)
    BY <1>2, <1>3, <2>2, <2>3, <2>5 DEF LinkSound, LinkTypes
  <2> QED
    BY <2>1, <2>6, SessionRenewed
<1>10. CASE /\ ~(m.kind = "auth" /\ p.state = "challenged")
            /\ ~(m.kind = "ping" /\ p.state = "granted")
            /\ ~(m.kind = "hello" /\ p.state = "granted")
  <2>1. phone' = Renewed(p)
    BY <1>10, Zenon DEF PhoneReads
  <2> QED
    BY <1>4, <2>1, SessionRenewed
<1> QED
  BY <1>7, <1>8, <1>9, <1>10

\* Every step of the phone keeps the invariant.
LEMMA PhoneSteps == LinkInv /\ Phone => LinkInv'
<1> SUFFICES ASSUME LinkInv, Phone PROVE LinkInv'
  OBVIOUS
<1> DEFINE p == phone
           q == Stream(toPc, p)
<1>1. /\ link \in Links /\ report \in Reports /\ toPc \in Seq(Pieces)
      /\ toPhone \in Seq(Messages) /\ p \in Phones /\ LinkTruth(link, report, q, toPhone, p)
      /\ LinkSound(link, report, toPc, toPhone, p)
  BY DEF LinkInv, LinkSound, LinkTypes
<1>2. p.out \in Seq(Pieces) /\ q \in Seq(Pieces)
  BY <1>1 DEF Phones, Stream
<1>3. CASE PhoneReads
  BY <1>3, PhoneReadsInv
<1>4. CASE PhoneDecides
  <2>1. /\ UNCHANGED <<link, report, toPc, toPhone>> /\ p.state = "pending"
        /\ \/ phone' = Granted(p)
           \/ phone' = Renewed(Sends(p, Message("result", "rejected")))
    BY <1>4 DEF PhoneDecides
  <2>2. \A status \in {"rejected", "authorized"} :
          Message("result", status) \in Messages /\ Message("result", status).kind = "result"
          /\ Message("result", status).value = status
    BY DEF Message, Messages, Kinds, Values
  <2>3. CASE phone' = Granted(p)
    <3> DEFINE x == [p EXCEPT !.state = "granted", !.grants = @ \union {p.session}]
    <3>1. /\ x \in Phones /\ x.session = p.session /\ x.out = p.out /\ p.grants \subseteq x.grants
          /\ x.pongs = p.pongs /\ x.left = p.left /\ p.session \in x.grants
      BY <1>1 DEF Phones
    <3> HIDE DEF x
    <3>2. Stream(toPc, x) = q /\ p.pongs <= x.pongs
      BY <1>1, <3>1 DEF Stream, Phones
    <3>3. LinkTruth(link, report, q, toPhone, x)
      <4>1. x.left \subseteq p.left \union {p.session} /\ (p.session \in x.left => p.session \in p.left)
            /\ p.state \in {"pending", "granted"}
        BY <2>1, <3>1
      <4> HIDE DEF q, p
      <4> QED
        BY <1>1, <1>2, <3>1, <3>2, <4>1, PhoneMoves
    <3>4. LinkSound(link, report, toPc, toPhone, x)
      BY <1>1, <3>1, <3>2, <3>3 DEF LinkSound, LinkTypes
    <3>5. LinkSound(link, report, toPc, toPhone, Sends(x, Message("result", "authorized")))
      BY <2>2, <3>1, <3>4, FrameSent
    <3> QED
      BY <2>1, <2>3, <3>5 DEF Granted, x, LinkInv
  <2>4. CASE phone' = Renewed(Sends(p, Message("result", "rejected")))
    <3>1. LinkSound(link, report, toPc, toPhone, Sends(p, Message("result", "rejected")))
      BY <1>1, <2>2, FrameSent
    <3>2. LinkSound(link, report, toPc, toPhone, phone')
      BY <2>4, <3>1, SessionRenewed
    <3> QED
      BY <2>1, <3>2 DEF LinkInv
  <2> QED
    BY <2>1, <2>3, <2>4
<1>5. CASE PhoneEnds
  <2>1. UNCHANGED <<link, report, toPc, toPhone>> /\ phone' = Renewed(p)
    BY <1>5 DEF PhoneEnds
  <2>2. LinkSound(link, report, toPc, toPhone, phone')
    BY <1>1, <2>1, SessionRenewed
  <2> QED
    BY <2>1, <2>2 DEF LinkInv
<1>6. CASE PhoneSpeaks
  <2> DEFINE x == [p EXCEPT !.spoke = TRUE]
             media == Message("media", None)
  <2>1. UNCHANGED <<link, report, toPc, toPhone>> /\ phone' = Sends(x, media)
    BY <1>6 DEF PhoneSpeaks
  <2>2. /\ x \in Phones /\ x.session = p.session /\ x.out = p.out /\ x.grants = p.grants
        /\ x.pongs = p.pongs /\ x.left = p.left /\ x.state = p.state
    BY <1>1 DEF Phones
  <2>3. media \in Messages /\ media.kind = "media"
    BY DEF Message, Messages, Kinds, Values
  <2> HIDE DEF x, media
  <2>4. Stream(toPc, x) = q /\ p.pongs <= x.pongs
    BY <1>1, <2>2 DEF Stream, Phones
  <2>5. LinkTruth(link, report, q, toPhone, x)
    <3>1. x.left \subseteq p.left \union {p.session} /\ (p.session \in x.left => p.session \in p.left)
          /\ p.grants \subseteq x.grants /\ (x.state \in {"pending", "granted"} => p.state \in {"pending", "granted"})
      BY <2>2
    <3> HIDE DEF q, p
    <3> QED
      BY <1>1, <1>2, <2>2, <2>4, <3>1, PhoneMoves
  <2>6. LinkSound(link, report, toPc, toPhone, x)
    BY <1>1, <2>2, <2>4, <2>5 DEF LinkSound, LinkTypes
  <2>7. LinkSound(link, report, toPc, toPhone, Sends(x, media))
    BY <2>3, <2>6, FrameSent
  <2> QED
    BY <2>1, <2>7 DEF LinkInv
<1>7. CASE PhoneWrites
  <2> DEFINE x == [p EXCEPT !.out = Tail(@)]
             pc == Append(toPc, Head(p.out))
  <2>1. /\ UNCHANGED <<link, report, toPhone>> /\ p.out # <<>>
        /\ toPc' = pc /\ phone' = x
    BY <1>7 DEF PhoneWrites
  <2>2. Head(p.out) \in Pieces /\ Tail(p.out) \in Seq(Pieces) /\ pc \in Seq(Pieces)
    BY <1>1, <1>2, <2>1
  <2>3. /\ x \in Phones /\ x.session = p.session /\ x.out = Tail(p.out) /\ x.grants = p.grants
        /\ x.pongs = p.pongs /\ x.left = p.left /\ x.state = p.state
    BY <1>1, <2>2 DEF Phones
  <2>4. Stream(pc, x) = q
    <3>1. Append(toPc, Head(p.out)) \o Tail(p.out) = toPc \o p.out
      BY <1>1, <1>2, <2>1, PieceMoved
    <3> QED
      BY <2>3, <3>1 DEF Stream
  <2> HIDE DEF x, pc
  <2>5. LinkTruth(link, report, q, toPhone, x)
    <3>1. x.left \subseteq p.left \union {p.session} /\ (p.session \in x.left => p.session \in p.left)
          /\ p.grants \subseteq x.grants /\ (x.state \in {"pending", "granted"} => p.state \in {"pending", "granted"})
          /\ p.pongs <= x.pongs
      BY <1>1, <2>3 DEF Phones
    <3> HIDE DEF q, p
    <3> QED
      BY <1>1, <1>2, <2>3, <2>4, <3>1, PhoneMoves
  <2> QED
    BY <1>1, <2>1, <2>2, <2>3, <2>4, <2>5 DEF LinkSound, LinkTypes, LinkInv
<1> QED
  BY <1>3, <1>4, <1>5, <1>6, <1>7 DEF Phone

-----------------------------------------------------------------------------
(* HostLink: what the worker does. *)

LEMMA StreamOfLink ==
    ASSUME NEW l, NEW r, NEW pc, NEW tp, NEW p, LinkSound(l, r, pc, tp, p)
    PROVE  /\ l \in Links /\ r \in Reports /\ pc \in Seq(Pieces) /\ tp \in Seq(Messages)
           /\ p \in Phones /\ Stream(pc, p) \in Seq(Pieces)
           /\ LinkTruth(l, r, Stream(pc, p), tp, p)
BY DEF LinkSound, LinkTypes, Phones, Stream

\* The rest of a frame leaves the endpoint.
LEMMA FrameRead ==
    ASSUME NEW l, NEW r, NEW pc, NEW tp, NEW p, LinkSound(l, r, pc, tp, p),
           pc # <<>>, ~Head(pc).head
    PROVE  LinkSound(l, r, Tail(pc), tp, p)
<1> DEFINE q == Stream(pc, p)
<1>1. /\ l \in Links /\ r \in Reports /\ pc \in Seq(Pieces) /\ tp \in Seq(Messages)
      /\ p \in Phones /\ q \in Seq(Pieces) /\ LinkTruth(l, r, q, tp, p)
  BY StreamOfLink
<1>2. Stream(Tail(pc), p) = Tail(q) /\ q # <<>> /\ q[1] = Head(pc) /\ Tail(pc) \in Seq(Pieces)
  <2>1. p.out \in Seq(Pieces)
    BY <1>1 DEF Phones
  <2> QED
    BY <1>1, <2>1, FirstTaken DEF Stream
<1> HIDE DEF q
<1>3. LinkTruth(l, r, Tail(q), tp, p)
  BY <1>1, <1>2, PieceRead
<1> QED
  BY <1>1, <1>2, <1>3 DEF LinkSound, LinkTypes

\* A header leaves the endpoint for the reader.
LEMMA HeaderRead ==
    ASSUME NEW l, NEW y \in Links, NEW r, NEW pc, NEW tp, NEW p, LinkSound(l, r, pc, tp, p),
           pc # <<>>, Head(pc).head, l.half = None, y.half = Head(pc).of, y.step = l.step,
           y.nonce = l.nonce, y.outcome = l.outcome, y.attempt = l.attempt
    PROVE  LinkSound(y, r, Tail(pc), tp, p)
<1> DEFINE q == Stream(pc, p)
<1>1. /\ l \in Links /\ r \in Reports /\ pc \in Seq(Pieces) /\ tp \in Seq(Messages)
      /\ p \in Phones /\ q \in Seq(Pieces) /\ LinkTruth(l, r, q, tp, p)
  BY StreamOfLink
<1>2. Stream(Tail(pc), p) = Tail(q) /\ q # <<>> /\ q[1] = Head(pc) /\ Tail(pc) \in Seq(Pieces)
  <2>1. p.out \in Seq(Pieces)
    BY <1>1 DEF Phones
  <2> QED
    BY <1>1, <2>1, FirstTaken DEF Stream
<1> HIDE DEF q
<1>3. LinkTruth(y, r, Tail(q), tp, p)
  BY <1>1, <1>2, HeaderKept
<1> QED
  BY <1>1, <1>2, <1>3 DEF LinkSound, LinkTypes

\* A step of the worker that answers no challenge, with its counters.
LEMMA WorkerGoes ==
    ASSUME NEW l, NEW y \in Links, NEW r, NEW u \in Reports, NEW pc, NEW tp, NEW p,
           LinkSound(l, r, pc, tp, p),
           y.half \in {l.half, None},
           y.step = "result" => /\ l.step = "result" /\ y.nonce = l.nonce
                                /\ y.half = l.half \/ ~HoldsChallenge(l),
           y.step = "hello" => y.attempt = 1, y.attempt \in {l.attempt, 2},
           y.outcome = "authorized" =>
               /\ y.nonce = l.nonce
               /\ l.outcome = "authorized" \/ (l.step = "result" /\ l.nonce \in p.grants),
           y.step = "ended" <=> y.outcome # None,
           y.outcome \in {None, "report"} =>
               u.sent = u.echoed + u.mismatched + u.timedOut + (IF y.step = "pong" THEN 1 ELSE 0),
           u.echoed + Held(y) <= r.echoed + Held(l)
    PROVE  LinkSound(y, u, pc, tp, p)
<1> DEFINE q == Stream(pc, p)
<1>1. /\ l \in Links /\ r \in Reports /\ pc \in Seq(Pieces) /\ tp \in Seq(Messages)
      /\ p \in Phones /\ q \in Seq(Pieces) /\ LinkTruth(l, r, q, tp, p)
  BY StreamOfLink
<1> HIDE DEF q
<1>2. CountInv(y, u, q, p)
  <2>1. /\ Cardinality(Pongs(q)) \in Nat /\ r.echoed \in Nat /\ u.echoed \in Nat /\ Held(l) \in {0, 1}
        /\ Held(y) \in {0, 1} /\ p.pongs \in Nat
    BY <1>1, PongsFinite DEF Reports, Phones, Held
  <2>2. r.echoed + Cardinality(Pongs(q)) + Held(l) <= p.pongs
    BY <1>1 DEF LinkTruth, CountInv
  <2>3. u.echoed + Cardinality(Pongs(q)) + Held(y) <= p.pongs
    BY <2>1, <2>2
  <2> QED
    BY <2>3 DEF CountInv
<1>3. LinkTruth(y, u, q, tp, p)
  BY <1>1, <1>2, WorkerMoves
<1> QED
  BY <1>1, <1>3 DEF LinkSound, LinkTypes, q

(* What the counters and the outcome say of a worker.                      *)
LEMMA LinkCounts ==
    ASSUME NEW l, NEW r, NEW pc, NEW tp, NEW p, LinkSound(l, r, pc, tp, p)
    PROVE  /\ l.step = "ended" <=> l.outcome # None
           /\ l.outcome \in {None, "report"} =>
                 r.sent = r.echoed + r.mismatched + r.timedOut + (IF l.step = "pong" THEN 1 ELSE 0)
           /\ r.echoed \in Nat /\ r.mismatched \in Nat /\ r.timedOut \in Nat /\ r.sent \in Int
           /\ Held(l) \in {0, 1}
BY DEF LinkSound, LinkTypes, LinkTruth, CountInv, Reports, Held

\* Every way to end keeps the invariant.
LEMMA WorkerEndsSo ==
    ASSUME NEW l, NEW r, NEW pc, NEW tp, NEW p, LinkSound(l, r, pc, tp, p),
           NEW z \in {l, [l EXCEPT !.half = None]}, NEW o \in LinkOutcomes,
           o = "authorized" => l.step = "result" /\ l.nonce \in p.grants,
           o = "report" => r.sent = r.echoed + r.mismatched + r.timedOut
    PROVE  LinkSound(End(z, o), r, pc, tp, p)
<1> DEFINE y == End(z, o)
<1>1. l \in Links /\ r \in Reports
  BY StreamOfLink
<1>2. z \in Links /\ z.nonce = l.nonce /\ z.attempt = l.attempt /\ z.half \in {l.half, None}
  BY <1>1 DEF Links
<1>3. /\ y \in Links /\ y.nonce = l.nonce /\ y.attempt = l.attempt /\ y.half \in {l.half, None}
      /\ y.step = "ended" /\ y.outcome = o
  BY <1>2 DEF End, Links
<1>4. o # None
  BY NoneAssumption
<1> HIDE DEF y
<1>5. Held(y) <= Held(l)
  BY <1>3 DEF Held
<1>6. r.echoed + Held(y) <= r.echoed + Held(l)
  BY <1>5, LinkCounts DEF Held
<1>7. o \in {None, "report"} =>
          r.sent = r.echoed + r.mismatched + r.timedOut + (IF y.step = "pong" THEN 1 ELSE 0)
  BY <1>3, <1>4, LinkCounts
<1>8. LinkSound(y, r, pc, tp, p)
  BY <1>1, <1>3, <1>4, <1>6, <1>7, WorkerGoes
<1> QED
  BY <1>8 DEF y

\* A failed attempt ends the worker or makes it say hello.
LEMMA AttemptFails ==
    ASSUME NEW l, NEW r, NEW pc, NEW tp, NEW p, LinkSound(l, r, pc, tp, p),
           NEW z \in {l, [l EXCEPT !.half = None]}, NEW error, NEW f \in Failed(z, error)
    PROVE  LinkSound(f, r, pc, tp, p)
<1>1. l \in Links /\ r \in Reports
  BY StreamOfLink
<1>2. /\ z \in Links /\ z.nonce = l.nonce /\ z.attempt = l.attempt /\ z.half \in {l.half, None}
      /\ z.step = l.step /\ z.outcome = l.outcome
  BY <1>1 DEF Links
<1>3. CASE \E outcome \in GaveUp : f = End(z, outcome)
  <2>1. PICK outcome \in GaveUp : f = End(z, outcome)
    BY <1>3
  <2>2. outcome \in {"unplug", "failed"} /\ outcome \in LinkOutcomes
    BY DEF GaveUp, LinkOutcomes
  <2>3. LinkSound(End(z, outcome), r, pc, tp, p)
    BY <2>2, WorkerEndsSo
  <2> QED
    BY <2>1, <2>3
<1>4. CASE /\ z.attempt = 1 /\ z.step \in {"challenge", "result"}
           /\ f = [z EXCEPT !.step = "hello", !.deadline = "none"]
  <2> DEFINE y == [z EXCEPT !.step = "hello", !.deadline = "none"]
  <2>1. /\ y \in Links /\ y.nonce = l.nonce /\ y.attempt = 1 /\ y.attempt = l.attempt
        /\ y.half \in {l.half, None} /\ y.step = "hello" /\ y.outcome = l.outcome
    BY <1>2, <1>4 DEF Links
  <2>2. l.outcome = None
    BY <1>2, <1>4, LinkCounts
  <2> HIDE DEF y
  <2>3. Held(y) <= Held(l)
    BY <2>1 DEF Held
  <2>4. r.echoed + Held(y) <= r.echoed + Held(l)
    BY <2>3, LinkCounts DEF Held
  <2>5. r.sent = r.echoed + r.mismatched + r.timedOut + (IF y.step = "pong" THEN 1 ELSE 0)
    BY <1>2, <1>4, <2>1, <2>2, LinkCounts
  <2>6. None # "authorized"
    BY NoneAssumption DEF LinkOutcomes
  <2>7. LinkSound(y, r, pc, tp, p)
    BY <1>1, <2>1, <2>2, <2>4, <2>5, <2>6, WorkerGoes
  <2> QED
    BY <1>4, <2>7 DEF y
<1> QED
  BY <1>3, <1>4 DEF Failed

\* Aligning, reading and failing to read.
LEMMA ReaderSteps ==
    LinkInv /\ (Align \/ ReadHeader \/ ReadGarbage \/ ReaderFails) => LinkInv'
<1> SUFFICES ASSUME LinkInv, Align \/ ReadHeader \/ ReadGarbage \/ ReaderFails PROVE LinkInv'
  OBVIOUS
<1>1. /\ link \in Links /\ report \in Reports /\ toPc \in Seq(Pieces)
      /\ LinkSound(link, report, toPc, toPhone, phone)
  BY StreamOfLink DEF LinkInv
<1>2. CASE Align
  <2>1. CASE link' = Awaiting("challenge") /\ UNCHANGED toPc
    <3> DEFINE y == Awaiting("challenge")
    <3>1. /\ y \in Links /\ y.nonce = link.nonce /\ y.attempt = link.attempt /\ y.half = link.half
          /\ y.step = "challenge" /\ y.outcome = link.outcome
      BY <1>1 DEF Awaiting, Links
    <3>2. UNCHANGED <<report, toPhone, phone>> /\ link.step = "align"
      BY <1>2 DEF Align
    <3>3. link.outcome = None /\ None # "authorized"
      BY <1>1, <3>2, LinkCounts, NoneAssumption DEF LinkOutcomes
    <3> HIDE DEF y
    <3>4. report.echoed + Held(y) <= report.echoed + Held(link)
      BY <1>1, <3>1, LinkCounts DEF Held
    <3>5. report.sent = report.echoed + report.mismatched + report.timedOut
                        + (IF y.step = "pong" THEN 1 ELSE 0)
      BY <1>1, <3>1, <3>2, <3>3, LinkCounts
    <3>6. LinkSound(y, report, toPc, toPhone, phone)
      BY <1>1, <3>1, <3>3, <3>4, <3>5, WorkerGoes
    <3> QED
      BY <2>1, <3>2, <3>6 DEF LinkInv, y
  <2>2. CASE /\ toPc # <<>> /\ ~Head(toPc).head /\ toPc' = Tail(toPc) /\ UNCHANGED link
    <3>1. UNCHANGED <<report, toPhone, phone>>
      BY <1>2 DEF Align
    <3> QED
      BY <1>1, <2>2, <3>1, FrameRead DEF LinkInv
  <2> QED
    BY <1>2, <2>1, <2>2 DEF Align
<1>3. CASE ReadHeader
  <2> DEFINE y == [link EXCEPT !.half = Head(toPc).of]
  <2>1. /\ link.half = None /\ toPc # <<>> /\ Head(toPc).head /\ link' = y
        /\ toPc' = Tail(toPc) /\ UNCHANGED <<report, toPhone, phone>>
    BY <1>3 DEF ReadHeader
  <2>2. Head(toPc).of \in Messages
    <3>1. Head(toPc) \in Pieces
      BY <1>1, <2>1
    <3> QED
      BY <3>1 DEF Pieces
  <2>3. /\ y \in Links /\ y.half = Head(toPc).of /\ y.step = link.step /\ y.nonce = link.nonce
        /\ y.outcome = link.outcome /\ y.attempt = link.attempt
    BY <1>1, <2>2 DEF Links
  <2> HIDE DEF y
  <2>4. LinkSound(y, report, Tail(toPc), toPhone, phone)
    BY <1>1, <2>1, <2>3, HeaderRead
  <2> QED
    BY <2>1, <2>4 DEF LinkInv
<1>4. CASE ReadGarbage
  <2>1. /\ toPc # <<>> /\ ~Head(toPc).head /\ link' \in Failed(link, "invalid header")
        /\ toPc' = Tail(toPc) /\ UNCHANGED <<report, toPhone, phone>>
    BY <1>4 DEF ReadGarbage, Fail
  <2>2. LinkSound(link, report, Tail(toPc), toPhone, phone)
    BY <1>1, <2>1, FrameRead
  <2>3. LinkSound(link', report, Tail(toPc), toPhone, phone)
    BY <2>1, <2>2, AttemptFails
  <2> QED
    BY <2>1, <2>3 DEF LinkInv
<1>5. CASE ReaderFails
  <2>1. /\ UNCHANGED <<report, toPc, toPhone, phone>>
        /\ \E error : link' \in Failed(link, error)
    BY <1>5 DEF ReaderFails, Fail
  <2>2. LinkSound(link', report, toPc, toPhone, phone)
    BY <1>1, <2>1, AttemptFails
  <2> QED
    BY <2>1, <2>2 DEF LinkInv
<1> QED
  BY <1>2, <1>3, <1>4, <1>5

\* Dialling, and what time and the user do.
LEMMA DialSteps ==
    LinkInv /\ (Dial \/ DialTimesOut \/ Expires \/ Stops \/ DeadlinePasses \/ PressesStop) => LinkInv'
<1> SUFFICES ASSUME LinkInv,
                    Dial \/ DialTimesOut \/ Expires \/ Stops \/ DeadlinePasses \/ PressesStop
             PROVE  LinkInv'
  OBVIOUS
<1>1. /\ link \in Links /\ report \in Reports
      /\ LinkSound(link, report, toPc, toPhone, phone)
  BY StreamOfLink DEF LinkInv
<1>2. UNCHANGED <<report, toPc, toPhone, phone>>
  BY DEF Dial, DialTimesOut, Expires, Stops, DeadlinePasses, PressesStop
<1>3. CASE \E o \in {"failed", "unplug"} : link' = End(link, o)
  <2>1. LinkSound(link', report, toPc, toPhone, phone)
    BY <1>1, <1>3, WorkerEndsSo DEF LinkOutcomes
  <2> QED
    BY <1>2, <2>1 DEF LinkInv
<1>4. CASE \E error : link' \in Failed(link, error)
  <2>1. LinkSound(link', report, toPc, toPhone, phone)
    BY <1>1, <1>4, AttemptFails
  <2> QED
    BY <1>2, <2>1 DEF LinkInv
<1>5. CASE /\ link' \in Links /\ link'.nonce = link.nonce /\ link'.attempt = link.attempt
           /\ link'.half = link.half /\ link'.outcome = link.outcome
           /\ link'.step = link.step \/ (link.step = "dial" /\ link'.step = "challenge")
  <2> DEFINE y == link'
  <2>1. Held(y) = Held(link)
    BY <1>5 DEF Held
  <2>2. report.echoed + Held(y) <= report.echoed + Held(link)
    BY <1>1, <2>1, LinkCounts
  <2>3. y.step = "ended" <=> y.outcome # None
    BY <1>1, <1>5, LinkCounts
  <2>4. y.outcome \in {None, "report"} =>
            report.sent = report.echoed + report.mismatched + report.timedOut
                          + (IF y.step = "pong" THEN 1 ELSE 0)
    BY <1>1, <1>5, LinkCounts
  <2>5. y.step = "hello" => y.attempt = 1
    BY <1>1, <1>5 DEF LinkSound, LinkTruth, AnswerInv
  <2>6. LinkSound(y, report, toPc, toPhone, phone)
    <3>1. y.step = "result" => link.step = "result"
      BY <1>5
    <3>2. y \in Links /\ y.half \in {link.half, None} /\ y.attempt \in {link.attempt, 2}
          /\ y.half = link.half /\ y.nonce = link.nonce /\ y.outcome = link.outcome
      BY <1>5
    <3> HIDE DEF y
    <3> QED
      BY <1>1, <2>2, <2>3, <2>4, <2>5, <3>1, <3>2, WorkerGoes
  <2> QED
    BY <1>2, <2>6 DEF LinkInv
<1>6. CASE Dial
  <2>1. \/ link' = End(link, "failed")
        \/ link.step = "dial" /\ link' = Awaiting("challenge")
        \/ link.addresses # <<>> /\ link' = [link EXCEPT !.addresses = Tail(@)]
    BY <1>6 DEF Dial, Ended
  <2>2. CASE link.step = "dial" /\ link' = Awaiting("challenge")
    BY <1>1, <1>5, <2>2 DEF Awaiting, Links
  <2>3. CASE link.addresses # <<>> /\ link' = [link EXCEPT !.addresses = Tail(@)]
    <3> DEFINE rest == Tail(link.addresses)
    <3>1. rest \in Seq(Addresses) /\ link' = [link EXCEPT !.addresses = rest]
      BY <1>1, <2>3 DEF Links
    <3> HIDE DEF rest
    <3> QED
      BY <1>1, <1>5, <3>1 DEF Links
  <2> QED
    BY <1>3, <2>1, <2>2, <2>3
<1>7. CASE DialTimesOut
  BY <1>3, <1>7 DEF DialTimesOut, Ended
<1>8. CASE Expires
  BY <1>4, <1>8 DEF Expires, Fail
<1>9. CASE Stops
  BY <1>3, <1>9 DEF Stops, Ended, GaveUp
<1>10. CASE DeadlinePasses
  BY <1>1, <1>5, <1>10 DEF DeadlinePasses, Links
<1>11. CASE PressesStop
  BY <1>1, <1>5, <1>11 DEF PressesStop, Links
<1> QED
  BY <1>6, <1>7, <1>8, <1>9, <1>10, <1>11

(* The challenge that is answered is of the newest session the worker can  *)
(* know of: what it answered before was of an older one.                   *)
LEMMA ChallengeAnswered ==
    ASSUME NEW l, NEW y \in Links, NEW r, NEW pc, NEW tp, NEW p, LinkSound(l, r, pc, tp, p),
           l.step = "challenge", HoldsChallenge(l), y.step = "result", y.nonce = l.half.value,
           y.half = None, y.attempt = l.attempt, y.outcome = l.outcome
    PROVE  LinkSound(y, r, pc, Append(tp, Message("auth", l.half.value)), p)
<1> DEFINE q == Stream(pc, p)
           v == l.half.value
           m == Message("auth", v)
           to == Append(tp, m)
<1>1. /\ l \in Links /\ r \in Reports /\ pc \in Seq(Pieces) /\ tp \in Seq(Messages)
      /\ p \in Phones /\ q \in Seq(Pieces) /\ LinkTruth(l, r, q, tp, p)
  BY StreamOfLink
<1>2. m \in Messages /\ m.kind = "auth" /\ m.value = v
  <2>1. l.half \in Messages
    BY <1>1 DEF Links, HoldsChallenge
  <2> QED
    BY <2>1 DEF Messages, Message, Kinds
<1> HIDE DEF m
<1>3. /\ to \in Seq(Messages) /\ DOMAIN to = 1..Len(tp) + 1 /\ DOMAIN tp = 1..Len(tp)
      /\ Len(tp) \in Nat /\ to[Len(tp) + 1] = m /\ \A i \in 1..Len(tp) : to[i] = tp[i]
  BY <1>1, <1>2, Appends
<1> HIDE DEF to, q, v
<1>4. /\ Follows(v, q, 0, p) /\ v \in 1..p.session /\ p.session \in Nat
      /\ \A i \in DOMAIN q : IsChallenge(q[i]) => v < q[i].of.value
  <2>1. Follows(v, q, 0, p)
    BY <1>1 DEF LinkTruth, StreamInv, v
  <2>2. \A i \in DOMAIN q : i > 0
    BY <1>1
  <2> QED
    BY <1>1, <2>1, <2>2 DEF Follows, Phones
<1>5. ~HoldsChallenge(y) /\ ~HoldsGrant(y) /\ Held(y) = 0 /\ Held(l) = 0
  BY DEF HoldsChallenge, HoldsGrant, Held
<1>6. StreamInv(y, q, p)
  <2>1. y.nonce = v
    BY DEF v
  <2> QED
    BY <1>1, <1>4, <1>5, <2>1 DEF LinkTruth, StreamInv
<1>7. \A w : Unanswerable(w, l, q) => Unanswerable(w, y, q) /\ w < v
  BY <1>5 DEF Unanswerable, v
<1>8. Unanswerable(v, y, q)
  BY <1>4, <1>5 DEF Unanswerable
<1>9. \A n : Helloed(to, n) => Helloed(tp, n)
  <2>1. \A i \in DOMAIN to : to[i].kind = "hello" => i \in DOMAIN tp /\ to[i] = tp[i]
    BY <1>2, <1>3
  <2> QED
    BY <2>1 DEF Helloed
<1>10. ~Helloed(tp, Len(tp) + 1)
  BY <1>3 DEF Helloed
<1>11. l.outcome = None /\ None # "authorized" /\ y.nonce = v /\ Committed(y)
  BY LinkCounts, NoneAssumption DEF LinkOutcomes, v, Committed
<1>12. AnswerInv(y, q, to, p)
  <2>1. ~(v < v)
    BY <1>4
  <2>2. p.state \in {"pending", "granted"} => v # p.session
    BY <1>1, <1>7, <2>1 DEF LinkTruth, AnswerInv
  <2>3. v \notin p.left
    BY <1>1, <1>7, <2>1 DEF LinkTruth, AnswerInv
  <2>4. p.state \in {"challenged", "pending", "granted", "off"}
    BY <1>1 DEF Phones
  <2>5. ASSUME NEW i \in DOMAIN to, to[i].kind = "auth"
        PROVE  /\ to[i].value \in 1..p.session /\ Unanswerable(to[i].value, y, q)
               /\ Helloed(to, i) => to[i].value < y.nonce
    <3>1. CASE i \in DOMAIN tp
      <4>1. to[i] = tp[i]
        BY <1>3, <3>1
      <4>2. tp[i].value \in 1..p.session /\ Unanswerable(tp[i].value, l, q)
        BY <1>1, <2>5, <3>1, <4>1 DEF LinkTruth, AnswerInv
      <4> QED
        BY <1>7, <1>11, <4>1, <4>2
    <3>2. CASE i = Len(tp) + 1
      <4>1. to[i] = m
        BY <1>3, <3>2
      <4> QED
        BY <1>2, <1>4, <1>8, <1>9, <1>10, <3>2, <4>1
    <3> QED
      BY <1>3, <3>1, <3>2
  <2>6. /\ p.session >= 1
        /\ p.state \in {"pending", "granted"} => Unanswerable(p.session, y, q)
        /\ Helloed(to, 0) => y.attempt = 2
        /\ \A w \in p.left : w \in 1..p.session /\ Unanswerable(w, y, q)
    BY <1>1, <1>7, <1>9 DEF LinkTruth, AnswerInv
  <2> QED
    BY <1>4, <1>11, <2>2, <2>3, <2>4, <2>5, <2>6 DEF AnswerInv
<1>13. CountInv(y, r, q, p)
  BY <1>1, <1>5, <1>11 DEF LinkTruth, CountInv
<1> QED
  BY <1>1, <1>3, <1>6, <1>12, <1>13 DEF LinkSound, LinkTypes, LinkTruth, q, to, m, v

\* A challenge is answered or fails the attempt.
LEMMA ChallengedInv == LinkInv /\ Challenged => LinkInv'
<1> SUFFICES ASSUME LinkInv, Challenged PROVE LinkInv'
  OBVIOUS
<1>1. /\ link \in Links /\ report \in Reports /\ toPc \in Seq(Pieces)
      /\ LinkSound(link, report, toPc, toPhone, phone)
  BY StreamOfLink DEF LinkInv
<1>2. /\ link.step = "challenge" /\ link.half # None
      /\ toPc # <<>> /\ ~Head(toPc).head /\ toPc' = Tail(toPc) /\ UNCHANGED <<report, phone>>
      /\ \/ \E error : link' \in Failed(Taken, error) /\ UNCHANGED toPhone
         \/ /\ link.half.kind = "challenge"
            /\ link' = [Taken EXCEPT !.step = "result", !.nonce = link.half.value]
            /\ toPhone' = Append(toPhone, Message("auth", link.half.value))
  BY Zenon DEF Challenged, FrameArrives
<1>3. LinkSound(link, report, toPc', toPhone, phone)
  BY <1>1, <1>2, FrameRead
<1>4. CASE \E error : link' \in Failed(Taken, error) /\ UNCHANGED toPhone
  <2>1. LinkSound(link', report, toPc', toPhone, phone)
    BY <1>3, <1>4, AttemptFails DEF Taken
  <2> QED
    BY <1>2, <1>4, <2>1 DEF LinkInv
<1>5. CASE /\ link.half.kind = "challenge"
           /\ link' = [Taken EXCEPT !.step = "result", !.nonce = link.half.value]
           /\ toPhone' = Append(toPhone, Message("auth", link.half.value))
  <2> DEFINE v == link.half.value
             y == link'
  <2>1. v \in Values /\ HoldsChallenge(link)
    <3>1. link.half \in Messages
      BY <1>1, <1>2 DEF Links
    <3> QED
      BY <1>2, <1>5, <3>1 DEF Messages, HoldsChallenge
  <2>2. y = [link EXCEPT !.half = None, !.step = "result", !.nonce = v]
    BY <1>1, <1>5 DEF Taken, Links
  <2>3. /\ y \in Links /\ y.step = "result" /\ y.nonce = link.half.value /\ y.half = None
        /\ y.attempt = link.attempt /\ y.outcome = link.outcome
    <3> HIDE DEF y
    <3>1. /\ y \in Links /\ y.step = "result" /\ y.nonce = v /\ y.half = None
          /\ y.attempt = link.attempt /\ y.outcome = link.outcome
      <4> HIDE DEF v
      <4> QED
        BY <1>1, <2>1, <2>2 DEF Links
    <3> QED
      BY <3>1
  <2> HIDE DEF y
  <2>4. LinkSound(y, report, toPc', toPhone', phone)
    BY <1>2, <1>3, <1>5, <2>1, <2>3, ChallengeAnswered
  <2> QED
    BY <1>2, <2>4 DEF LinkInv, y
<1> QED
  BY <1>2, <1>4, <1>5

(* An outcome that is read is of the session whose challenge was answered. *)
LEMMA AnsweredInv == LinkInv /\ Answered => LinkInv'
<1> SUFFICES ASSUME LinkInv, Answered PROVE LinkInv'
  OBVIOUS
<1> DEFINE pc == Tail(toPc)
<1>1. /\ link \in Links /\ report \in Reports /\ toPc \in Seq(Pieces)
      /\ LinkSound(link, report, toPc, toPhone, phone)
  BY StreamOfLink DEF LinkInv
<1>2. /\ link.step = "result" /\ link.half # None
      /\ toPc # <<>> /\ ~Head(toPc).head /\ toPc' = pc /\ UNCHANGED <<report, toPhone, phone>>
      /\ \/ \E error : link' \in Failed(Taken, error)
         \/ HoldsGrant(link) /\ link' = Authorized
         \/ link' = End(Taken, "rejected")
         \/ link.half.kind = "result" /\ link' = Pending
  BY Zenon DEF Answered, FrameArrives, HoldsGrant
<1>3. LinkSound(link, report, pc, toPhone, phone)
  BY <1>1, <1>2, FrameRead
<1>4. SUFFICES LinkSound(link', report, pc, toPhone, phone)
  BY <1>2 DEF LinkInv
<1> HIDE DEF pc
<1>5. /\ link.outcome = None /\ None # "authorized"
      /\ report.sent = report.echoed + report.mismatched + report.timedOut
      /\ report.echoed \in Nat
  BY <1>1, <1>2, LinkCounts, NoneAssumption DEF LinkOutcomes
<1>6. CASE \E error : link' \in Failed(Taken, error)
  BY <1>3, <1>6, AttemptFails DEF Taken
<1>7. CASE HoldsGrant(link) /\ link' = Authorized
  <2>1. link.nonce \in phone.grants
    BY <1>1, <1>2, <1>7 DEF LinkSound, LinkTruth, StreamInv
  <2>2. CASE link' = End(Taken, "authorized")
    BY <1>2, <1>3, <2>1, <2>2, WorkerEndsSo DEF Taken, LinkOutcomes
  <2>3. CASE link' = [Taken EXCEPT !.step = "ping", !.attempt = 2, !.deadline = "none"]
    <3> DEFINE y == link'
    <3>1. /\ y \in Links /\ y.step = "ping" /\ y.attempt = 2 /\ y.half = None
          /\ y.outcome = link.outcome
      BY <1>1, <2>3 DEF Taken, Links
    <3> HIDE DEF y
    <3>2. report.echoed + Held(y) <= report.echoed + Held(link)
      BY <1>5, <3>1 DEF Held
    <3>3. report.sent = report.echoed + report.mismatched + report.timedOut
                        + (IF y.step = "pong" THEN 1 ELSE 0)
      BY <1>1, <1>5, <3>1, LinkCounts
    <3>4. LinkSound(y, report, pc, toPhone, phone)
      BY <1>1, <1>3, <1>5, <3>1, <3>2, <3>3, WorkerGoes
    <3> QED
      BY <3>4 DEF y
  <2> QED
    BY <1>7, <2>2, <2>3 DEF Authorized
<1>8. CASE link' = End(Taken, "rejected")
  BY <1>3, <1>8, WorkerEndsSo DEF Taken, LinkOutcomes
<1>9. CASE link.half.kind = "result" /\ link' = Pending
  <2> DEFINE y == link'
  <2>1. /\ y \in Links /\ y.step = "result" /\ y.attempt = link.attempt /\ y.half = None
        /\ y.outcome = link.outcome /\ y.nonce = link.nonce
    BY <1>1, <1>2, <1>9 DEF Pending, Taken, Links
  <2> HIDE DEF y
  <2>2. report.echoed + Held(y) <= report.echoed + Held(link)
    BY <1>5, <2>1 DEF Held
  <2>3. ~HoldsChallenge(link)
    BY <1>9 DEF HoldsChallenge
  <2>4. report.sent = report.echoed + report.mismatched + report.timedOut
                      + (IF y.step = "pong" THEN 1 ELSE 0)
    BY <1>1, <1>5, <2>1, LinkCounts
  <2>5. LinkSound(y, report, pc, toPhone, phone)
    BY <1>1, <1>2, <1>3, <1>5, <2>1, <2>2, <2>3, <2>4, WorkerGoes
  <2> QED
    BY <2>5 DEF y
<1> QED
  BY <1>2, <1>6, <1>7, <1>8, <1>9

\* The second attempt commits to nothing that the first one knew.
LEMMA SaysHelloInv == LinkInv /\ SaysHello => LinkInv'
<1> SUFFICES ASSUME LinkInv, SaysHello PROVE LinkInv'
  OBVIOUS
<1> DEFINE hello == Message("hello", None)
           to == Append(toPhone, hello)
           q == Stream(toPc, phone)
<1>1. /\ link \in Links /\ report \in Reports /\ toPhone \in Seq(Messages)
      /\ LinkSound(link, report, toPc, toPhone, phone)
  BY StreamOfLink DEF LinkInv
<1>2. /\ link.step = "hello" /\ UNCHANGED <<report, toPc, phone>>
      /\ \/ link' = End(link, "failed") /\ UNCHANGED toPhone
         \/ /\ toPhone' = to
            /\ \/ link' = [link EXCEPT !.step = "align", !.attempt = 2,
                                       !.pending = FALSE, !.half = None]
               \/ link' = [Awaiting("challenge") EXCEPT !.attempt = 2, !.pending = FALSE]
  BY DEF SaysHello, Ended
<1>3. CASE link' = End(link, "failed") /\ UNCHANGED toPhone
  <2>1. LinkSound(link', report, toPc, toPhone, phone)
    BY <1>1, <1>3, WorkerEndsSo DEF LinkOutcomes
  <2> QED
    BY <1>2, <1>3, <2>1 DEF LinkInv
<1>4. CASE /\ toPhone' = to
           /\ \/ link' = [link EXCEPT !.step = "align", !.attempt = 2,
                                      !.pending = FALSE, !.half = None]
              \/ link' = [Awaiting("challenge") EXCEPT !.attempt = 2, !.pending = FALSE]
  <2> DEFINE y == link'
  <2>1. /\ y \in Links /\ y.step \in {"align", "challenge"} /\ y.attempt = 2
        /\ y.half \in {link.half, None} /\ y.outcome = link.outcome
    BY <1>1, <1>4 DEF Awaiting, Links
  <2> HIDE DEF y
  <2>2. /\ link.outcome = None /\ None # "authorized"
        /\ report.sent = report.echoed + report.mismatched + report.timedOut
                         + (IF y.step = "pong" THEN 1 ELSE 0)
        /\ report.echoed + Held(y) <= report.echoed + Held(link)
    BY <1>1, <1>2, <2>1, LinkCounts, NoneAssumption DEF LinkOutcomes, Held
  <2>3. LinkSound(y, report, toPc, toPhone, phone)
    BY <1>1, <2>1, <2>2, WorkerGoes
  <2>4. LinkTruth(y, report, q, toPhone, phone)
    BY <2>3 DEF LinkSound
  <2>5. hello \in Messages /\ hello.kind = "hello"
    BY DEF Message, Messages, Kinds, Values
  <2> HIDE DEF hello, q
  <2>6. /\ to \in Seq(Messages) /\ DOMAIN to = 1..Len(toPhone) + 1
        /\ DOMAIN toPhone = 1..Len(toPhone) /\ to[Len(toPhone) + 1] = hello
        /\ \A i \in 1..Len(toPhone) : to[i] = toPhone[i]
    BY <1>1, <2>5, Appends
  <2> HIDE DEF to
  <2>7. ~Committed(y)
    BY <2>1, <2>2 DEF Committed
  <2>8. \A i \in DOMAIN to : to[i].kind = "auth" => i \in DOMAIN toPhone /\ to[i] = toPhone[i]
    BY <2>5, <2>6
  <2>9. AnswerInv(y, q, to, phone)
    BY <2>1, <2>2, <2>4, <2>7, <2>8 DEF LinkTruth, AnswerInv
  <2>10. LinkSound(y, report, toPc, to, phone)
    BY <2>3, <2>4, <2>6, <2>9 DEF LinkSound, LinkTypes, LinkTruth, q
  <2> QED
    BY <1>2, <1>4, <2>10 DEF LinkInv, y
<1> QED
  BY <1>2, <1>3, <1>4

(* Each PING that is counted as sent gets one outcome, or is taken back.   *)
LEMMA ProbeSteps ==
    LinkInv /\ (SendsPing \/ Pong \/ PongTimesOut \/ Skips \/ Rechallenged) => LinkInv'
<1> SUFFICES ASSUME LinkInv, SendsPing \/ Pong \/ PongTimesOut \/ Skips \/ Rechallenged
             PROVE  LinkInv'
  OBVIOUS
<1>1. /\ link \in Links /\ report \in Reports /\ toPc \in Seq(Pieces)
      /\ toPhone \in Seq(Messages) /\ phone \in Phones
      /\ LinkSound(link, report, toPc, toPhone, phone)
  BY StreamOfLink DEF LinkInv
<1>2. /\ report.echoed \in Nat /\ report.mismatched \in Nat /\ report.timedOut \in Nat
      /\ report.sent \in Int /\ report.index \in Nat /\ report.seams \in Int
      /\ report.target \in Int /\ report.had \in Int /\ None # "authorized"
  BY <1>1, NoneAssumption DEF Reports, LinkOutcomes
<1>3. link.step \in {"ping", "pong"} =>
          /\ link.outcome = None
          /\ report.sent = report.echoed + report.mismatched + report.timedOut
                           + (IF link.step = "pong" THEN 1 ELSE 0)
  BY <1>1, LinkCounts
<1>4. CASE SendsPing
  <2>1. /\ link.step = "ping" /\ UNCHANGED <<toPc, phone>>
        /\ \/ \E o \in {"report", "failed"} : link' = End(link, o) /\ UNCHANGED <<report, toPhone>>
           \/ /\ link' = Awaiting("pong")
              /\ report' = [report EXCEPT !.index = @ + 1, !.sent = @ + 1]
              /\ toPhone' = Append(toPhone, Message("ping", report.index + 1))
    BY <1>4 DEF SendsPing, Ended
  <2>2. CASE \E o \in {"report", "failed"} : link' = End(link, o) /\ UNCHANGED <<report, toPhone>>
    <3>1. report.sent = report.echoed + report.mismatched + report.timedOut
      BY <1>2, <1>3, <2>1
    <3>2. LinkSound(link', report, toPc, toPhone, phone)
      BY <1>1, <2>2, <3>1, WorkerEndsSo DEF LinkOutcomes
    <3> QED
      BY <2>1, <2>2, <3>2 DEF LinkInv
  <2>3. CASE /\ link' = Awaiting("pong")
             /\ report' = [report EXCEPT !.index = @ + 1, !.sent = @ + 1]
             /\ toPhone' = Append(toPhone, Message("ping", report.index + 1))
    <3> DEFINE index == report.index + 1
               sent == report.sent + 1
               y == Awaiting("pong")
               u == [report EXCEPT !.index = index, !.sent = sent]
               ping == Message("ping", index)
    <3>1. index \in Nat /\ sent \in Int /\ sent = report.sent + 1 /\ report' = u
      BY <1>1, <1>2, <2>3 DEF Reports
    <3>2. /\ y \in Links /\ y.step = "pong" /\ y.attempt = link.attempt /\ y.half = link.half
          /\ y.outcome = link.outcome
      BY <1>1 DEF Awaiting, Links
    <3>3. toPhone' = Append(toPhone, ping)
      BY <2>3
    <3> HIDE DEF index, sent, y
    <3>4. /\ u \in Reports /\ u.sent = sent /\ u.echoed = report.echoed
          /\ u.mismatched = report.mismatched /\ u.timedOut = report.timedOut
      BY <1>1, <3>1 DEF Reports
    <3>5. ping \in Messages /\ ping.kind = "ping"
      BY <3>1 DEF Message, Messages, Kinds, Values
    <3> HIDE DEF u, ping
    <3>6. Held(y) = Held(link) /\ Held(link) \in {0, 1}
      BY <3>2 DEF Held
    <3>7. /\ u.sent = u.echoed + u.mismatched + u.timedOut + (IF y.step = "pong" THEN 1 ELSE 0)
          /\ u.echoed + Held(y) <= report.echoed + Held(link)
      BY <1>2, <1>3, <2>1, <3>1, <3>2, <3>4, <3>6
    <3>8. LinkSound(y, u, toPc, toPhone, phone)
      BY <1>1, <1>2, <1>3, <2>1, <3>2, <3>4, <3>7, WorkerGoes
    <3>9. LinkTruth(y, u, Stream(toPc, phone), Append(toPhone, ping), phone)
      BY <3>5, <3>8, StreamOfLink, MessageSent
    <3>10. Append(toPhone, ping) \in Seq(Messages)
      BY <1>1, <3>5
    <3>11. LinkSound(y, u, toPc, Append(toPhone, ping), phone)
      BY <3>8, <3>9, <3>10 DEF LinkSound, LinkTypes
    <3> QED
      BY <2>1, <2>3, <3>1, <3>3, <3>11 DEF LinkInv, y
  <2> QED
    BY <2>1, <2>2, <2>3
<1>5. CASE Pong
  <2> DEFINE y == Counted
             echoed == report.echoed + (IF link.half.value = report.index THEN 1 ELSE 0)
             mismatched == report.mismatched + (IF link.half.value = report.index THEN 0 ELSE 1)
             u == [report EXCEPT !.echoed = echoed, !.mismatched = mismatched]
  <2>1. /\ link.step = "pong" /\ link.half # None /\ link.half.kind = "pong" /\ link' = y
        /\ toPc # <<>> /\ ~Head(toPc).head /\ toPc' = Tail(toPc) /\ UNCHANGED <<toPhone, phone>>
        /\ report' = IF link.half.value = report.index THEN [report EXCEPT !.echoed = @ + 1]
                     ELSE [report EXCEPT !.mismatched = @ + 1]
    BY <1>5 DEF Pong, FrameArrives
  <2>2. report' = u
    <3>1. CASE link.half.value = report.index
      <4>1. echoed = report.echoed + 1 /\ mismatched = report.mismatched
        BY <1>2, <3>1
      <4> HIDE DEF echoed, mismatched
      <4> QED
        BY <1>1, <2>1, <3>1, <4>1 DEF Reports
    <3>2. CASE link.half.value # report.index
      <4>1. echoed = report.echoed /\ mismatched = report.mismatched + 1
        BY <1>2, <3>2
      <4> HIDE DEF echoed, mismatched
      <4> QED
        BY <1>1, <2>1, <3>2, <4>1 DEF Reports
    <3> QED
      BY <3>1, <3>2
  <2>3. /\ echoed \in Nat /\ mismatched \in Nat /\ echoed <= report.echoed + 1
        /\ echoed + mismatched = report.echoed + report.mismatched + 1
    BY <1>2
  <2> HIDE DEF echoed, mismatched
  <2>4. /\ u \in Reports /\ u.sent = report.sent /\ u.echoed = echoed
        /\ u.mismatched = mismatched /\ u.timedOut = report.timedOut
    BY <1>1, <2>3 DEF Reports
  <2>5. /\ y \in Links /\ y.step = "ping" /\ y.attempt = link.attempt /\ y.half = None
        /\ y.outcome = link.outcome
    BY <1>1 DEF Counted, Taken, Links
  <2> HIDE DEF u, y
  <2>6. Held(y) = 0 /\ Held(link) = 1
    BY <2>1, <2>5 DEF Held
  <2>7. /\ u.sent = u.echoed + u.mismatched + u.timedOut + (IF y.step = "pong" THEN 1 ELSE 0)
        /\ u.echoed + Held(y) <= report.echoed + Held(link)
    BY <1>2, <1>3, <2>1, <2>3, <2>4, <2>5, <2>6
  <2>8. LinkSound(link, report, Tail(toPc), toPhone, phone)
    BY <1>1, <2>1, FrameRead
  <2>9. LinkSound(y, u, Tail(toPc), toPhone, phone)
    BY <1>2, <1>3, <2>1, <2>4, <2>5, <2>7, <2>8, WorkerGoes
  <2> QED
    BY <2>1, <2>2, <2>9 DEF LinkInv
<1>6. CASE PongTimesOut
  <2> DEFINE y == [link EXCEPT !.step = "ping", !.deadline = "none"]
             timedOut == report.timedOut + 1
             u == [report EXCEPT !.timedOut = timedOut]
  <2>1. /\ link.step = "pong" /\ link' = y /\ report' = u /\ UNCHANGED <<toPc, toPhone, phone>>
        /\ timedOut \in Nat /\ timedOut = report.timedOut + 1
    BY <1>1, <1>2, <1>6 DEF PongTimesOut, Reports
  <2> HIDE DEF timedOut
  <2>2. /\ u \in Reports /\ u.sent = report.sent /\ u.echoed = report.echoed
        /\ u.mismatched = report.mismatched /\ u.timedOut = timedOut
    BY <1>1, <2>1 DEF Reports
  <2>3. /\ y \in Links /\ y.step = "ping" /\ y.attempt = link.attempt /\ y.half = link.half
        /\ y.outcome = link.outcome
    BY <1>1 DEF Links
  <2> HIDE DEF u, y
  <2>4. Held(y) = Held(link) /\ Held(link) \in {0, 1}
    BY <2>3 DEF Held
  <2>5. /\ u.sent = u.echoed + u.mismatched + u.timedOut + (IF y.step = "pong" THEN 1 ELSE 0)
        /\ u.echoed + Held(y) <= report.echoed + Held(link)
    BY <1>2, <1>3, <2>1, <2>2, <2>3, <2>4
  <2>6. LinkSound(y, u, toPc, toPhone, phone)
    BY <1>1, <1>2, <1>3, <2>1, <2>2, <2>3, <2>5, WorkerGoes
  <2> QED
    BY <2>1, <2>6 DEF LinkInv
<1>7. CASE Skips
  <2> DEFINE y == Taken
  <2>1. /\ link.step = "pong" /\ link' = y /\ toPc # <<>> /\ ~Head(toPc).head
        /\ toPc' = Tail(toPc) /\ UNCHANGED <<report, toPhone, phone>>
    BY <1>7 DEF Skips, FrameArrives
  <2>2. /\ y \in Links /\ y.step = "pong" /\ y.attempt = link.attempt /\ y.half = None
        /\ y.outcome = link.outcome
    BY <1>1, <2>1 DEF Taken, Links
  <2> HIDE DEF y
  <2>3. Held(y) = 0 /\ Held(link) \in {0, 1}
    BY <2>2 DEF Held
  <2>4. /\ report.sent = report.echoed + report.mismatched + report.timedOut
                         + (IF y.step = "pong" THEN 1 ELSE 0)
        /\ report.echoed + Held(y) <= report.echoed + Held(link)
    BY <1>2, <1>3, <2>1, <2>2, <2>3
  <2>5. LinkSound(link, report, Tail(toPc), toPhone, phone)
    BY <1>1, <2>1, FrameRead
  <2>6. LinkSound(y, report, Tail(toPc), toPhone, phone)
    BY <1>1, <1>2, <1>3, <2>1, <2>2, <2>4, <2>5, WorkerGoes
  <2> QED
    BY <2>1, <2>6 DEF LinkInv
<1>8. CASE Rechallenged
  <2> DEFINE y == link'
             sent == report.sent - 1
             target == report.target - (report.echoed - report.had)
             seams == IF target = 0 THEN report.seams ELSE report.seams + 1
             u == [report EXCEPT !.sent = sent, !.index = 0, !.had = report.echoed,
                                 !.target = target, !.seams = seams]
  <2>1. /\ link.step = "pong" /\ toPc # <<>> /\ ~Head(toPc).head
        /\ toPc' = Tail(toPc) /\ UNCHANGED <<toPhone, phone>>
        /\ \/ y = End(Taken, "report")
           \/ y = [Taken EXCEPT !.step = "challenge", !.deadline = "armed", !.pending = FALSE]
        /\ report' = [Uncounted EXCEPT !.seams = IF Uncounted.target = 0 THEN @ ELSE @ + 1]
    BY <1>8, Zenon DEF Rechallenged, FrameArrives
  <2>2. sent \in Int /\ target \in Int /\ seams \in Int /\ sent = report.sent - 1
    BY <1>2
  <2>3. report' = u
    <3>1. Uncounted = [report EXCEPT !.sent = sent, !.index = 0, !.had = report.echoed,
                                     !.target = target]
      BY <1>1, <1>2 DEF Uncounted, Reports
    <3> HIDE DEF sent, target
    <3>2. Uncounted.target = target /\ Uncounted.seams = report.seams
      BY <1>1, <2>2, <3>1 DEF Reports
    <3>3. report' = [Uncounted EXCEPT !.seams = seams]
      BY <2>1, <3>2, Zenon
    <3> HIDE DEF seams
    <3> QED
      BY <1>1, <3>1, <3>3 DEF Reports
  <2> HIDE DEF sent, target, seams
  <2>4. /\ u \in Reports /\ u.sent = sent /\ u.echoed = report.echoed
        /\ u.mismatched = report.mismatched /\ u.timedOut = report.timedOut
    <3> DEFINE had == report.echoed
    <3>1. had \in Int /\ u = [report EXCEPT !.sent = sent, !.index = 0, !.had = had,
                                           !.target = target, !.seams = seams]
      BY <1>2
    <3> HIDE DEF u, had
    <3> QED
      BY <1>1, <2>2, <3>1 DEF Reports
  <2>5. /\ y \in Links /\ y.attempt = link.attempt /\ y.half = None
        /\ \/ y.step = "ended" /\ y.outcome = "report"
           \/ y.step = "challenge" /\ y.outcome = link.outcome
    BY <1>1, <2>1 DEF End, Taken, Links, LinkOutcomes
  <2> HIDE DEF u, y
  <2>6. Held(y) = 0 /\ Held(link) \in {0, 1} /\ "report" # None
    BY <2>5, NoneAssumption DEF Held, LinkOutcomes
  <2>7. /\ u.sent = u.echoed + u.mismatched + u.timedOut + (IF y.step = "pong" THEN 1 ELSE 0)
        /\ u.echoed + Held(y) <= report.echoed + Held(link)
    <3>1. y.step # "pong" /\ report.sent = report.echoed + report.mismatched + report.timedOut + 1
      BY <1>2, <1>3, <2>1, <2>5
    <3>2. u.sent = report.echoed + report.mismatched + report.timedOut
      BY <1>2, <2>2, <2>4, <3>1
    <3> QED
      BY <1>2, <2>4, <2>6, <3>1, <3>2
  <2>8. LinkSound(link, report, Tail(toPc), toPhone, phone)
    BY <1>1, <2>1, FrameRead
  <2>9. LinkSound(y, u, Tail(toPc), toPhone, phone)
    <3>1. /\ y.step # "result" /\ y.step # "hello" /\ y.outcome # "authorized"
          /\ y.step = "ended" <=> y.outcome # None
      BY <1>2, <1>3, <2>1, <2>5, <2>6
    <3> QED
      BY <2>4, <2>5, <2>7, <2>8, <3>1, WorkerGoes
  <2> QED
    BY <2>1, <2>3, <2>9 DEF LinkInv, y
<1> QED
  BY <1>4, <1>5, <1>6, <1>7, <1>8

-----------------------------------------------------------------------------
(* HostLink: the theorems. *)

(* A stream whose only challenge, if it has one, is at its start.          *)
LEMMA StartsSound ==
    ASSUME NEW l \in Links, NEW p \in Phones, NEW pc \in Seq(Pieces),
           l.step \in {"dial", "align"}, l.half = None, l.outcome = None, l.attempt = 1,
           p.session = 1, p.left = {},
           \A i \in DOMAIN Stream(pc, p) :
               /\ ~IsGrant(Stream(pc, p)[i]) /\ ~IsPong(Stream(pc, p)[i])
               /\ IsChallenge(Stream(pc, p)[i]) =>
                      i = 1 /\ Stream(pc, p)[i].of.value = 1 /\ p.state = "challenged"
    PROVE  LinkSound(l, NewReport, pc, <<>>, p)
<1> DEFINE q == Stream(pc, p)
           r == NewReport
           tp == <<>>
<1>1. /\ r \in Reports /\ r.sent = 0 /\ r.echoed = 0 /\ r.mismatched = 0 /\ r.timedOut = 0
      /\ tp \in Seq(Messages) /\ DOMAIN tp = {}
  BY HostLinkAssumption DEF NewReport, Reports
<1>2. /\ ~HoldsChallenge(l) /\ ~HoldsGrant(l) /\ Held(l) = 0 /\ ~Committed(l) /\ None # "authorized"
  BY NoneAssumption DEF HoldsChallenge, HoldsGrant, Held, Committed, LinkOutcomes
<1>3. q \in Seq(Pieces) /\ \A i \in DOMAIN q : i \in Nat
  BY DEF Stream, Phones
<1>4. /\ \A i \in DOMAIN q : ~IsGrant(q[i]) /\ ~IsPong(q[i])
      /\ \A i \in DOMAIN q : IsChallenge(q[i]) => i = 1 /\ q[i].of.value = 1 /\ p.state = "challenged"
  OBVIOUS
<1> HIDE DEF q, r, tp
<1>5. StreamInv(l, q, p)
  <2>1. ASSUME NEW i \in DOMAIN q, IsChallenge(q[i]) PROVE Follows(q[i].of.value, q, i, p)
    <3>1. i = 1 /\ q[i].of.value = 1 /\ 1 \in 1..p.session
      BY <1>4, <2>1
    <3>2. \A j \in DOMAIN q : j > i => ~IsChallenge(q[j]) /\ ~IsGrant(q[j])
      BY <1>3, <1>4, <3>1
    <3> QED
      BY <3>1, <3>2 DEF Follows
  <2> QED
    BY <1>2, <2>1 DEF StreamInv
<1>6. AnswerInv(l, q, tp, p)
  <2>1. ~Helloed(tp, 0)
    BY <1>1 DEF Helloed
  <2>2. p.state \in {"pending", "granted"} => Unanswerable(p.session, l, q)
    BY <1>2, <1>4 DEF Unanswerable
  <2> QED
    BY <1>1, <1>2, <2>1, <2>2 DEF AnswerInv
<1>7. CountInv(l, r, q, p)
  <2>1. Pongs(q) = {}
    BY <1>4 DEF Pongs
  <2>2. Cardinality(Pongs(q)) = 0 /\ p.pongs \in Nat
    BY <2>1, FS_EmptySet DEF Phones
  <2> QED
    BY <1>1, <1>2, <2>2 DEF CountInv
<1> QED
  BY <1>1, <1>5, <1>6, <1>7 DEF LinkSound, LinkTypes, LinkTruth, q, r, tp

\* The sequences of the initial states are short.
LEMMA ShortSequences ==
    ASSUME NEW S, NEW a \in S, NEW b \in S
    PROVE  /\ Tail(<<a, b>>) = <<b>> /\ <<b>> \o <<a, b>> = <<b, a, b>>
           /\ {<<>>, <<a>>, <<b>>, <<a, b>>, <<b, a, b>>} \subseteq Seq(S)
           /\ [1..1 -> S] \subseteq Seq(S) /\ [1..2 -> S] \subseteq Seq(S)
<1>1. Tail(<<a, b>>) = <<b>>
  OBVIOUS
<1>2. <<b>> \o <<a, b>> = <<b, a, b>>
  <2> DEFINE s == <<b>> \o <<a, b>>
             t == <<b, a, b>>
  <2>1. s \in Seq(S) /\ t \in Seq(S) /\ Len(s) = 3 /\ Len(t) = 3
    OBVIOUS
  <2>2. s[1] = b /\ s[2] = a /\ s[3] = b /\ t[1] = b /\ t[2] = a /\ t[3] = b
    OBVIOUS
  <2> HIDE DEF s, t
  <2>3. \A i \in 1..3 : i = 1 \/ i = 2 \/ i = 3
    OBVIOUS
  <2>4. s = t
    BY <2>1, <2>2, <2>3
  <2> QED
    BY <2>4 DEF s, t
<1>3. {<<>>, <<a>>, <<b>>, <<a, b>>, <<b, a, b>>} \subseteq Seq(S)
  OBVIOUS
<1>4. ASSUME NEW n \in Nat, NEW s \in [1..n -> S] PROVE s \in Seq(S)
  BY SeqDef
<1>5. 1 \in Nat /\ 2 \in Nat
  OBVIOUS
<1> QED
  BY <1>1, <1>2, <1>3, <1>4, <1>5

\* Every leftover a worker can find is sound.
LEMMA LinkInitInv == LinkInit => LinkInv
<1> SUFFICES ASSUME LinkInit PROVE LinkInv
  OBVIOUS
<1> DEFINE one == [head |-> TRUE, of |-> Message("challenge", 1)]
           two == [head |-> FALSE, of |-> Message("challenge", 1)]
           first == [head |-> TRUE, of |-> Message("media", None)]
           last == [head |-> FALSE, of |-> Message("media", None)]
           q == Stream(toPc, phone)
<1>1. /\ {one, two, first, last} \subseteq Pieces
      /\ IsChallenge(one) /\ one.of.value = 1 /\ ~IsGrant(one) /\ ~IsPong(one)
      /\ \A t \in {two, first, last} : ~IsChallenge(t) /\ ~IsGrant(t) /\ ~IsPong(t)
  <2>1. Message("challenge", 1) \in Messages /\ Message("media", None) \in Messages
    BY DEF Message, Messages, Kinds, Values
  <2>2. /\ Message("challenge", 1).kind = "challenge" /\ Message("challenge", 1).value = 1
        /\ Message("media", None).kind = "media"
    BY DEF Message
  <2>3. {one, two, first, last} \subseteq Pieces
    BY <2>1 DEF Pieces
  <2> QED
    BY <2>2, <2>3 DEF IsChallenge, IsGrant, IsPong
<1>2. Challenge = <<one, two>> /\ Media = <<first, last>>
  BY DEF Challenge, Media, Transfers
<1> HIDE DEF one, two, first, last
<1>3. /\ Tail(Challenge) = <<two>> /\ Tail(Media) \o Media = <<last, first, last>>
      /\ Tail(Media) = <<last>>
  <2>1. /\ one \in Pieces /\ two \in Pieces /\ first \in Pieces /\ last \in Pieces
    BY <1>1
  <2> QED
    BY <1>2, <2>1, ShortSequences
<1>4. /\ report = NewReport /\ toPhone = <<>>
      /\ \E route \in {"lan", "usb"}, probing \in BOOLEAN, addresses \in Seq(Addresses),
            bound \in BOOLEAN, state \in {"challenged", "pending", "granted"},
            out \in {<<>>, <<one, two>>, <<last>>} :
            /\ link = NewLink(route, probing, addresses) /\ phone = NewPhone(state, bound, out)
            /\ toPc \in {<<>>, <<two>>, <<last, first, last>>}
            /\ out = <<one, two>> => state = "challenged" /\ toPc = <<>>
            /\ toPc # <<>> => out = <<>>
  <2>1. CASE \E addresses \in {<<>>} \union [1..1 -> Addresses] \union [1..2 -> Addresses],
                bound \in BOOLEAN :
                /\ link = NewLink("lan", FALSE, addresses)
                /\ phone = NewPhone("challenged", bound, Challenge) /\ toPc = <<>>
    <3>1. PICK addresses \in {<<>>} \union [1..1 -> Addresses] \union [1..2 -> Addresses],
               bound \in BOOLEAN :
                /\ link = NewLink("lan", FALSE, addresses)
                /\ phone = NewPhone("challenged", bound, Challenge) /\ toPc = <<>>
      BY <2>1
    <3>2. addresses \in Seq(Addresses)
      <4>1. "phone" \in Addresses /\ <<>> \in Seq(Addresses)
        BY DEF Addresses
      <4> QED
        BY <4>1, ShortSequences
    <3> QED
      BY <1>2, <3>1, <3>2 DEF LinkInit
  <2>2. CASE \E probing \in BOOLEAN, left \in Leftovers :
                /\ link = NewLink("usb", probing, <<>>)
                /\ phone = NewPhone(left[1], TRUE, left[3]) /\ toPc = left[2]
    <3>1. PICK probing \in BOOLEAN, left \in Leftovers :
                /\ link = NewLink("usb", probing, <<>>)
                /\ phone = NewPhone(left[1], TRUE, left[3]) /\ toPc = left[2]
      BY <2>2
    <3>2. \/ left[1] = "challenged" /\ left[2] = <<>> /\ left[3] = <<one, two>>
          \/ left[1] = "challenged" /\ left[2] = <<two>> /\ left[3] = <<>>
          \/ left[1] = "pending" /\ left[2] = <<>> /\ left[3] = <<>>
          \/ left[1] = "granted" /\ left[2] = <<last, first, last>> /\ left[3] = <<>>
          \/ left[1] = "granted" /\ left[2] = <<>> /\ left[3] = <<last>>
      <4>1. left \in {<<"challenged", <<>>, <<one, two>>>>, <<"challenged", <<two>>, <<>>>>,
                      <<"pending", <<>>, <<>>>>, <<"granted", <<last, first, last>>, <<>>>>,
                      <<"granted", <<>>, <<last>>>>}
        <5>1. Leftovers = {<<"challenged", <<>>, Challenge>>,
                           <<"challenged", Tail(Challenge), <<>>>>, <<"pending", <<>>, <<>>>>,
                           <<"granted", Tail(Media) \o Media, <<>>>>,
                           <<"granted", <<>>, Tail(Media)>>}
          BY Zenon DEF Leftovers
        <5> QED
          BY <1>2, <1>3, <3>1, <5>1, Zenon
      <4> QED
        BY <4>1
    <3>3. <<>> \in Seq(Addresses) /\ <<>> # <<one, two>> /\ <<last>> # <<one, two>>
      OBVIOUS
    <3> QED
      BY <3>1, <3>2, <3>3 DEF LinkInit
  <2> QED
    BY <2>1, <2>2 DEF LinkInit
<1>5. PICK route \in {"lan", "usb"}, probing \in BOOLEAN, addresses \in Seq(Addresses),
           bound \in BOOLEAN, state \in {"challenged", "pending", "granted"},
           out \in {<<>>, <<one, two>>, <<last>>} :
           /\ link = NewLink(route, probing, addresses) /\ phone = NewPhone(state, bound, out)
           /\ toPc \in {<<>>, <<two>>, <<last, first, last>>}
           /\ out = <<one, two>> => state = "challenged" /\ toPc = <<>>
           /\ toPc # <<>> => out = <<>>
  BY <1>4
<1>6. out \in Seq(Pieces) /\ toPc \in Seq(Pieces)
  <2>1. /\ one \in Pieces /\ two \in Pieces /\ first \in Pieces /\ last \in Pieces
    BY <1>1
  <2>2. {<<>>, <<two>>, <<one, two>>, <<last>>, <<last, first, last>>} \subseteq Seq(Pieces)
    BY <2>1, ShortSequences
  <2> QED
    BY <1>5, <2>2
<1>7. /\ link \in Links /\ link.step \in {"dial", "align"} /\ link.half = None
      /\ link.outcome = None /\ link.attempt = 1
  BY <1>5 DEF NewLink, Links, Values
<1>8. /\ phone \in Phones /\ phone.session = 1 /\ phone.left = {} /\ phone.out = out
      /\ phone.state = state
  BY <1>5, <1>6 DEF NewPhone, Phones
<1>9. \A i \in DOMAIN q :
          /\ ~IsGrant(q[i]) /\ ~IsPong(q[i])
          /\ IsChallenge(q[i]) => i = 1 /\ q[i].of.value = 1 /\ phone.state = "challenged"
  <2>1. \/ q = <<>> \/ q = <<two>>
        \/ q = <<one, two>> /\ phone.state = "challenged"
        \/ q = <<last, first, last>> \/ q = <<last>>
    <3>1. CASE toPc # <<>>
      <4>1. toPc \o <<>> = toPc
        BY <1>6
      <4>2. q = toPc
        BY <1>5, <1>8, <3>1, <4>1 DEF Stream
      <4> QED
        BY <1>5, <3>1, <4>2, Zenon
    <3>2. CASE toPc = <<>>
      <4>1. <<>> \o out = out
        BY <1>6
      <4>2. q = out
        BY <1>8, <3>2, <4>1 DEF Stream
      <4> QED
        BY <1>5, <1>8, <4>2, Zenon
    <3> QED
      BY <1>5, <3>1, <3>2
  <2> HIDE DEF q
  <2>2. CASE q = <<one, two>> /\ phone.state = "challenged"
    <3>1. DOMAIN q = {1, 2} /\ q[1] = one /\ q[2] = two
      BY <2>2
    <3> QED
      BY <1>1, <2>2, <3>1
  <2>3. CASE q = <<>> \/ q = <<two>> \/ q = <<last, first, last>> \/ q = <<last>>
    <3>1. \A i \in DOMAIN q : q[i] \in {two, first, last}
      BY <2>3
    <3> QED
      BY <1>1, <3>1
  <2> QED
    BY <2>1, <2>2, <2>3
<1> QED
  BY <1>4, <1>6, <1>7, <1>8, <1>9, StartsSound DEF LinkInv

\* Every step keeps the invariant.
LEMMA LinkNextInv == LinkInv /\ [LinkNext]_linkVars => LinkInv'
<1>1. LinkInv /\ Worker => LinkInv'
  BY ReaderSteps, DialSteps, ChallengedInv, AnsweredInv, SaysHelloInv, ProbeSteps DEF Worker
<1>2. LinkInv /\ (DeadlinePasses \/ PressesStop) => LinkInv'
  BY DialSteps
<1>3. ASSUME LinkInv, UNCHANGED linkVars PROVE LinkInv'
  <2>1. UNCHANGED <<link, report, toPc, toPhone, phone>>
    BY <1>3 DEF linkVars
  <2> QED
    BY <1>3, <2>1 DEF LinkInv
<1> QED
  BY <1>1, <1>2, <1>3, PhoneSteps DEF LinkNext

\* The invariant holds of every reachable state.
LEMMA LinkInvAlways == LinkSpec => []LinkInv
BY LinkInitInv, LinkNextInv, PTL DEF LinkSpec

(* However much of older sessions is in the endpoint, and whether or not a *)
(* HOST_HELLO had to be sent, the outcome that opens the camera's stream   *)
(* is that of the session whose challenge the worker answered              *)
(* (client_auth.rs exchange; video.rs receive).                            *)
THEOREM OutcomesAreFresh == LinkSpec => []FreshGrant
<1>1. LinkInv => FreshGrant
  BY DEF LinkInv, LinkSound, LinkTruth, AnswerInv, Committed, FreshGrant
<1> QED
  BY <1>1, LinkInvAlways, PTL

(* However often the phone's session is replaced in the middle of a run,   *)
(* the probe's totals add up and every echo it counts is one the phone has *)
(* sent (usb_probe.rs run, end_to_end).                                    *)
THEOREM ProbeTotals == LinkSpec => []ProbeCounts
<1>1. LinkInv => ProbeCounts
  <2> SUFFICES ASSUME LinkInv, link.outcome = "report"
               PROVE  /\ report.sent = report.echoed + report.mismatched + report.timedOut
                      /\ report.echoed = Frames => phone.pongs >= Frames
    BY DEF ProbeCounts
  <2> DEFINE q == Stream(toPc, phone)
  <2>1. /\ link \in Links /\ report \in Reports /\ phone \in Phones /\ q \in Seq(Pieces)
        /\ LinkTruth(link, report, q, toPhone, phone)
        /\ LinkSound(link, report, toPc, toPhone, phone)
    BY StreamOfLink DEF LinkInv
  <2>2. "report" # None
    BY NoneAssumption DEF LinkOutcomes
  <2>3. link.step = "ended"
    BY <2>1, <2>2, LinkCounts
  <2>4. report.sent = report.echoed + report.mismatched + report.timedOut
    BY <2>1, <2>3, LinkCounts
  <2>5. phone.pongs >= report.echoed
    <3>1. /\ Cardinality(Pongs(q)) \in Nat /\ report.echoed \in Nat /\ Held(link) \in {0, 1}
          /\ phone.pongs \in Nat
      BY <2>1, PongsFinite DEF Reports, Phones, Held
    <3>2. report.echoed + Cardinality(Pongs(q)) + Held(link) <= phone.pongs
      BY <2>1 DEF LinkTruth, CountInv
    <3> HIDE DEF q
    <3> QED
      BY <3>1, <3>2
  <2> QED
    BY <2>4, <2>5
<1> QED
  BY <1>1, LinkInvAlways, PTL
(* How the worker ends is therefore true of the phone (video.rs receive,   *)
(* usb_probe.rs end_to_end).                                               *)
THEOREM WorkerEndsTruly == LinkSpec => []EndsTruly
<1>1. FreshGrant /\ ProbeCounts => EndsTruly
  BY DEF EndsTruly
<1> QED
  BY <1>1, OutcomesAreFresh, ProbeTotals, PTL
=============================================================================
