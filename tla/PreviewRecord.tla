--------------------------- MODULE PreviewRecord ---------------------------
(***************************************************************************)
(* The record through which the worker shows the window a small copy of    *)
(* the picture (preview.rs): a file that one process writes while another  *)
(* reads it, with a sequence number that is odd during a write.  Every     *)
(* worker of a window writes to the same file and counts from zero.        *)
(*                                                                         *)
(* A header is written and read as a whole; pixels are two halves.         *)
(***************************************************************************)
EXTENDS Integers, Sequences

CONSTANTS
    NoPicture,
    MaxShots        \* bound: pictures that are published

ASSUME PreviewAssumption == MaxShots \in Nat

VARIABLES
    file,       \* the record: a sequence number, a frame, two half pictures
    producer,   \* the worker's Producer: publish() and its own counter
    consumer,   \* the window's Consumer: latest() and what the window shows
    shots       \* the pictures so far; each has its number

previewVars == <<file, producer, consumer, shots>>

NoProducer == [step |-> "none", seq |-> 0]
NoConsumer == [step |-> "idle", seq |-> 0, frame |-> NoPicture,
               copy |-> <<NoPicture, NoPicture>>, shown |-> <<NoPicture, NoPicture>>,
               older |-> FALSE]

Odd(n) == n % 2 = 1
NextOdd(n) == IF Odd(n + 1) THEN n + 1 ELSE n + 2       \* n + 1 | 1
NextEven(n) == IF Odd(n + 1) THEN n ELSE n + 1          \* n + 1 & !1

-----------------------------------------------------------------------------
(* The worker.  A failing write leaves publish(), never the session.       *)

Writing == {"mark", "first", "second"}

(* The worker before this one has been reaped, which latest() never waits  *)
(* for: the window does both on one thread.                                *)
ProducerOpens ==
    /\ producer.step = "none" /\ consumer.step = "idle"
    /\ producer' = [NoProducer EXCEPT !.step = "idle"]
    /\ UNCHANGED <<file, consumer, shots>>

\* Mutant: the number before a picture is only incremented.
MarksRecord_Increments ==
    /\ producer.step = "idle" /\ shots < MaxShots
    /\ shots' = shots + 1
    /\ producer' = [step |-> "mark", seq |-> producer.seq + 1]
    /\ file' = [file EXCEPT !.seq = producer'.seq, !.frame = shots']
    /\ UNCHANGED consumer
MarksRecord ==
    /\ producer.step = "idle" /\ shots < MaxShots
    /\ shots' = shots + 1
    /\ producer' = [step |-> "mark", seq |-> NextOdd(producer.seq)]
    /\ file' = [file EXCEPT !.seq = producer'.seq, !.frame = shots']
    /\ UNCHANGED consumer
WritesPixels ==
    /\ producer.step \in {"mark", "first"}
    /\ LET half == IF producer.step = "mark" THEN 1 ELSE 2 IN
       /\ file' = [file EXCEPT !.pixels[half] = shots]
       /\ producer' = [producer EXCEPT !.step = IF half = 1 THEN "first" ELSE "second"]
    /\ UNCHANGED <<consumer, shots>>
ReleasesRecord ==
    /\ producer.step = "second"
    /\ producer' = [step |-> "idle", seq |-> NextEven(producer.seq)]
    /\ file' = [file EXCEPT !.seq = producer'.seq]
    /\ UNCHANGED <<consumer, shots>>
WriteFails ==
    /\ producer.step \in Writing
    /\ producer' = [producer EXCEPT !.step = "idle",
                       !.seq = IF producer.step = "second" THEN NextEven(@) ELSE @]
    /\ UNCHANGED <<file, consumer, shots>>
ProducerDies ==
    /\ producer.step # "none" /\ producer' = NoProducer
    /\ UNCHANGED <<file, consumer, shots>>

-----------------------------------------------------------------------------
(* The window.  "older" notes that the header it has just read is from     *)
(* before the worker of now has published anything.                        *)

ReadsHeader ==
    /\ consumer.step = "idle" /\ file.frame # NoPicture /\ ~Odd(file.seq)
    /\ consumer' = [consumer EXCEPT !.step = "first", !.seq = file.seq,
                                    !.frame = file.frame,
                                    !.older = producer.step # "none" /\ producer.seq = 0]
    /\ UNCHANGED <<file, producer, shots>>
ReadsPixels ==
    /\ consumer.step \in {"first", "second"}
    /\ LET half == IF consumer.step = "first" THEN 1 ELSE 2 IN
       consumer' = [consumer EXCEPT !.copy[half] = file.pixels[half],
                                    !.step = IF half = 1 THEN "second" ELSE "check"]
    /\ UNCHANGED <<file, producer, shots>>
ChecksHeader ==
    /\ consumer.step = "check"
    /\ consumer' = [consumer EXCEPT !.step = "idle",
                       !.shown = IF file.seq = consumer.seq THEN consumer.copy ELSE @]
    /\ UNCHANGED <<file, producer, shots>>
(* A session that is over leaves no picture behind.                        *)
WindowForgets ==
    /\ producer.step = "none" /\ consumer.step = "idle" /\ consumer # NoConsumer
    /\ consumer' = NoConsumer
    /\ UNCHANGED <<file, producer, shots>>

PreviewInit ==
    /\ file = [seq |-> 0, frame |-> NoPicture, pixels |-> <<NoPicture, NoPicture>>]
    /\ producer = NoProducer /\ consumer = NoConsumer /\ shots = 0
PreviewNext ==
    \/ ProducerOpens \/ MarksRecord \/ WritesPixels \/ ReleasesRecord \/ WriteFails
    \/ ProducerDies \/ ReadsHeader \/ ReadsPixels \/ ChecksHeader \/ WindowForgets

PreviewSpec == PreviewInit /\ [][PreviewNext]_previewVars

-----------------------------------------------------------------------------
(* Properties *)

(* The window shows a picture as it was published, after failed writes and *)
(* killed workers too, unless it took the header of a picture that was     *)
(* left in the record by a worker before this one (every worker counts     *)
(* from zero: such a header can meet its own number again).                *)
WholeWithinAWorker ==
    [][consumer.step = "check" /\ consumer'.step = "idle" /\ ~consumer.older
         => consumer'.shown[1] = consumer'.shown[2] \/ UNCHANGED consumer.shown]_previewVars
=============================================================================
