---------------------------- MODULE AudioCodecs ----------------------------
(***************************************************************************)
(* audio_codecs.c: the register tables that power six codec chips on and   *)
(* off over I2C, and the status that decides what a shutdown has to do.    *)
(* Its callers are the command thread, which initialises and shuts down on *)
(* request, and cleanup(), which shuts down once in the main thread.       *)
(***************************************************************************)
EXTENDS Naturals

CONSTANTS
  Dacs,    \* TAD5212_DAC_COUNT
  Adcs,    \* PCM6240_ADC_COUNT
  Calls,   \* bound: requests of the command thread
  Faults   \* which of the events below can occur

\* The bus cannot be opened, a write fails, and a signal runs cleanup() while
\* the command thread goes on.
Fault == {"bus", "write", "signal"}

ASSUME CodecsAssumption ==
  /\ Dacs \in Nat \ {0} /\ Adcs \in Nat \ {0} /\ Calls \in Nat
  /\ Faults \subseteq Fault

Chip == [kind : {"dac"}, index : 1..Dacs] \cup [kind : {"adc"}, index : 1..Adcs]
Count(kind) == IF kind = "dac" THEN Dacs ELSE Adcs

VARIABLES
  power,   \* whether each chip is configured and on
  ready,   \* current_codec_status, by family
  pc,      \* where each thread is
  next,    \* the chip it writes next
  status,  \* overall_status
  result,  \* what its last call was and returned
  calls

vars == <<power, ready, pc, next, status, result, calls>>
call == <<status, next>>

Thread == {"worker", "cleaner"}
Kind == {"dac", "adc"}
Idle == <<"idle", "none">>
Over == <<"over", "none">>
None == [what |-> "none", ok |-> TRUE]

Init ==
  /\ power = [c \in Chip |-> FALSE]
  /\ ready = [k \in Kind |-> FALSE]
  /\ pc = [t \in Thread |-> Idle]
  /\ next = [t \in Thread |-> 1]
  /\ status = [t \in Thread |-> TRUE]
  /\ result = None
  /\ calls = 0

Go(t, from, to) == pc[t] = from /\ pc' = [pc EXCEPT ![t] = to]

\* The call of thread t is over.
Return(t, what, ok) ==
  /\ pc' = [pc EXCEPT ![t] = IF t = "worker" THEN Idle ELSE Over]
  /\ result' = [what |-> what, ok |-> ok]

\* A call begins; what the last one returned is history.
Enter(t) ==
  /\ pc[t] = Idle
  /\ IF t = "worker" THEN calls < Calls /\ calls' = calls + 1
     ELSE "signal" \in Faults /\ UNCHANGED calls
  /\ next' = [next EXCEPT ![t] = 1]
  /\ status' = [status EXCEPT ![t] = TRUE]

----------------------------------------------------------------------------
(* audio_codecs_init(). *)

\* The status is reset first, also when the bus then cannot be opened.
InitBegin ==
  /\ Enter("worker")
  /\ ready' = [k \in Kind |-> FALSE]
  /\ \/ /\ pc' = [pc EXCEPT !["worker"] = <<"on", "dac">>]
        /\ result' = None
     \/ "bus" \in Faults /\ Return("worker", "init", FALSE)
  /\ UNCHANGED power

\* The failure of a table leaves the chip off or, when it was on, on.
WriteChip(t, kind, on) ==
  /\ next[t] <= Count(kind)
  /\ next' = [next EXCEPT ![t] = @ + 1]
  /\ \/ /\ power' = [power EXCEPT ![[kind |-> kind, index |-> next[t]]] = on]
        /\ UNCHANGED status
     \/ /\ "write" \in Faults
        /\ status' = [status EXCEPT ![t] = FALSE]
        /\ UNCHANGED power
  /\ UNCHANGED <<ready, pc, result, calls>>

PowerOn(kind) == pc["worker"] = <<"on", kind>> /\ WriteChip("worker", kind, TRUE)

\* Mutant of DacsDone: the family counts as initialised whatever failed.
DacsDoneAnyway ==
  /\ next["worker"] > Dacs
  /\ Go("worker", <<"on", "dac">>, <<"on", "adc">>)
  /\ ready' = [ready EXCEPT !["dac"] = TRUE]
  /\ next' = [next EXCEPT !["worker"] = 1]
  /\ status' = [status EXCEPT !["worker"] = TRUE]
  /\ UNCHANGED <<power, result, calls>>

DacsDone ==
  /\ next["worker"] > Dacs
  /\ Go("worker", <<"on", "dac">>, <<"on", "adc">>)
  /\ ready' = [ready EXCEPT !["dac"] = @ \/ status["worker"]]
  /\ next' = [next EXCEPT !["worker"] = 1]
  /\ UNCHANGED <<power, status, result, calls>>

InitEnd ==
  /\ pc["worker"] = <<"on", "adc">> /\ next["worker"] > Adcs
  /\ ready' = [ready EXCEPT !["adc"] = @ \/ status["worker"]]
  /\ Return("worker", "init", status["worker"])
  /\ UNCHANGED <<power, call, calls>>

----------------------------------------------------------------------------
(* audio_codecs_shutdown(); cleanup() looks at the same status before it    *)
(* calls it, with the same effect as the look at its beginning.             *)

ShutdownNothing(t) ==
  /\ Enter(t)
  /\ \A k \in Kind : ~ready[k]
  /\ Return(t, "shutdown", TRUE)
  /\ UNCHANGED <<power, ready>>

ShutdownBegin(t) ==
  /\ Enter(t)
  /\ \E k \in Kind : ready[k]
  /\ \/ pc' = [pc EXCEPT ![t] = <<"look", "adc">>] /\ result' = None
     \/ "bus" \in Faults /\ Return(t, "shutdown", FALSE)
  /\ UNCHANGED <<power, ready>>

\* Each family's flag is looked at when its turn comes.
Look(t, kind) ==
  /\ ready[kind]
  /\ Go(t, <<"look", kind>>, <<"off", kind>>)
  /\ next' = [next EXCEPT ![t] = 1]
  /\ UNCHANGED <<power, ready, status, result, calls>>

Skip(t, kind) ==
  /\ ~ready[kind] /\ pc[t] = <<"look", kind>>
  /\ IF kind = "adc" THEN pc' = [pc EXCEPT ![t] = <<"look", "dac">>] /\ UNCHANGED result
     ELSE Return(t, "shutdown", status[t])
  /\ UNCHANGED <<power, ready, call, calls>>

PowerOff(t, kind) == pc[t] = <<"off", kind>> /\ WriteChip(t, kind, FALSE)

\* Mutant of FamilyOff: the flag is cleared whatever failed.
FamilyOffAnyway(t, kind) ==
  /\ pc[t] = <<"off", kind>> /\ next[t] > Count(kind)
  /\ ready' = [ready EXCEPT ![kind] = FALSE]
  /\ IF kind = "adc" THEN pc' = [pc EXCEPT ![t] = <<"look", "dac">>] /\ UNCHANGED result
     ELSE Return(t, "shutdown", status[t])
  /\ UNCHANGED <<power, call, calls>>

FamilyOff(t, kind) ==
  /\ pc[t] = <<"off", kind>> /\ next[t] > Count(kind)
  /\ ready' = [ready EXCEPT ![kind] = @ /\ ~status[t]]
  /\ IF kind = "adc" THEN pc' = [pc EXCEPT ![t] = <<"look", "dac">>] /\ UNCHANGED result
     ELSE Return(t, "shutdown", status[t])
  /\ UNCHANGED <<power, call, calls>>

----------------------------------------------------------------------------
Shutdown(t) ==
  \/ ShutdownNothing(t) \/ ShutdownBegin(t)
  \/ \E k \in Kind : Look(t, k) \/ Skip(t, k) \/ PowerOff(t, k) \/ FamilyOff(t, k)

Finished == calls = Calls /\ pc["worker"] = Idle /\ UNCHANGED vars

Next ==
  \/ InitBegin \/ (\E k \in Kind : PowerOn(k)) \/ DacsDone \/ InitEnd
  \/ (\E t \in Thread : Shutdown(t)) \/ Finished

Spec == Init /\ [][Next]_vars

----------------------------------------------------------------------------
TypeOK ==
  /\ power \in [Chip -> BOOLEAN] /\ ready \in [Kind -> BOOLEAN]
  /\ pc \in [Thread -> {Idle, Over} \cup ({"on", "look", "off"} \X Kind)]
  /\ next \in [Thread -> Nat] /\ status \in [Thread -> BOOLEAN]
  /\ calls \in 0..Calls

\* An initialisation that returned true has configured every chip, also one
\* that follows any number of calls that failed half-way, until cleanup() begins.
InitMeansOn ==
  (result.what = "init" /\ result.ok /\ pc["cleaner"] = Idle) => \A c \in Chip : power[c]

\* A failure forgets nothing that is known: a family that is marked stays
\* marked, so that a retry still writes its chips, until every one of them is
\* off, or an initialisation starts over, or cleanup() runs beside the command
\* thread, which no lock keeps apart.  It does not say that every chip which
\* is on is known: a family whose initialisation failed half-way is not marked,
\* and no shutdown writes those of its chips that were powered on.
KnownUntilOff ==
  [][\A k \in Kind : ready[k] /\ ~ready'[k] /\ pc["cleaner"] = Idle =>
       \/ pc'["worker"] = <<"on", "dac">> \/ result'.what = "init"
       \/ \A c \in Chip : c.kind = k => ~power'[c]]_vars

=============================================================================
