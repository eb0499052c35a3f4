------------------------- MODULE AudioCodecsProofs -------------------------
(***************************************************************************)
(* Proofs about AudioCodecs for any number of chips and of calls: its      *)
(* types, what an initialisation promises, and that a family stays marked  *)
(* until its chips are off.  A call in progress has kept its promise for   *)
(* the chips it has passed, or its status is FALSE; it is kept until       *)
(* cleanup() begins beside it, so all is said of Alone states.             *)
(***************************************************************************)
EXTENDS AudioCodecs, TLAPS

Types ==
  /\ power \in [Chip -> BOOLEAN] /\ ready \in [Kind -> BOOLEAN]
  /\ pc \in [Thread -> {Idle, Over} \cup ({"on", "look", "off"} \X Kind)]
  /\ next \in [Thread -> Nat \ {0}] /\ status \in [Thread -> BOOLEAN]
  /\ calls \in 0..Calls

Alone == pc["cleaner"] = Idle
Worker(at, kind) == pc["worker"] = <<at, kind>>

\* The chips of a family that come before the one written next.
On(kind, n) == \A i \in 1..(n - 1) : i <= Count(kind) => power[[kind |-> kind, index |-> i]]
AllOn(kind) == \A i \in 1..Count(kind) : power[[kind |-> kind, index |-> i]]
Off(kind, n) == \A i \in 1..(n - 1) : i <= Count(kind) => ~power[[kind |-> kind, index |-> i]]

Promises ==
  /\ pc["worker"] # Idle => result = None
  /\ result.what = "init" /\ result.ok => AllOn("dac") /\ AllOn("adc")

\* An initialisation in progress.
Rising ==
  /\ Worker("on", "dac") /\ status["worker"] => On("dac", next["worker"])
  /\ Worker("on", "adc") /\ status["worker"] => AllOn("dac") /\ On("adc", next["worker"])

\* A shutdown in progress.
Falling == \A k \in Kind : Worker("off", k) /\ status["worker"] => Off(k, next["worker"])

IInv == Types /\ (Alone => Promises /\ Rising /\ Falling)

----------------------------------------------------------------------------
LEMMA Chips ==
  /\ \A i \in 1..Dacs : [kind |-> "dac", index |-> i] \in Chip
  /\ \A i \in 1..Adcs : [kind |-> "adc", index |-> i] \in Chip
  /\ \A c \in Chip : c = [kind |-> c.kind, index |-> c.index]
  /\ \A c \in Chip : \/ c.kind = "dac" /\ c.index \in 1..Dacs
                     \/ c.kind = "adc" /\ c.index \in 1..Adcs
BY DEF Chip

LEMMA Places ==
  /\ Idle \in {Idle, Over} /\ Over \in {Idle, Over} /\ Idle # Over
  /\ \A at \in {"on", "look", "off"}, k \in Kind : <<at, k>> # Idle /\ <<at, k>> # Over
  /\ Kind = {"dac", "adc"} /\ "worker" \in Thread /\ "cleaner" \in Thread
BY DEF Idle, Over, Kind, Thread

\* What one write does to the chips of the thread that makes it.
LEMMA WriteFacts ==
  ASSUME Types, NEW t \in Thread, NEW kind \in Kind, NEW on \in BOOLEAN,
         pc[t] \in {<<"on", kind>>, <<"off", kind>>}, WriteChip(t, kind, on)
  PROVE  /\ Types' /\ UNCHANGED <<ready, pc, result>>
         /\ next'[t] = next[t] + 1 /\ next[t] <= Count(kind)
         /\ status'[t] => status[t]
         /\ \A c \in Chip : power'[c] = power[c] \/ power'[c] = on
         /\ status'[t] => power'[[kind |-> kind, index |-> next[t]]] = on
<1>1. next[t] \in 1..Count(kind) BY DEF WriteChip, Types
<1>2. [kind |-> kind, index |-> next[t]] \in Chip BY <1>1, Chips DEF Count, Kind
<1>3. next' = [next EXCEPT ![t] = @ + 1] /\ UNCHANGED <<ready, pc, result, calls>>
   BY DEF WriteChip
<1>4. \/ power' = [power EXCEPT ![[kind |-> kind, index |-> next[t]]] = on] /\ UNCHANGED status
      \/ status' = [status EXCEPT ![t] = FALSE] /\ UNCHANGED power
   BY DEF WriteChip
<1>5. Types'
  <2>1. power' \in [Chip -> BOOLEAN] BY <1>2, <1>4 DEF Types
  <2>2. status' \in [Thread -> BOOLEAN] BY <1>4 DEF Types
  <2>3. next' \in [Thread -> Nat \ {0}] BY <1>1, <1>3 DEF Types
  <2> QED BY <2>1, <2>2, <2>3, <1>3 DEF Types
<1>6. \A c \in Chip : power'[c] = power[c] \/ power'[c] = on BY <1>2, <1>4 DEF Types
<1>7. /\ status'[t] => status[t]
      /\ status'[t] => power'[[kind |-> kind, index |-> next[t]]] = on
   BY <1>2, <1>4 DEF Types
<1> QED BY <1>1, <1>3, <1>5, <1>6, <1>7 DEF Types

----------------------------------------------------------------------------
(* Types. *)

At == {Idle, Over} \cup ({"on", "look", "off"} \X Kind)

LEMMA AtOf ==
  /\ Idle \in At /\ Over \in At
  /\ \A at \in {"on", "look", "off"}, k \in Kind : <<at, k>> \in At
BY DEF At

LEMMA ShutdownTypes ==
  ASSUME Types, NEW t \in Thread, Shutdown(t)
  PROVE  Types'
<1> USE Places, AtOf
<1>1. pc \in [Thread -> At] BY DEF Types, At
<1>2. CASE ShutdownNothing(t) \/ ShutdownBegin(t)
  <2>1. pc' \in [Thread -> At]
     BY <1>1, <1>2 DEF ShutdownNothing, ShutdownBegin, Return
  <2>2. UNCHANGED <<power, ready>> /\ Enter(t) BY <1>2 DEF ShutdownNothing, ShutdownBegin
  <2>3. calls' \in 0..Calls BY <2>2, CodecsAssumption DEF Enter, Types
  <2>4. next' \in [Thread -> Nat \ {0}] /\ status' \in [Thread -> BOOLEAN]
     BY <2>2 DEF Enter, Types
  <2> QED BY <2>1, <2>2, <2>3, <2>4 DEF Types, At
<1>3. ASSUME NEW k \in Kind, Look(t, k) PROVE Types'
  <2>1. pc' \in [Thread -> At] BY <1>1, <1>3 DEF Look, Go
  <2> QED BY <1>3, <2>1 DEF Look, Types, At
<1>4. ASSUME NEW k \in Kind, Skip(t, k) PROVE Types'
  <2>1. pc' \in [Thread -> At] BY <1>1, <1>4 DEF Skip, Return
  <2> QED BY <1>4, <2>1 DEF Skip, Types, At, call
<1>5. ASSUME NEW k \in Kind, PowerOff(t, k) PROVE Types'
   BY <1>5, WriteFacts DEF PowerOff
<1>6. ASSUME NEW k \in Kind, FamilyOff(t, k) PROVE Types'
  <2>1. pc' \in [Thread -> At] BY <1>1, <1>6 DEF FamilyOff, Return
  <2>2. ready' \in [Kind -> BOOLEAN]
    <3>1. (ready[k] /\ ~status[t]) \in BOOLEAN OBVIOUS
    <3> QED BY <1>6, <3>1 DEF FamilyOff, Types
  <2> QED BY <1>6, <2>1, <2>2 DEF FamilyOff, Types, At, call
<1> QED BY <1>2, <1>3, <1>4, <1>5, <1>6 DEF Shutdown

LEMMA InitTypes ==
  ASSUME Types, InitBegin \/ (\E k \in Kind : PowerOn(k)) \/ DacsDone \/ InitEnd
  PROVE  Types' /\ pc'["cleaner"] = pc["cleaner"]
<1> USE Places, AtOf
<1>1. pc \in [Thread -> At] BY DEF Types, At
<1>2. CASE InitBegin
  <2>1. pc' \in [Thread -> At] /\ pc'["cleaner"] = pc["cleaner"]
     BY <1>1, <1>2 DEF InitBegin, Return
  <2>2. Enter("worker") /\ ready' = [k \in Kind |-> FALSE] /\ UNCHANGED power
     BY <1>2 DEF InitBegin
  <2>3. calls' \in 0..Calls BY <2>2, CodecsAssumption DEF Enter, Types
  <2>4. next' \in [Thread -> Nat \ {0}] /\ status' \in [Thread -> BOOLEAN]
     BY <2>2 DEF Enter, Types
  <2> QED BY <2>1, <2>2, <2>3, <2>4 DEF Types, At
<1>3. ASSUME NEW k \in Kind, PowerOn(k) PROVE Types' /\ pc' = pc
   BY <1>3, WriteFacts DEF PowerOn
<1>4. CASE DacsDone
  <2>1. pc' \in [Thread -> At] /\ pc'["cleaner"] = pc["cleaner"] BY <1>1, <1>4 DEF DacsDone, Go
  <2>2. ready' \in [Kind -> BOOLEAN] /\ next' \in [Thread -> Nat \ {0}]
    <3>1. (ready["dac"] \/ status["worker"]) \in BOOLEAN OBVIOUS
    <3> QED BY <1>4, <3>1 DEF DacsDone, Types
  <2> QED BY <1>4, <2>1, <2>2 DEF DacsDone, Types, At
<1>5. CASE InitEnd
  <2>1. pc' \in [Thread -> At] /\ pc'["cleaner"] = pc["cleaner"] BY <1>1, <1>5 DEF InitEnd, Return
  <2>2. ready' \in [Kind -> BOOLEAN]
    <3>1. (ready["adc"] \/ status["worker"]) \in BOOLEAN OBVIOUS
    <3> QED BY <1>5, <3>1 DEF InitEnd, Types
  <2> QED BY <1>5, <2>1, <2>2 DEF InitEnd, Types, At, call
<1> QED BY <1>2, <1>3, <1>4, <1>5

----------------------------------------------------------------------------
(* Promises. *)

\* cleanup() does not come back, and nothing is promised beside it.
LEMMA CleanerLeaves ==
  ASSUME Types, Shutdown("cleaner")
  PROVE  ~Alone'
<1> USE Places DEF Alone, Types
<1>1. CASE ShutdownNothing("cleaner") \/ ShutdownBegin("cleaner")
   BY <1>1 DEF ShutdownNothing, ShutdownBegin, Enter, Return
<1>2. ASSUME NEW k \in Kind, Look("cleaner", k) PROVE ~Alone'
   BY <1>2 DEF Look, Go
<1>3. ASSUME NEW k \in Kind, Skip("cleaner", k) PROVE ~Alone'
   BY <1>3 DEF Skip, Return
<1>4. ASSUME NEW k \in Kind, PowerOff("cleaner", k) PROVE ~Alone'
   BY <1>4, WriteFacts DEF PowerOff
<1>5. ASSUME NEW k \in Kind, FamilyOff("cleaner", k) PROVE ~Alone'
   BY <1>5 DEF FamilyOff, Return
<1> QED BY <1>1, <1>2, <1>3, <1>4, <1>5 DEF Shutdown

\* The chips of a family that are on stay on while the other family is written
\* or the same is powered on.
LEMMA OnKept ==
  ASSUME Types, NEW kind \in Kind, NEW n \in Nat,
         \A c \in Chip : power'[c] = power[c] \/ power'[c] = TRUE
  PROVE  /\ On(kind, n) => On(kind, n)'
         /\ AllOn(kind) => AllOn(kind)'
<1>1. \A i \in 1..Count(kind) : [kind |-> kind, index |-> i] \in Chip
   BY Chips DEF Count, Kind
<1>2. Count(kind) \in Nat BY CodecsAssumption DEF Count
<1> QED BY <1>1, <1>2 DEF On, AllOn

\* The loop over a family that is over has passed every chip of it.
LEMMA EveryOne ==
  ASSUME NEW kind \in Kind, NEW n \in Nat \ {0}, n > Count(kind), On(kind, n)
  PROVE  AllOn(kind)
<1>1. Count(kind) \in Nat BY CodecsAssumption DEF Count
<1> SUFFICES ASSUME NEW i \in 1..Count(kind) PROVE power[[kind |-> kind, index |-> i]]
   BY DEF AllOn
<1>2. i \in 1..(n - 1) /\ i <= Count(kind) BY <1>1
<1> QED BY <1>2 DEF On

LEMMA InitKeeps ==
  ASSUME IInv, Alone, InitBegin \/ (\E k \in Kind : PowerOn(k)) \/ DacsDone \/ InitEnd
  PROVE  IInv'
<1> USE Places DEF IInv, Types, Worker, Alone, Promises, Rising, Falling
<1>1. Types' /\ Alone' BY InitTypes
<1>2. CASE InitBegin
  <2>1. /\ Enter("worker") /\ UNCHANGED power /\ next'["worker"] = 1
        /\ \/ pc' = [pc EXCEPT !["worker"] = <<"on", "dac">>] /\ result' = None
           \/ Return("worker", "init", FALSE)
     BY <1>2 DEF InitBegin, Enter
  <2>2. On("dac", 1)' BY DEF On
  <2>3. CASE pc' = [pc EXCEPT !["worker"] = <<"on", "dac">>] /\ result' = None
    <3>1. pc'["worker"] = <<"on", "dac">> BY <2>3
    <3>2. Rising' BY <2>1, <2>2, <3>1
    <3>3. Promises' /\ Falling' BY <2>3, <3>1 DEF None
    <3> QED BY <1>1, <3>2, <3>3
  <2>4. CASE Return("worker", "init", FALSE)
    <3>1. pc'["worker"] = Idle /\ result' = [what |-> "init", ok |-> FALSE] BY <2>4 DEF Return
    <3>2. Rising' /\ Falling' BY <3>1
    <3>3. Promises' BY <3>1
    <3> QED BY <1>1, <3>2, <3>3
  <2> QED BY <2>1, <2>3, <2>4
<1>3. ASSUME NEW k \in Kind, PowerOn(k) PROVE IInv'
  <2>1. Worker("on", k) /\ WriteChip("worker", k, TRUE) BY <1>3 DEF PowerOn
  <2>2. /\ UNCHANGED <<ready, pc, result>>
        /\ next'["worker"] = next["worker"] + 1
        /\ status'["worker"] => status["worker"]
        /\ \A c \in Chip : power'[c] = power[c] \/ power'[c] = TRUE
        /\ status'["worker"] => power'[[kind |-> k, index |-> next["worker"]]] = TRUE
     BY <2>1, WriteFacts
  <2>3. \A f \in Kind : (AllOn(f) => AllOn(f)') /\ (On(f, next["worker"]) => \A i \in 1..(next["worker"]-1) : i <= Count(f) => power'[[kind |-> f, index |-> i]])
     BY <2>2, OnKept DEF On
  <2>4. status'["worker"] /\ On(k, next["worker"]) => On(k, next["worker"])'
    <3> DEFINE n == next["worker"]
    <3>1. n \in Nat \ {0} /\ next'["worker"] = n + 1 BY <2>2
    <3> HIDE DEF n
    <3> SUFFICES ASSUME status'["worker"], On(k, n), NEW i \in 1..n, i <= Count(k)
                 PROVE  power'[[kind |-> k, index |-> i]]
       BY <3>1 DEF On, n
    <3>2. CASE i = n BY <2>2, <3>2 DEF n
    <3>3. CASE i # n
      <4>1. i \in 1..(n - 1) BY <3>1, <3>3
      <4> QED BY <2>3, <4>1 DEF n
    <3> QED BY <3>2, <3>3
  <2> QED BY <1>1, <2>1, <2>2, <2>3, <2>4
<1>4. CASE DacsDone
  <2>1. /\ Worker("on", "dac") /\ pc' = [pc EXCEPT !["worker"] = <<"on", "adc">>]
        /\ next["worker"] > Dacs /\ next'["worker"] = 1 /\ UNCHANGED <<power, status, result>>
     BY <1>4 DEF DacsDone, Go
  <2>2. status["worker"] => AllOn("dac")
    <3>1. status["worker"] => On("dac", next["worker"]) BY <2>1
    <3>2. next["worker"] > Count("dac") BY <2>1 DEF Count
    <3> QED BY <3>1, <3>2, EveryOne
  <2>3. AllOn("dac") => AllOn("dac")' BY <2>1 DEF AllOn
  <2>4. On("adc", 1)' BY DEF On
  <2>5. pc'["worker"] = <<"on", "adc">> /\ result' = result BY <2>1
  <2>6. Rising' BY <2>1, <2>2, <2>3, <2>4, <2>5
  <2>7. Promises' /\ Falling' BY <2>1, <2>5 DEF None
  <2> QED BY <1>1, <2>6, <2>7
<1>5. CASE InitEnd
  <2>1. /\ Worker("on", "adc") /\ next["worker"] > Adcs /\ UNCHANGED power
        /\ pc'["worker"] = Idle /\ result' = [what |-> "init", ok |-> status["worker"]]
     BY <1>5 DEF InitEnd, Return
  <2>2. status["worker"] => AllOn("dac") /\ AllOn("adc")
    <3>1. status["worker"] => AllOn("dac") /\ On("adc", next["worker"]) BY <2>1
    <3>2. next["worker"] > Count("adc") BY <2>1 DEF Count
    <3> QED BY <3>1, <3>2, EveryOne
  <2>3. \A f \in Kind : AllOn(f) => AllOn(f)' BY <2>1 DEF AllOn
  <2> QED BY <1>1, <2>1, <2>2, <2>3
<1> QED BY <1>2, <1>3, <1>4, <1>5

\* The same of the loop that powers off.
LEMMA EveryOneOff ==
  ASSUME NEW kind \in Kind, NEW n \in Nat \ {0}, n > Count(kind), Off(kind, n)
  PROVE  \A c \in Chip : c.kind = kind => ~power[c]
<1>1. Count(kind) \in Nat BY CodecsAssumption DEF Count
<1> SUFFICES ASSUME NEW c \in Chip, c.kind = kind PROVE ~power[c]
   OBVIOUS
<1>2. c = [kind |-> kind, index |-> c.index] /\ c.index \in 1..Count(kind)
   BY Chips DEF Count
<1>3. c.index \in 1..(n - 1) /\ c.index <= Count(kind) BY <1>1, <1>2
<1> QED BY <1>2, <1>3 DEF Off

LEMMA ShutdownKeeps ==
  ASSUME IInv, Alone, Shutdown("worker")
  PROVE  Alone' => Promises' /\ Rising' /\ Falling'
<1> SUFFICES ASSUME Alone' PROVE Promises' /\ Rising' /\ Falling'
   OBVIOUS
<1> USE Places DEF IInv, Types, Worker, Alone, Promises, Rising, Falling
<1>1. CASE ShutdownNothing("worker")
  <2>1. pc'["worker"] = Idle /\ result' = [what |-> "shutdown", ok |-> TRUE]
     BY <1>1 DEF ShutdownNothing, Return
  <2> QED BY <2>1
<1>2. CASE ShutdownBegin("worker")
  <2>1. \/ pc' = [pc EXCEPT !["worker"] = <<"look", "adc">>] /\ result' = None
        \/ Return("worker", "shutdown", FALSE)
     BY <1>2 DEF ShutdownBegin
  <2>2. CASE pc' = [pc EXCEPT !["worker"] = <<"look", "adc">>] /\ result' = None
    <3>1. pc'["worker"] = <<"look", "adc">> BY <2>2
    <3> QED BY <2>2, <3>1 DEF None
  <2>3. CASE Return("worker", "shutdown", FALSE)
    <3>1. pc'["worker"] = Idle /\ result' = [what |-> "shutdown", ok |-> FALSE] BY <2>3 DEF Return
    <3> QED BY <3>1
  <2> QED BY <2>1, <2>2, <2>3
<1>3. ASSUME NEW k \in Kind, Look("worker", k) PROVE Promises' /\ Rising' /\ Falling'
  <2>1. /\ Worker("look", k) /\ pc'["worker"] = <<"off", k>> /\ next'["worker"] = 1
        /\ UNCHANGED result
     BY <1>3 DEF Look, Go
  <2>2. Off(k, 1)' BY DEF Off
  <2>3. Falling' BY <2>1, <2>2
  <2> QED BY <2>1, <2>3 DEF None
<1>4. ASSUME NEW k \in Kind, Skip("worker", k) PROVE Promises' /\ Rising' /\ Falling'
  <2>1. CASE k = "adc"
    <3>1. Worker("look", k) /\ pc'["worker"] = <<"look", "dac">> /\ UNCHANGED result
       BY <1>4, <2>1 DEF Skip
    <3> QED BY <3>1 DEF None
  <2>2. CASE k = "dac"
    <3>1. pc'["worker"] = Idle /\ result' = [what |-> "shutdown", ok |-> status["worker"]]
       BY <1>4, <2>2 DEF Skip, Return
    <3> QED BY <3>1
  <2> QED BY <2>1, <2>2
<1>5. ASSUME NEW k \in Kind, PowerOff("worker", k) PROVE Promises' /\ Rising' /\ Falling'
  <2>1. Worker("off", k) /\ WriteChip("worker", k, FALSE) BY <1>5 DEF PowerOff
  <2>2. /\ UNCHANGED <<ready, pc, result>>
        /\ next'["worker"] = next["worker"] + 1
        /\ status'["worker"] => status["worker"]
        /\ \A c \in Chip : power'[c] = power[c] \/ power'[c] = FALSE
        /\ status'["worker"] => power'[[kind |-> k, index |-> next["worker"]]] = FALSE
     BY <2>1, WriteFacts
  <2>3. status'["worker"] => Off(k, next["worker"])'
    <3> DEFINE n == next["worker"]
    <3>1. n \in Nat \ {0} /\ next'["worker"] = n + 1 BY <2>2
    <3>2. status'["worker"] => Off(k, n) BY <2>1, <2>2
    <3> HIDE DEF n
    <3> SUFFICES ASSUME status'["worker"], NEW i \in 1..n, i <= Count(k)
                 PROVE  ~power'[[kind |-> k, index |-> i]]
       BY <3>1 DEF Off, n
    <3>3. CASE i = n BY <2>2, <3>3 DEF n
    <3>4. CASE i # n
      <4>1. i \in 1..(n - 1) BY <3>1, <3>4
      <4>2. ~power[[kind |-> k, index |-> i]] BY <3>2, <4>1 DEF Off
      <4>3. [kind |-> k, index |-> i] \in Chip
        <5>1. i \in 1..Count(k) BY <3>1, CodecsAssumption DEF Count
        <5> QED BY <5>1, Chips DEF Count
      <4> QED BY <2>2, <4>2, <4>3
    <3> QED BY <3>3, <3>4
  <2>4. Falling' BY <2>1, <2>2, <2>3
  <2> QED BY <2>1, <2>2, <2>4 DEF None
<1>6. ASSUME NEW k \in Kind, FamilyOff("worker", k) PROVE Promises' /\ Rising' /\ Falling'
  <2>1. Worker("off", k) BY <1>6 DEF FamilyOff
  <2>2. CASE k = "adc"
    <3>1. pc'["worker"] = <<"look", "dac">> /\ UNCHANGED result BY <1>6, <2>2 DEF FamilyOff
    <3> QED BY <2>1, <3>1 DEF None
  <2>3. CASE k = "dac"
    <3>1. pc'["worker"] = Idle /\ result' = [what |-> "shutdown", ok |-> status["worker"]]
       BY <1>6, <2>3 DEF FamilyOff, Return
    <3> QED BY <3>1
  <2> QED BY <2>2, <2>3
<1> QED BY <1>1, <1>2, <1>3, <1>4, <1>5, <1>6 DEF Shutdown

----------------------------------------------------------------------------
LEMMA Starts == Init => IInv
<1> SUFFICES ASSUME Init PROVE IInv
   OBVIOUS
<1>1. Types BY CodecsAssumption, Places DEF Init, Types
<1>2. pc["worker"] = Idle /\ result = None BY Places DEF Init
<1> QED BY <1>1, <1>2, Places DEF IInv, Promises, Rising, Falling, Worker, None

LEMMA Inductive == IInv /\ [Next]_vars => IInv'
<1> SUFFICES ASSUME IInv, [Next]_vars PROVE IInv'
   OBVIOUS
<1>1. CASE InitBegin \/ (\E k \in Kind : PowerOn(k)) \/ DacsDone \/ InitEnd
  <2>1. CASE Alone BY <1>1, <2>1, InitKeeps
  <2>2. CASE ~Alone BY <1>1, <2>2, InitTypes DEF IInv, Alone
  <2> QED BY <2>1, <2>2
<1>2. CASE Shutdown("cleaner")
   BY <1>2, CleanerLeaves, ShutdownTypes, Places DEF IInv
<1>3. CASE Shutdown("worker")
  <2>1. Types' BY <1>3, ShutdownTypes, Places DEF IInv
  <2>2. CASE Alone BY <1>3, <2>1, <2>2, ShutdownKeeps DEF IInv
  <2>3. CASE ~Alone
    <3>1. pc'["cleaner"] = pc["cleaner"]
       BY <1>3, Places
       DEF Shutdown, ShutdownNothing, ShutdownBegin, Look, Skip, PowerOff, FamilyOff, WriteChip,
           Return, Go, IInv, Types
    <3> QED BY <2>1, <2>3, <3>1 DEF IInv, Alone
  <2> QED BY <2>2, <2>3
<1>4. CASE UNCHANGED vars
   BY <1>4
   DEF vars, IInv, Types, Alone, Promises, Rising, Falling, Worker, On, AllOn, Off
<1> QED BY <1>1, <1>2, <1>3, <1>4 DEF Next, Finished, Thread

LEMMA Invariant == Spec => []IInv
BY Starts, Inductive, PTL DEF Spec

\* For any number of chips, calls and failures the variables keep their types.
THEOREM TypesHold == Spec => []TypeOK
<1>1. IInv => TypeOK BY DEF IInv, Types, TypeOK
<1> QED BY <1>1, Invariant, PTL

\* audio_codecs_init() that returned true has configured every chip, whatever
\* the calls before it left, for any number of chips.
THEOREM InitPromises == Spec => []InitMeansOn
<1>1. IInv => InitMeansOn
  <2> SUFFICES ASSUME IInv, result.what = "init", result.ok, Alone, NEW c \in Chip PROVE power[c]
     BY DEF InitMeansOn, Alone
  <2> QED BY Chips DEF IInv, Promises, AllOn, Count
<1> QED BY <1>1, Invariant, PTL

\* A family that an initialisation has marked stays marked, whatever fails,
\* until a shutdown has powered off every chip of it, an initialisation starts
\* over or cleanup() begins, for any number of chips and calls.
THEOREM MarksKept == Spec => KnownUntilOff
<1> DEFINE Cleared(k) == ready[k] /\ ~ready'[k] /\ Alone
           Excused(k) == \/ pc'["worker"] = <<"on", "dac">> \/ result'.what = "init"
                         \/ \A c \in Chip : c.kind = k => ~power'[c]
<1>1. IInv /\ [Next]_vars => [\A k \in Kind : Cleared(k) => Excused(k)]_vars
  <2> SUFFICES ASSUME IInv, [Next]_vars, NEW k \in Kind, Cleared(k) PROVE Excused(k)
     OBVIOUS
  <2>1. CASE InitBegin
    <3>1. pc'["worker"] = <<"on", "dac">> \/ result'.what = "init"
       BY <2>1, Places DEF InitBegin, Return, IInv, Types
    <3> QED BY <3>1
  <2>2. CASE (\E f \in Kind : PowerOn(f)) \/ DacsDone \/ InitEnd \/ Finished \/ UNCHANGED vars
     BY <2>2 DEF PowerOn, WriteChip, DacsDone, InitEnd, Finished, vars, IInv, Types, Kind
  <2>3. CASE Shutdown("cleaner")
     BY <2>3, Places
     DEF Shutdown, ShutdownNothing, ShutdownBegin, Look, Skip, PowerOff, WriteChip, FamilyOff,
         Go, Alone
  <2>4. CASE Shutdown("worker")
    <3>1. FamilyOff("worker", k)
      <4>1. PICK f \in Kind : FamilyOff("worker", f)
         BY <2>4 DEF Shutdown, ShutdownNothing, ShutdownBegin, Look, Skip, PowerOff, WriteChip
      <4> QED BY <4>1 DEF FamilyOff, IInv, Types
    <3>2. status["worker"] /\ Worker("off", k) /\ next["worker"] > Count(k) /\ UNCHANGED power
       BY <3>1 DEF FamilyOff, Worker, IInv, Types
    <3>3. Off(k, next["worker"]) /\ next["worker"] \in Nat \ {0}
       BY <3>2, Places DEF IInv, Falling, Types
    <3> QED BY <3>2, <3>3, EveryOneOff
  <2> QED BY <2>1, <2>2, <2>3, <2>4 DEF Next, Thread
<1>2. KnownUntilOff <=> [][\A k \in Kind : Cleared(k) => Excused(k)]_vars
   BY DEF KnownUntilOff, Alone
<1> QED BY <1>1, <1>2, Invariant, PTL DEF Spec

=============================================================================
