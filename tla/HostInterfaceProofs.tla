------------------------ MODULE HostInterfaceProofs ------------------------
(***************************************************************************)
(* Proofs about HostInterface, for any queue, buffer, frame and number of  *)
(* frames and commands: what the GUI receives on the log port and on the   *)
(* data port, and what becomes of its commands.                            *)
(* The indices of the queue are the counters of lines, reduced: a line     *)
(* that is taken leads to the next by one more than a multiple of          *)
(* QueueSize, however often the queue was overrun between the two.         *)
(* Of the commands, what counts is the part of a line that has been read   *)
(* together with what is on its way (Unread).                              *)
(***************************************************************************)
EXTENDS HostInterface, SequenceTheorems, TLAPS

----------------------------------------------------------------------------
(* Division. *)

LEMMA Remainder ==
  ASSUME NEW n \in Nat \ {0}, NEW a \in Int
  PROVE  /\ a % n \in 0..n - 1
         /\ a \div n \in Int /\ a = (a \div n) * n + (a % n)
<1>1. a % n \in 0..n - 1 BY Z3
<1>2. a \div n \in Int BY Z3
<1>3. a = (a \div n) * n + (a % n) BY Z3
<1> QED BY <1>1, <1>2, <1>3

LEMMA Unique ==
  ASSUME NEW n \in Nat \ {0}, NEW q \in Int, NEW r \in 0..n - 1
  PROVE  (q * n + r) % n = r /\ (q * n + r) \div n = q
<1>1. (q * n + r) % n = r BY Z3
<1>2. (q * n + r) \div n = q BY Z3
<1> QED BY <1>1, <1>2

LEMMA TimesNext ==
  ASSUME NEW n \in Nat \ {0}, NEW q \in Int
  PROVE  q * n \in Int /\ (q + 1) * n = q * n + n
BY Z3

LEMMA Step ==
  ASSUME NEW n \in Nat \ {0}, NEW a \in Int
  PROVE  /\ (a + 1) % n = IF a % n = n - 1 THEN 0 ELSE (a % n) + 1
         /\ (a + 1) \div n = IF a % n = n - 1 THEN (a \div n) + 1 ELSE a \div n
<1> DEFINE q == a \div n
           r == a % n
<1>1. q \in Int /\ r \in 0..n - 1 /\ a = q * n + r BY Remainder
<1> HIDE DEF q, r
<1>2. q * n \in Int /\ (q + 1) * n = q * n + n BY <1>1, TimesNext
<1>3. CASE r = n - 1
  <2>1. a + 1 = (q + 1) * n + 0 BY <1>1, <1>2, <1>3
  <2>2. q + 1 \in Int /\ 0 \in 0..n - 1 BY <1>1
  <2>3. (a + 1) % n = 0 /\ (a + 1) \div n = q + 1 BY <2>1, <2>2, Unique
  <2> QED BY <1>3, <2>3 DEF q, r
<1>4. CASE r # n - 1
  <2>1. a + 1 = q * n + (r + 1) /\ r + 1 \in 0..n - 1 BY <1>1, <1>2, <1>4
  <2>2. (a + 1) % n = r + 1 /\ (a + 1) \div n = q BY <1>1, <2>1, Unique
  <2> QED BY <1>4, <2>2 DEF q, r
<1> QED BY <1>3, <1>4

\* Numbers with the same remainder differ by a multiple.
LEMMA SameRemainder ==
  ASSUME NEW n \in Nat \ {0}, NEW a \in Int, NEW b \in Int, a % n = b % n
  PROVE  \E j \in Int : b = a + j * n
<1>1. /\ a \div n \in Int /\ a = (a \div n) * n + (a % n)
      /\ b \div n \in Int /\ b = (b \div n) * n + (b % n) /\ a % n \in 0..n - 1
   BY Remainder
<1> DEFINE j == (b \div n) - (a \div n)
<1>2. j * n = (b \div n) * n - (a \div n) * n BY <1>1, Z3
<1>3. j \in Int /\ (a \div n) * n \in Int /\ (b \div n) * n \in Int BY <1>1, TimesNext
<1>4. b = a + j * n BY <1>1, <1>2, <1>3
<1> HIDE DEF j
<1> QED BY <1>3, <1>4

LEMMA Multiples ==
  ASSUME NEW n \in Nat \ {0}, NEW j \in Int
  PROVE  /\ j * n \in Int /\ (j * n) % n = 0
         /\ j >= 0 => j * n >= 0
         /\ j < 0 => j * n <= -n
<1>1. (j * n + 0) % n = 0 BY Unique
<1>2. j * n \in Int BY TimesNext
<1>3. j >= 0 => j * n >= 0 BY Z3
<1>4. j < 0 => j * n <= -n BY Z3
<1> QED BY <1>1, <1>2, <1>3, <1>4

----------------------------------------------------------------------------
(* The log. *)

\* The line taken after line m.
Follows(m, x) == m < x /\ (x - m - 1) % QueueSize = 0

LogTypes ==
  /\ queue \in [0..QueueSize - 1 -> Nat] /\ lines \in Nat /\ log \in Seq(Nat)
  /\ writer \in [at : {"take", "wait", "send"}, msg : Nat]

\* Each slot has the last line that was put in it, and the indices have counted
\* the lines, the head those up to the line the writer took last.
Slot(s) ==
  IF lines <= s THEN queue[s] = Empty
  ELSE queue[s] \in 1..lines /\ (queue[s] - 1) % QueueSize = s /\ queue[s] + QueueSize > lines

Indices ==
  /\ tail = lines % QueueSize /\ head = writer.msg % QueueSize /\ writer.msg <= lines
  /\ \A s \in 0..QueueSize - 1 : Slot(s)

\* What the GUI received last is the line taken last, or the one before it.
Received ==
  /\ "log" \notin accepted => log = <<>>
  /\ writer.at = "send" => writer.msg # Empty
  /\ gui # "gone" /\ log # <<>> =>
       IF writer.at = "send" THEN Follows(log[Len(log)], writer.msg) ELSE log[Len(log)] = writer.msg
  /\ LinesInOrder

LogInv == LogTypes /\ Indices /\ Received

LEMMA QueueFacts == QueueSize \in Nat \ {0}
BY HostAssumption

LEMMA IndexFacts ==
  ASSUME LogTypes, Indices
  PROVE  head \in 0..QueueSize - 1 /\ tail \in 0..QueueSize - 1
<1>1. lines \in Int /\ writer.msg \in Int BY DEF LogTypes
<1> QED BY <1>1, QueueFacts, Remainder DEF Indices

\* A remainder of a small number is the number.
LEMMA Small ==
  ASSUME NEW a \in 0..QueueSize - 1
  PROVE  a % QueueSize = a
<1>1. (0 * QueueSize + a) % QueueSize = a BY QueueFacts, Unique
<1> QED BY <1>1, QueueFacts

\* What is in the slot of the head follows what was taken from the queue last.
LEMMA HeadFollows ==
  ASSUME LogTypes, Indices, head # tail
  PROVE  /\ queue[head] \in 1..lines /\ Follows(writer.msg, queue[head])
         /\ (head + 1) % QueueSize = queue[head] % QueueSize
<1> DEFINE n == QueueSize
           m == writer.msg
           x == queue[head]
<1>1. n \in Nat \ {0} /\ m \in Nat /\ lines \in Nat /\ m <= lines /\ x \in Nat
   BY QueueFacts, IndexFacts DEF LogTypes, Indices
<1>2. head \in 0..n - 1 /\ head = m % n /\ tail = lines % n /\ Slot(head)
   BY IndexFacts DEF Indices
<1>3. ~(lines <= head)
  <2> SUFFICES ASSUME lines <= head PROVE FALSE
     OBVIOUS
  <2>1. lines \in 0..n - 1 /\ m \in 0..n - 1 BY <1>1, <1>2
  <2>2. tail = lines /\ head = m BY <1>2, <2>1, Small
  <2> QED BY <1>1, <2>2
<1>4. x \in 1..lines /\ (x - 1) % n = head /\ x + n > lines BY <1>2, <1>3 DEF Slot
<1> HIDE DEF n, m, x
<1>5. PICK j \in Int : x - 1 = m + j * n
  <2>1. m \in Int /\ x - 1 \in Int /\ m % n = (x - 1) % n BY <1>1, <1>2, <1>4
  <2> QED BY <1>1, <2>1, SameRemainder
<1>6. j >= 0
  <2> SUFFICES ASSUME j < 0 PROVE FALSE
     BY <1>5
  <2>1. j * n \in Int /\ j * n <= -n BY <1>1, <1>5, Multiples
  <2>2. m = lines BY <1>1, <1>4, <1>5, <2>1
  <2> QED BY <1>2, <2>2
<1>7. j * n \in Int /\ j * n >= 0 /\ (j * n) % n = 0 BY <1>1, <1>5, <1>6, Multiples
<1>8. m < x /\ x - m - 1 = j * n BY <1>1, <1>5, <1>7
<1>9. Follows(m, x) BY <1>7, <1>8 DEF Follows, n
<1>10. (head + 1) % n = x % n
  <2>1. head % n = head BY <1>2, Small DEF n
  <2>2. x - 1 \in Int /\ head \in Int /\ (x - 1) + 1 = x BY <1>1, <1>2
  <2>3. (head + 1) % n = ((x - 1) + 1) % n BY <1>1, <1>4, <2>1, <2>2, Step
  <2> QED BY <2>2, <2>3
<1> QED BY <1>4, <1>9, <1>10 DEF n, m, x

LEMMA EnqueueKeeps ==
  ASSUME LogInv, Enqueue, UNCHANGED <<gui, accepted>>
  PROVE  LogInv'
<1> DEFINE n == QueueSize
<1>1. /\ n \in Nat \ {0} /\ lines \in Nat /\ tail \in 0..n - 1 /\ tail = lines % n
      /\ queue \in [0..n - 1 -> Nat]
   BY QueueFacts, IndexFacts DEF LogInv, LogTypes, Indices
<1>2. /\ lines' = lines + 1 /\ queue' = [queue EXCEPT ![tail] = lines + 1]
      /\ tail' = (tail + 1) % n /\ UNCHANGED <<head, log>>
      /\ writer' = [writer EXCEPT !.at = IF @ = "wait" THEN "take" ELSE @]
   BY DEF Enqueue
<1> HIDE DEF n
<1>3. writer'.msg = writer.msg /\ (writer'.at = "send" <=> writer.at = "send") /\ LogTypes'
  <2>1. writer \in [at : {"take", "wait", "send"}, msg : Nat] BY DEF LogInv, LogTypes
  <2>2. writer' \in [at : {"take", "wait", "send"}, msg : Nat] => LogTypes'
    <3>1. queue' \in [0..n - 1 -> Nat] /\ lines' \in Nat BY <1>1, <1>2
    <3>2. log' \in Seq(Nat) BY <1>2 DEF LogInv, LogTypes
    <3> QED BY <3>1, <3>2 DEF LogTypes, n
  <2>3. CASE writer.at = "wait"
    <3>1. writer' = [writer EXCEPT !.at = "take"] BY <1>2, <2>3
    <3>2. writer'.msg = writer.msg /\ writer'.at = "take" BY <2>1, <3>1
    <3>3. writer' \in [at : {"take", "wait", "send"}, msg : Nat] BY <2>1, <3>1
    <3> QED BY <2>2, <2>3, <3>2, <3>3
  <2>4. CASE writer.at # "wait"
    <3>1. writer' = writer BY <1>2, <2>1, <2>4
    <3> QED BY <2>2, <2>1, <3>1
  <2> QED BY <2>3, <2>4
<1>4. tail' = lines' % n
  <2>1. tail % n = tail /\ tail \in Int /\ lines \in Int BY <1>1, Small DEF n
  <2>2. (tail + 1) % n = IF tail = n - 1 THEN 0 ELSE tail + 1 BY <1>1, <2>1, Step
  <2>3. (lines + 1) % n = IF tail = n - 1 THEN 0 ELSE tail + 1 BY <1>1, <2>1, Step
  <2> QED BY <1>2, <2>2, <2>3
<1>5. ASSUME NEW s \in 0..n - 1 PROVE Slot(s)'
  <2>1. CASE s = tail
    <3>1. queue'[s] = lines + 1 /\ (queue'[s] - 1) % n = s BY <1>1, <1>2, <2>1
    <3>2. s <= lines
      <4>1. CASE lines < n BY <1>1, <2>1, <4>1, Small DEF n
      <4>2. CASE lines >= n BY <1>1, <1>5, <4>2
      <4> QED BY <1>1, <4>1, <4>2
    <3> QED BY <1>1, <1>2, <1>5, <3>1, <3>2 DEF Slot, n
  <2>2. CASE s # tail
    <3>1. queue'[s] = queue[s] /\ queue[s] \in Nat BY <1>1, <1>2, <1>5, <2>2
    <3>2. Slot(s) BY <1>5 DEF LogInv, Indices, n
    <3>3. CASE lines <= s
      <4>1. lines # s
        <5>1. lines = s => lines % n = s BY <1>5, Small DEF n
        <5> QED BY <1>1, <2>2, <5>1
      <4> QED BY <1>1, <1>2, <1>5, <3>1, <3>2, <3>3, <4>1 DEF Slot
    <3>4. CASE ~(lines <= s)
      <4>1. queue[s] \in 1..lines /\ (queue[s] - 1) % n = s /\ queue[s] + n > lines
         BY <3>2, <3>4 DEF Slot, n
      <4>2. queue[s] + n # lines + 1
        <5> SUFFICES ASSUME queue[s] + n = lines + 1 PROVE FALSE
           OBVIOUS
        <5>1. PICK q \in Int : queue[s] - 1 = q * n + s
          <6>1. queue[s] - 1 \in Int BY <3>1
          <6>2. LET q == (queue[s] - 1) \div n IN q \in Int /\ queue[s] - 1 = q * n + s
             BY <1>1, <4>1, <6>1, Remainder
          <6> QED BY <6>2
        <5>2. q * n \in Int /\ (q + 1) * n = q * n + n /\ q + 1 \in Int BY <1>1, <5>1, TimesNext
        <5>3. lines = (q + 1) * n + s BY <1>1, <1>5, <3>1, <5>1, <5>2
        <5>4. lines % n = s BY <1>1, <1>5, <5>2, <5>3, Unique
        <5> QED BY <1>1, <2>2, <5>4
      <4>3. queue'[s] \in 1..lines' /\ (queue'[s] - 1) % n = s /\ queue'[s] + n > lines'
        <5>1. lines' = lines + 1 /\ lines \in Nat /\ n \in Nat /\ n >= 1 BY <1>1, <1>2
        <5>2. queue[s] \in 1..(lines + 1) /\ queue[s] + n > lines + 1 BY <3>1, <4>1, <4>2, <5>1
        <5> QED BY <3>1, <4>1, <5>1, <5>2
      <4>4. ~(lines' <= s) BY <1>1, <1>2, <1>5, <3>4
      <4> QED BY <4>3, <4>4 DEF Slot, n
    <3> QED BY <3>3, <3>4
  <2> QED BY <2>1, <2>2
<1>6. Indices' BY <1>1, <1>2, <1>3, <1>4, <1>5 DEF LogInv, LogTypes, Indices, n
<1>7. Received' BY <1>2, <1>3 DEF LogInv, Received, Follows, LinesInOrder, Empty
<1> QED BY <1>3, <1>6, <1>7 DEF LogInv

LEMMA TakeKeeps ==
  ASSUME LogInv, Take
  PROVE  LogInv'
<1>1. UNCHANGED <<gui, accepted, queue, tail, lines, log>> /\ writer.at = "take" BY DEF Take
<1>2. CASE head = tail
  <2>1. writer' = [writer EXCEPT !.at = "wait"] /\ UNCHANGED head BY <1>2 DEF Take
  <2>2. writer'.msg = writer.msg /\ writer'.at = "wait" /\ LogTypes'
     BY <1>1, <2>1 DEF LogInv, LogTypes
  <2>3. Indices' BY <1>1, <2>1, <2>2 DEF LogInv, Indices, Slot
  <2>4. Received' BY <1>1, <2>2 DEF LogInv, Received, LinesInOrder
  <2> QED BY <2>2, <2>3, <2>4 DEF LogInv
<1>3. CASE head # tail
  <2>1. writer' = [at |-> "send", msg |-> queue[head]] /\ head' = (head + 1) % QueueSize
     BY <1>3 DEF Take
  <2>2. /\ queue[head] \in 1..lines /\ Follows(writer.msg, queue[head])
        /\ (head + 1) % QueueSize = queue[head] % QueueSize
     BY <1>3, HeadFollows DEF LogInv
  <2>3. LogTypes' BY <1>1, <2>1, <2>2 DEF LogInv, LogTypes
  <2>4. Indices' BY <1>1, <2>1, <2>2 DEF LogInv, LogTypes, Indices, Slot
  <2>5. queue[head] # Empty BY <2>2 DEF Empty
  <2>6. Received' BY <1>1, <2>1, <2>2, <2>5 DEF LogInv, Received, LinesInOrder, Follows
  <2> QED BY <2>3, <2>4, <2>6 DEF LogInv
<1> QED BY <1>2, <1>3

LEMMA WriteLineKeeps ==
  ASSUME LogInv, WriteLine
  PROVE  LogInv'
<1>1. /\ UNCHANGED <<gui, accepted, queue, head, tail, lines>> /\ writer.at = "send"
      /\ writer' = [writer EXCEPT !.at = "take"]
   BY DEF WriteLine
<1>2. writer'.msg = writer.msg /\ writer'.at = "take" /\ writer' \in [at : {"take", "wait", "send"}, msg : Nat]
   BY <1>1 DEF LogInv, LogTypes
<1>3. Indices' BY <1>1, <1>2 DEF LogInv, Indices, Slot
<1>4. CASE "log" \notin accepted \/ gui = "gone"
  <2>1. log' = log BY <1>4 DEF WriteLine
  <2>2. Received' BY <1>1, <1>2, <1>4, <2>1 DEF LogInv, Received, LinesInOrder
  <2> QED BY <1>1, <1>2, <1>3, <2>1, <2>2 DEF LogInv, LogTypes
<1>5. CASE "log" \in accepted /\ gui # "gone"
  <2> DEFINE k == Len(log)
             m == writer.msg
  <2>1. log' = Append(log, m) BY <1>5 DEF WriteLine
  <2>2. k \in Nat /\ m \in Nat /\ m # Empty /\ log \in Seq(Nat) BY <1>1 DEF LogInv, LogTypes, Received
  <2>3. /\ log' \in Seq(Nat) /\ Len(log') = k + 1 /\ log'[k + 1] = m
        /\ \A i \in 1..k : log'[i] = log[i]
     BY <2>1, <2>2
  <2>4. k > 0 => Follows(log[k], m) BY <1>1, <1>5, <2>2 DEF LogInv, Received
  <2>5. LinesInOrder'
    <3>1. \A i \in 1..k : log[i] # Empty BY <2>2 DEF LogInv, Received, LinesInOrder
    <3>2. \A i \in 1..(k + 1) : log'[i] # Empty BY <2>2, <2>3, <3>1
    <3>3. ASSUME NEW i \in 1..k
          PROVE  log'[i] < log'[i + 1] /\ (log'[i + 1] - log'[i] - 1) % QueueSize = 0
      <4>1. CASE i = k BY <2>2, <2>3, <2>4, <4>1 DEF Follows
      <4>2. CASE i < k
        <5>1. i \in 1..(k - 1) /\ i + 1 \in 1..k BY <2>2, <3>3, <4>2
        <5>2. log'[i] = log[i] /\ log'[i + 1] = log[i + 1] BY <2>3, <5>1
        <5> QED BY <5>1, <5>2 DEF LogInv, Received, LinesInOrder
      <4> QED BY <2>2, <4>1, <4>2
    <3>4. DOMAIN log' = 1..(k + 1) /\ Len(log') - 1 = k BY <2>2, <2>3
    <3> QED BY <3>2, <3>3, <3>4 DEF LinesInOrder
  <2>6. Received' BY <1>1, <1>2, <1>5, <2>2, <2>3, <2>5 DEF LogInv, Received
  <2> QED BY <1>1, <1>2, <1>3, <2>3, <2>6 DEF LogInv, LogTypes
<1> QED BY <1>4, <1>5

\* A GUI that is gone does not come back.
LEMMA OthersKeepLog ==
  ASSUME LogInv, UNCHANGED logVars, accepted \subseteq accepted', gui = "gone" => gui' = "gone"
  PROVE  LogInv'
BY DEF LogInv, LogTypes, Indices, Slot, Received, Follows, LinesInOrder, logVars

----------------------------------------------------------------------------
(* The data port. *)

Place == FrameData + 1

\* The stream of n frames from frame f on.
Frames(sq, f, n) ==
  /\ Len(sq) = n * Place
  /\ \A i \in 1..Len(sq) :
       sq[i] = [frame |-> f + ((i - 1) \div Place), part |-> (i - 1) % Place]

\* The frame that is queued next.
Coming == IF audio.at = "summary" THEN audio.frame + 1 ELSE audio.frame

Part == [frame : Int, part : Nat]

\* What is held and what the GUI has are frames without a gap, up to the next.
DataInv ==
  /\ held \in Seq(Part) /\ data \in Seq(Part)
  /\ audio \in [at : {"log", "data", "summary"}, frame : Nat, summary : Nat]
  /\ "in" \notin accepted => data = <<>>
  /\ \E n \in Nat :
       /\ Frames(held, Coming - n, n)
       /\ \E m \in Nat, f \in Int :
            Frames(data, f, m) /\ (gui # "gone" /\ data # <<>> => f + m = Coming - n)

LEMMA PlaceFacts == Place \in Nat \ {0} /\ FrameData \in Nat \ {0}
BY HostAssumption DEF Place

LEMMA WholeOf ==
  ASSUME DataInv
  PROVE  FramesWhole
<1>1. PICK f \in Int, m \in Nat : Frames(data, f, m) BY DEF DataInv
<1>2. Place \in Nat \ {0} /\ FrameData + 1 = Place BY PlaceFacts DEF Place
<1>3. data \in Seq(Part) /\ Len(data) \in Nat /\ DOMAIN data = 1..Len(data) BY DEF DataInv
<1> SUFFICES ASSUME NEW i \in 1..Len(data)
             PROVE  LET place == (i - 1) % Place IN
                    /\ data[i].part = place
                    /\ i > 1 => data[i].frame = data[i - 1].frame + (IF place = 0 THEN 1 ELSE 0)
   BY <1>2, <1>3 DEF FramesWhole
<1>4. data[i].part = (i - 1) % Place /\ data[i].frame = f + ((i - 1) \div Place)
   BY <1>1 DEF Frames
<1>5. ASSUME i > 1
      PROVE  data[i].frame = data[i - 1].frame + (IF (i - 1) % Place = 0 THEN 1 ELSE 0)
  <2> DEFINE a == i - 2
  <2>1. a \in Int /\ a + 1 = i - 1 /\ i - 1 \in 1..Len(data) /\ (i - 1) - 1 = a
     BY <1>3, <1>5
  <2>2. data[i - 1].frame = f + (a \div Place) BY <1>1, <2>1 DEF Frames
  <2> HIDE DEF a
  <2>3. /\ (a + 1) % Place = IF a % Place = Place - 1 THEN 0 ELSE (a % Place) + 1
        /\ (a + 1) \div Place = IF a % Place = Place - 1 THEN (a \div Place) + 1 ELSE a \div Place
        /\ a % Place \in 0..Place - 1 /\ a \div Place \in Int
     BY <1>2, <2>1, Step, Remainder
  <2>4. (a + 1) \div Place = (a \div Place) + (IF (a + 1) % Place = 0 THEN 1 ELSE 0)
     BY <1>2, <2>3
  <2> QED BY <1>1, <1>4, <2>1, <2>2, <2>3, <2>4
<1> QED BY <1>4, <1>5

\* Streams one after another are one.
LEMMA Joined ==
  ASSUME NEW s \in Seq(Part), NEW t \in Seq(Part), NEW f \in Int, NEW m \in Nat, NEW n \in Nat,
         Frames(s, f, m), Frames(t, f + m, n)
  PROVE  s \o t \in Seq(Part) /\ Frames(s \o t, f, m + n)
<1> DEFINE p == Place
           st == s \o t
<1>1. p \in Nat \ {0} /\ m * p \in Int /\ n * p \in Int BY PlaceFacts, TimesNext
<1>2. (m + n) * p = m * p + n * p BY <1>1, Z3
<1>3. Len(s) = m * p /\ Len(t) = n * p /\ Len(s) \in Nat /\ Len(t) \in Nat BY DEF Frames
<1>4. st \in Seq(Part) /\ Len(st) = (m + n) * p BY <1>2, <1>3
<1>5. ASSUME NEW i \in 1..Len(st)
      PROVE  st[i] = [frame |-> f + ((i - 1) \div p), part |-> (i - 1) % p]
  <2>1. CASE i <= Len(s)
    <3>1. i \in 1..Len(s) /\ st[i] = s[i] BY <1>3, <1>5, <2>1
    <3> QED BY <3>1 DEF Frames
  <2>2. CASE ~(i <= Len(s))
    <3> DEFINE j == i - Len(s)
               q == (j - 1) \div p
               r == (j - 1) % p
    <3>1. j \in 1..Len(t) /\ st[i] = t[j] BY <1>2, <1>3, <1>4, <1>5, <2>2
    <3>2. t[j] = [frame |-> (f + m) + q, part |-> r] BY <3>1 DEF Frames
    <3>3. j - 1 \in Int BY <3>1
    <3>4. q \in Int /\ r \in 0..p - 1 /\ j - 1 = q * p + r BY <1>1, <3>3, Remainder
    <3>5. j = i - m * p /\ j \in Int /\ i \in Int BY <1>3, <1>5, <3>1
    <3> HIDE DEF j, q, r
    <3>6. (m + q) * p = m * p + q * p /\ q * p \in Int /\ m + q \in Int
      <4>1. (m + q) * p = m * p + q * p BY <1>1, <3>4, Z3
      <4> QED BY <1>1, <3>4, <4>1, TimesNext
    <3>7. i - 1 = (m + q) * p + r BY <1>1, <3>4, <3>5, <3>6
    <3>8. (i - 1) \div p = m + q /\ (i - 1) % p = r
      <4> DEFINE u == m + q
      <4>1. u \in Int /\ i - 1 = u * p + r BY <3>6, <3>7
      <4> HIDE DEF u
      <4>2. (u * p + r) % p = r /\ (u * p + r) \div p = u BY <1>1, <3>4, <4>1, Unique
      <4>3. (i - 1) \div p = u /\ (i - 1) % p = r BY <4>1, <4>2
      <4> QED BY <4>3 DEF u
    <3>9. (f + m) + q = f + (m + q) BY <3>4
    <3> QED BY <3>1, <3>2, <3>8, <3>9
  <2> QED BY <2>1, <2>2
<1> QED BY <1>4, <1>5 DEF Frames

LEMMA Concatenation ==
  ASSUME NEW s \in Seq(Part), NEW t \in Seq(Part)
  PROVE  /\ s \o t \in Seq(Part) /\ Len(s \o t) = Len(s) + Len(t)
         /\ \A i \in 1..Len(s) : (s \o t)[i] = s[i]
         /\ \A i \in 1..Len(t) : (s \o t)[Len(s) + i] = t[i]
OBVIOUS

\* What is queued of a frame is the stream of that frame.
LEMMA OneFrame ==
  ASSUME NEW k \in Nat
  PROVE  Tag(k) \o Samples(k) \in Seq(Part) /\ Frames(Tag(k) \o Samples(k), k, 1)
<1> DEFINE tag == Tag(k)
           samples == Samples(k)
           one == tag \o samples
<1>1. /\ tag \in Seq(Part) /\ Len(tag) = 1 /\ tag[1] = [frame |-> k, part |-> 0]
   BY DEF Tag, Part
<1>2. /\ samples \in Seq(Part) /\ Len(samples) = FrameData
      /\ \A i \in 1..FrameData : samples[i] = [frame |-> k, part |-> i]
   BY PlaceFacts DEF Samples, Part
<1> HIDE DEF tag, samples
<1>3. /\ one \in Seq(Part) /\ Len(one) = Len(tag) + Len(samples)
      /\ \A i \in 1..Len(tag) : one[i] = tag[i]
      /\ \A i \in 1..Len(samples) : one[Len(tag) + i] = samples[i]
   BY <1>1, <1>2, Concatenation
<1> HIDE DEF one
<1>4. one \in Seq(Part) /\ Len(one) = Place /\ Len(one) = 1 * Place
  <2>1. Len(one) = 1 + FrameData BY <1>3, <1>1, <1>2
  <2> QED BY <1>3, <2>1, PlaceFacts DEF Place
<1>5. ASSUME NEW i \in 1..Len(one) PROVE one[i] = [frame |-> k, part |-> i - 1]
  <2>1. CASE i = 1 BY <1>3, <1>1, <2>1
  <2>2. CASE i # 1
    <3>1. i - 1 \in 1..FrameData /\ one[i] = samples[i - 1]
      <4>1. i - 1 \in 1..FrameData /\ i = 1 + (i - 1) BY <1>4, <1>5, <2>2, PlaceFacts DEF Place
      <4> QED BY <1>3, <1>1, <1>2, <4>1
    <3> QED BY <1>2, <3>1
  <2> QED BY <2>1, <2>2
<1>6. ASSUME NEW i \in 1..Len(one) PROVE (i - 1) \div Place = 0 /\ (i - 1) % Place = i - 1
  <2> DEFINE b == i - 1
  <2>1. b \in 0..Place - 1 /\ 0 * Place + b = b BY <1>4, <1>6, PlaceFacts
  <2> HIDE DEF b
  <2>2. (0 * Place + b) \div Place = 0 /\ (0 * Place + b) % Place = b
     BY <2>1, PlaceFacts, Unique
  <2>3. b \div Place = 0 /\ b % Place = b BY <2>1, <2>2
  <2> QED BY <2>3 DEF b
<1>7. ASSUME NEW i \in 1..Len(one)
      PROVE  one[i] = [frame |-> k + ((i - 1) \div Place), part |-> (i - 1) % Place]
  <2>1. k + ((i - 1) \div Place) = k BY <1>6
  <2> QED BY <1>5, <1>6, <2>1
<1>8. one \in Seq(Part) /\ Frames(one, k, 1) BY <1>4, <1>7 DEF Frames
<1> QED BY <1>8 DEF tag, samples, one

LEMMA NoFrames ==
  ASSUME NEW f
  PROVE  Frames(<<>>, f, 0)
BY PlaceFacts DEF Frames

LEMMA ComingOf ==
  ASSUME DataInv
  PROVE  /\ audio.frame \in Nat /\ audio.summary \in Nat /\ Coming \in Nat
         /\ audio.at \in {"log", "data", "summary"}
BY DEF DataInv, Coming

\* A step of the audio thread that sends nothing, and every step beside it.
LEMMA OthersKeepData ==
  ASSUME DataInv, UNCHANGED dataVars, Coming' = Coming, accepted \subseteq accepted',
         audio' \in [at : {"log", "data", "summary"}, frame : Nat, summary : Nat],
         gui = "gone" => gui' = "gone"
  PROVE  DataInv'
<1>1. held' = held /\ data' = data BY DEF dataVars
<1>2. PICK n \in Nat, m \in Nat, f \in Int :
         /\ Frames(held, Coming - n, n) /\ Frames(data, f, m)
         /\ gui # "gone" /\ data # <<>> => f + m = Coming - n
   BY DEF DataInv
<1>3. /\ Frames(held', Coming' - n, n) /\ Frames(data', f, m)
      /\ gui' # "gone" /\ data' # <<>> => f + m = Coming' - n
   BY <1>1, <1>2
<1>4. held' \in Seq(Part) /\ data' \in Seq(Part) /\ ("in" \notin accepted' => data' = <<>>)
   BY <1>1 DEF DataInv
<1> QED BY <1>3, <1>4 DEF DataInv

LEMMA LogFrameKeeps ==
  ASSUME DataInv, LogFrame
  PROVE  DataInv'
<1>1. audio' = [audio EXCEPT !.at = "data"] /\ audio.at = "log" /\ UNCHANGED <<gui, accepted, dataVars>>
   BY DEF LogFrame
<1>2. audio' \in [at : {"log", "data", "summary"}, frame : Nat, summary : Nat]
   BY <1>1 DEF DataInv
<1>3. audio'.at = "data" /\ audio'.frame = audio.frame BY <1>1 DEF DataInv
<1>4. Coming' = Coming BY <1>1, <1>3 DEF Coming
<1> QED BY <1>1, <1>2, <1>4, OthersKeepData

LEMMA SummaryKeeps ==
  ASSUME DataInv, Summary
  PROVE  DataInv'
<1>1. audio.at = "summary" /\ UNCHANGED <<gui, accepted, dataVars>> BY DEF Summary
<1>2. CASE audio.summary > 1
  <2>1. audio' = [audio EXCEPT !.summary = @ - 1] BY <1>2 DEF Summary
  <2>2. audio' \in [at : {"log", "data", "summary"}, frame : Nat, summary : Nat]
    <3>1. audio.summary - 1 \in Nat BY <1>2, ComingOf
    <3> QED BY <2>1, <3>1 DEF DataInv
  <2>3. audio'.at = "summary" /\ audio'.frame = audio.frame BY <1>1, <2>1 DEF DataInv
  <2>4. Coming' = Coming BY <1>1, <2>3 DEF Coming
  <2> QED BY <1>1, <2>2, <2>4, OthersKeepData
<1>3. CASE ~(audio.summary > 1)
  <2>1. audio' = [at |-> "log", frame |-> audio.frame + 1, summary |-> 0] BY <1>3 DEF Summary
  <2>2. audio' \in [at : {"log", "data", "summary"}, frame : Nat, summary : Nat]
     BY <2>1, ComingOf
  <2>3. Coming' = Coming BY <1>1, <2>1 DEF Coming
  <2> QED BY <1>1, <2>2, <2>3, OthersKeepData
<1> QED BY <1>2, <1>3

LEMMA QueueFrameKeeps ==
  ASSUME DataInv, QueueFrame
  PROVE  DataInv'
<1> DEFINE k == audio.frame
           one == Tag(k) \o Samples(k)
<1>1. audio.at = "data" /\ UNCHANGED <<gui, accepted>> /\ audio' = NextFrame BY DEF QueueFrame
<1>2. k \in Nat /\ Coming = k BY <1>1, ComingOf DEF Coming
<1>3. /\ audio' \in [at : {"log", "data", "summary"}, frame : Nat, summary : Nat]
      /\ Coming' = k + 1
  <2>1. audio \in [at : {"log", "data", "summary"}, frame : Nat, summary : Nat] BY DEF DataInv
  <2>2. CASE k % SummaryEvery = 0 /\ SummaryLines > 0
    <3>1. audio' = [audio EXCEPT !.at = "summary", !.summary = SummaryLines]
       BY <1>1, <2>2 DEF NextFrame
    <3>2. SummaryLines \in Nat BY HostAssumption
    <3>3. audio'.at = "summary" /\ audio'.frame = k BY <2>1, <3>1
    <3> QED BY <2>1, <3>1, <3>2, <3>3 DEF Coming
  <2>3. CASE ~(k % SummaryEvery = 0 /\ SummaryLines > 0)
    <3>1. audio' = [audio EXCEPT !.at = "log", !.frame = @ + 1] BY <1>1, <2>3 DEF NextFrame
    <3>2. audio'.at = "log" /\ audio'.frame = k + 1 BY <2>1, <3>1
    <3>3. k + 1 \in Nat BY <1>2
    <3>4. audio' \in [at : {"log", "data", "summary"}, frame : Nat, summary : Nat]
       BY <2>1, <3>1, <3>3
    <3> QED BY <3>2, <3>4 DEF Coming
  <2> QED BY <2>2, <2>3
<1>4. one \in Seq(Part) /\ Frames(one, k, 1) BY <1>2, OneFrame
<1>5. PICK n \in Nat, m \in Nat, f \in Int :
         /\ Frames(held, k - n, n) /\ Frames(data, f, m)
         /\ gui # "gone" /\ data # <<>> => f + m = k - n
   BY <1>2 DEF DataInv
<1>6. held \in Seq(Part) /\ data \in Seq(Part) /\ ("in" \notin accepted => data = <<>>)
   BY DEF DataInv
<1> HIDE DEF k
<1>7. CASE Len(held) + 1 + FrameData > BufferSize
  <2>1. held' = one /\ Flush BY <1>7 DEF QueueFrame, k
  <2>2. Frames(held', Coming' - 1, 1)
    <3>1. Coming' - 1 = k BY <1>2, <1>3
    <3> QED BY <1>4, <2>1, <3>1
  <2>3. CASE "in" \notin accepted \/ gui = "gone"
    <3>1. data' = data BY <2>1, <2>3 DEF Flush
    <3>2. gui' = "gone" \/ data' = <<>> BY <1>1, <1>6, <2>3, <3>1
    <3>3. Frames(data', f, m) BY <1>5, <3>1
    <3> QED BY <1>1, <1>3, <1>4, <1>6, <2>1, <2>2, <3>1, <3>2, <3>3 DEF DataInv
  <2>4. CASE "in" \in accepted /\ gui # "gone"
    <3>1. data' = data \o held BY <2>1, <2>4 DEF Flush
    <3>2. CASE data = <<>>
      <4>1. data' = held BY <1>6, <3>1, <3>2
      <4>2. k - n \in Int /\ (k - n) + n = Coming' - 1 BY <1>2, <1>3, <1>5
      <4>3. Frames(data', k - n, n) BY <1>5, <4>1
      <4> QED BY <1>1, <1>3, <1>4, <1>5, <1>6, <2>1, <2>2, <2>4, <4>1, <4>2, <4>3 DEF DataInv
    <3>3. CASE data # <<>>
      <4>1. f + m = k - n BY <1>5, <2>4, <3>3
      <4>2. data' \in Seq(Part) /\ Frames(data', f, m + n) BY <1>5, <1>6, <3>1, <4>1, Joined
      <4>3. m + n \in Nat /\ f + (m + n) = Coming' - 1 BY <1>2, <1>3, <1>5, <4>1
      <4> QED BY <1>1, <1>3, <1>4, <1>5, <1>6, <2>1, <2>2, <2>4, <4>2, <4>3 DEF DataInv
    <3> QED BY <3>2, <3>3
  <2> QED BY <2>3, <2>4
<1>8. CASE ~(Len(held) + 1 + FrameData > BufferSize)
  <2>1. held' = (held \o Tag(k)) \o Samples(k) /\ data' = data BY <1>8 DEF QueueFrame, k
  <2>2. Tag(k) \in Seq(Part) /\ Samples(k) \in Seq(Part)
     BY <1>2, PlaceFacts DEF Tag, Samples, Part
  <2>3. held' = held \o one BY <1>6, <2>1, <2>2, ConcatAssociative
  <2>4. (k - n) + n = k /\ k - n \in Int BY <1>2, <1>5
  <2>5. held' \in Seq(Part) /\ Frames(held', k - n, n + 1)
    <3> HIDE DEF one
    <3>1. /\ held \in Seq(Part) /\ one \in Seq(Part)
          /\ Frames(held, k - n, n) /\ Frames(one, (k - n) + n, 1)
       BY <1>4, <1>5, <1>6, <2>4
    <3>2. n \in Nat /\ 1 \in Nat /\ k - n \in Int BY <1>5, <2>4
    <3>3. held \o one \in Seq(Part) /\ Frames(held \o one, k - n, n + 1)
       BY <3>1, <3>2, Joined
    <3> QED BY <2>3, <3>3
  <2>6. n + 1 \in Nat /\ Coming' - (n + 1) = k - n BY <1>2, <1>3, <1>5
  <2>7. Frames(data', f, m) /\ (gui' # "gone" /\ data' # <<>> => f + m = Coming' - (n + 1))
     BY <1>1, <1>5, <2>1, <2>6
  <2>8. Frames(held', Coming' - (n + 1), n + 1) BY <2>5, <2>6
  <2> QED BY <1>1, <1>3, <1>6, <2>1, <2>5, <2>6, <2>7, <2>8 DEF DataInv
<1> QED BY <1>7, <1>8

----------------------------------------------------------------------------
(* The commands: what of them has not been applied yet. *)

Unread == linebuf \o wire

\* Every value is followed by a newline, on the board or still on its way.
Complete ==
  /\ linebuf \in Seq({0, 1, NewLine}) /\ wire \in Seq({0, 1, NewLine})
  /\ linebuf # <<>> => Len(linebuf) = 1 /\ linebuf[1] # NewLine
  /\ \A i \in 1..Len(Unread) : Unread[i] # NewLine => i < Len(Unread) /\ Unread[i + 1] = NewLine

\* The last one that has not been applied is the last that was asked; if there
\* is none, the filter is as asked.
Following ==
  /\ \A i \in 1..Len(Unread) :
       Unread[i] # NewLine /\ (\A j \in i + 1..Len(Unread) : Unread[j] = NewLine) => Unread[i] = asked
  /\ (\A i \in 1..Len(Unread) : Unread[i] = NewLine) => asked = -1 \/ undone \/ filter = asked

CmdInv == Complete /\ Following

\* A sequence and its two parts.
LEMMA Parts ==
  ASSUME NEW S, NEW s \in Seq(S), NEW k \in 0..Len(s)
  PROVE  /\ SubSeq(s, 1, k) \in Seq(S) /\ Len(SubSeq(s, 1, k)) = k
         /\ SubSeq(s, k + 1, Len(s)) \in Seq(S) /\ Len(SubSeq(s, k + 1, Len(s))) = Len(s) - k
         /\ s = SubSeq(s, 1, k) \o SubSeq(s, k + 1, Len(s))
<1>1. Len(s) \in Nat OBVIOUS
<1>2. SubSeq(s, 1, k) \in Seq(S) /\ Len(SubSeq(s, 1, k)) = k
  <2>1. \A i \in 1..k : s[i] \in S BY <1>1
  <2>2. /\ SubSeq(s, 1, k) \in Seq(S)
        /\ Len(SubSeq(s, 1, k)) = IF 1 <= k THEN k - 1 + 1 ELSE 0
     BY <1>1, <2>1, SubSeqProperties
  <2> QED BY <1>1, <2>2
<1>3. SubSeq(s, k + 1, Len(s)) \in Seq(S) /\ Len(SubSeq(s, k + 1, Len(s))) = Len(s) - k
  <2>1. \A i \in k + 1..Len(s) : s[i] \in S BY <1>1
  <2>2. /\ SubSeq(s, k + 1, Len(s)) \in Seq(S)
        /\ Len(SubSeq(s, k + 1, Len(s))) = IF k + 1 <= Len(s) THEN Len(s) - (k + 1) + 1 ELSE 0
     BY <1>1, <2>1, SubSeqProperties
  <2> QED BY <1>1, <2>2
<1>4. SubSeq(s, 1, k) \o SubSeq(s, k + 1, Len(s)) = SubSeq(s, 1, Len(s))
  <2>1. 1 \in 1..Len(s) + 1 /\ k \in 1 - 1..Len(s) /\ Len(s) \in k..Len(s) BY <1>1
  <2> QED BY <2>1, ConcatAdjacentSubSeq
<1>5. SubSeq(s, 1, Len(s)) = s BY SubSeqFull
<1> QED BY <1>2, <1>3, <1>4, <1>5

\* What is in which part.
LEMMA Places ==
  ASSUME NEW S, NEW s \in Seq(S), NEW t \in Seq(S)
  PROVE  /\ s \o t \in Seq(S) /\ Len(s \o t) = Len(s) + Len(t)
         /\ \A i \in 1..Len(s) : s[i] = (s \o t)[i]
         /\ \A i \in 1..Len(t) : t[i] = (s \o t)[Len(s) + i]
BY ConcatProperties

LEMMA UnreadOf ==
  ASSUME Complete
  PROVE  /\ Unread \in Seq({0, 1, NewLine}) /\ Len(Unread) = Len(linebuf) + Len(wire)
         /\ \A i \in 1..Len(linebuf) : Unread[i] = linebuf[i]
         /\ \A i \in 1..Len(wire) : Unread[Len(linebuf) + i] = wire[i]
BY ConcatProperties DEF Complete, Unread

\* What a read that cuts no value from its newline but at its end leaves over,
\* and what it applies.
LEMMA ScannedFacts ==
  ASSUME NEW bytes \in Seq({0, 1, NewLine}), bytes # <<>>,
         \A i \in 1..Len(bytes) : bytes[i] # NewLine /\ i < Len(bytes) => bytes[i + 1] = NewLine
  PROVE  \E k \in {Len(bytes) - 1, Len(bytes)} :
           /\ k >= 0 /\ \A i \in k + 1..Len(bytes) : bytes[i] # NewLine
           /\ Scanned(bytes).line = SubSeq(bytes, k + 1, Len(bytes))
           /\ \A v \in Scanned(bytes).values : \E i \in 1..k : v = <<i, bytes[i]>> /\ bytes[i] # NewLine
           /\ \A i \in 1..k : bytes[i] # NewLine => <<i, bytes[i]>> \in Scanned(bytes).values
<1> DEFINE n == Len(bytes)
           Ends == {i \in 1..n : bytes[i] = NewLine}
           Begins == {i \in 1..n \ Ends : i = 1 \/ i - 1 \in Ends}
           Rest == CHOOSE k \in Ends \cup {0} : \A i \in Ends : i <= k
<1>1. n \in Nat \ {0} BY EmptySeq
<1>2. /\ Scanned(bytes).line = SubSeq(bytes, Rest + 1, n)
      /\ Scanned(bytes).values = {<<i, bytes[i]>> : i \in {i \in Begins : i < Rest}}
   BY DEF Scanned
<1> HIDE DEF n
<1>3. \E k \in Ends \cup {0} : k \in {n - 1, n} /\ \A i \in Ends : i <= k
  <2>1. CASE bytes[n] = NewLine BY <1>1, <2>1
  <2>2. CASE bytes[n] # NewLine /\ n = 1 BY <1>1, <2>2
  <2>3. CASE bytes[n] # NewLine /\ n # 1
    <3>1. n - 1 \in 1..n /\ n - 1 < n /\ (n - 1) + 1 = n BY <1>1, <2>3
    <3>2. bytes[n - 1] = NewLine BY <2>3, <3>1 DEF n
    <3>3. n - 1 \in Ends /\ \A i \in Ends : i <= n - 1 BY <1>1, <2>3, <3>1, <3>2
    <3> QED BY <3>3
  <2> QED BY <2>1, <2>2, <2>3
<1>4. Rest \in Ends \cup {0} /\ \A i \in Ends : i <= Rest BY <1>3
<1>5. Rest \in {n - 1, n}
  <2>1. PICK k \in Ends \cup {0} : k \in {n - 1, n} /\ \A i \in Ends : i <= k BY <1>3
  <2>2. Rest = k BY <1>1, <1>4, <2>1
  <2> QED BY <2>1, <2>2
<1> HIDE DEF Rest
<1>6. Rest >= 0 /\ \A i \in Rest + 1..n : bytes[i] # NewLine
  <2>1. Rest \in Nat BY <1>1, <1>4
  <2>2. \A i \in Rest + 1..n : i \in 1..n /\ ~(i <= Rest) BY <1>1, <2>1
  <2> QED BY <1>4, <2>1, <2>2
<1>7. \A v \in Scanned(bytes).values : \E i \in 1..Rest : v = <<i, bytes[i]>> /\ bytes[i] # NewLine
  <2> SUFFICES ASSUME NEW v \in Scanned(bytes).values
               PROVE \E i \in 1..Rest : v = <<i, bytes[i]>> /\ bytes[i] # NewLine
     OBVIOUS
  <2>1. PICK i \in Begins : i < Rest /\ v = <<i, bytes[i]>> BY <1>2
  <2>2. i \in 1..Rest /\ bytes[i] # NewLine BY <1>1, <1>5, <2>1
  <2> QED BY <2>1, <2>2
<1>8. \A i \in 1..Rest : bytes[i] # NewLine => <<i, bytes[i]>> \in Scanned(bytes).values
  <2> SUFFICES ASSUME NEW i \in 1..Rest, bytes[i] # NewLine PROVE i \in Begins /\ i < Rest
     BY <1>2
  <2>1. i \in 1..n \ Ends BY <1>1, <1>5
  <2>2. i # Rest BY <1>4
  <2>3. CASE i = 1 BY <1>1, <1>5, <2>1, <2>2, <2>3
  <2>4. CASE i # 1
    <3>1. i - 1 \in 1..n /\ i - 1 < n /\ (i - 1) + 1 = i BY <1>1, <2>1, <2>4
    <3>2. bytes[i - 1] = NewLine BY <3>1 DEF n
    <3>3. i - 1 \in Ends BY <3>1, <3>2
    <3> QED BY <1>1, <1>5, <2>1, <2>2, <3>3
  <2> QED BY <2>3, <2>4
<1>9. Rest \in {Len(bytes) - 1, Len(bytes)} /\ n = Len(bytes) BY <1>5 DEF n
<1> QED BY <1>2, <1>6, <1>7, <1>8, <1>9

\* A read takes bytes from the wire to the line; those that are left are the end
\* of what was there.
LEMMA ListenKeeps ==
  ASSUME CmdInv, Listen
  PROVE  CmdInv'
<1> DEFINE B == {0, 1, NewLine}
           u == Len(Unread)
<1>1. linebuf \in Seq(B) /\ wire \in Seq(B) /\ Unread \in Seq(B) /\ u \in Nat
   BY UnreadOf, LenProperties DEF CmdInv, Complete
<1>2. PICK n \in 1..Len(wire) :
        LET scan == Scan(SubSeq(wire, 1, n)) IN
        /\ wire' = SubSeq(wire, n + 1, Len(wire))
        /\ linebuf' = scan.line
        /\ IF scan.values = {} THEN UNCHANGED <<filter, undone>>
           ELSE /\ undone' = FALSE
                /\ \E last \in scan.values :
                     /\ \A v \in scan.values : v[1] <= last[1]
                     /\ filter' = last[2]
   BY DEF Listen
<1>3. asked' = asked BY DEF Listen
<1> DEFINE read == SubSeq(wire, 1, n)
           bytes == linebuf \o read
           b == Len(bytes)
<1> HIDE DEF B
<1>4. read \in Seq(B) /\ wire' \in Seq(B) /\ Len(read) = n /\ n \in Nat \ {0} /\ wire = read \o wire'
  <2>1. Len(wire) \in Nat /\ n \in 0..Len(wire) /\ n \in Nat \ {0} BY <1>1
  <2> QED BY <1>1, <1>2, <2>1, Parts
<1>5. Scan(read) = Scanned(bytes) BY DEF Scan
<1>6. /\ IF Scanned(bytes).values = {} THEN UNCHANGED <<filter, undone>>
         ELSE /\ undone' = FALSE
              /\ \E last \in Scanned(bytes).values :
                   (\A v \in Scanned(bytes).values : v[1] <= last[1]) /\ filter' = last[2]
      /\ linebuf' = Scanned(bytes).line
   BY <1>2, <1>5
<1> HIDE DEF read
<1>7. bytes \in Seq(B) /\ b = Len(linebuf) + n /\ b \in Nat \ {0} /\ Unread = bytes \o wire'
  <2>1. bytes \in Seq(B) /\ b = Len(linebuf) + n BY <1>1, <1>4, ConcatProperties
  <2>2. (linebuf \o read) \o wire' = linebuf \o (read \o wire') BY <1>1, <1>4, ConcatAssociative, SMTT(40)
  <2>3. Len(linebuf) \in Nat BY <1>1, LenProperties
  <2> QED BY <1>4, <2>1, <2>2, <2>3 DEF Unread
<1> HIDE DEF bytes, b, u
<1>8. u = b + Len(wire') /\ Len(wire') \in Nat /\ \A i \in 1..b : bytes[i] = Unread[i]
  <2>1. /\ Len(bytes \o wire') = Len(bytes) + Len(wire')
        /\ \A i \in 1..Len(bytes) : bytes[i] = (bytes \o wire')[i]
     BY <1>4, <1>7, Places
  <2>2. Len(wire') \in Nat BY <1>4, LenProperties
  <2> QED BY <1>7, <2>1, <2>2 DEF b, u
<1>9. \A i \in 1..u : Unread[i] # NewLine => i < u /\ Unread[i + 1] = NewLine
   BY DEF CmdInv, Complete, u
<1>10. PICK k \in {b - 1, b} :
         /\ k >= 0 /\ \A i \in k + 1..b : bytes[i] # NewLine
         /\ Scanned(bytes).line = SubSeq(bytes, k + 1, b)
         /\ \A v \in Scanned(bytes).values : \E i \in 1..k : v = <<i, bytes[i]>> /\ bytes[i] # NewLine
         /\ \A i \in 1..k : bytes[i] # NewLine => <<i, bytes[i]>> \in Scanned(bytes).values
  <2>1. ASSUME NEW i \in 1..b, bytes[i] # NewLine, i < b PROVE bytes[i + 1] = NewLine
    <3>1. i \in 1..u /\ i + 1 \in 1..b BY <1>7, <1>8, <2>1
    <3> QED BY <1>8, <1>9, <2>1, <3>1
  <2>2. bytes \in Seq({0, 1, NewLine}) BY <1>7 DEF B
  <2>3. bytes # <<>> BY <1>7 DEF b
  <2> QED BY <2>1, <2>2, <2>3, ScannedFacts DEF b
<1>11. k \in 0..b /\ k <= u /\ b - k \in {0, 1} BY <1>7, <1>8, <1>10
<1>12. /\ linebuf' \in Seq(B) /\ Len(linebuf') = b - k
       /\ Unread' \in Seq(B) /\ Len(Unread') = u - k
       /\ \A i \in 1..b - k : linebuf'[i] = bytes[k + i]
       /\ \A i \in 1..u - k : Unread'[i] = Unread[k + i]
  <2> DEFINE done == SubSeq(bytes, 1, k)
  <2>1. /\ done \in Seq(B) /\ Len(done) = k /\ linebuf' \in Seq(B) /\ Len(linebuf') = b - k
        /\ bytes = done \o linebuf'
    <3>1. k \in 0..Len(bytes) BY <1>11 DEF b
    <3>2. linebuf' = SubSeq(bytes, k + 1, Len(bytes)) BY <1>6, <1>10 DEF b
    <3> QED BY <1>7, <3>1, <3>2, Parts DEF b
  <2> HIDE DEF done
  <2>2. Unread' \in Seq(B) /\ Unread = done \o Unread'
    <3>1. linebuf' \o wire' \in Seq(B) BY <1>4, <2>1, ConcatProperties
    <3>2. (done \o linebuf') \o wire' = done \o (linebuf' \o wire')
      <4>1. done \in Seq(B) /\ linebuf' \in Seq(B) /\ wire' \in Seq(B) BY <1>4, <2>1
      <4> QED BY <4>1, ConcatAssociative, SMTT(60)
    <3>3. Unread' = linebuf' \o wire' BY DEF Unread
    <3>4. Unread = bytes \o wire' BY <1>7
    <3>5. bytes = done \o linebuf' BY <2>1
    <3>6. Unread = done \o Unread' BY <3>2, <3>3, <3>4, <3>5
    <3> QED BY <3>1, <3>3, <3>6
  <2>3. \A i \in 1..Len(linebuf') : linebuf'[i] = (done \o linebuf')[Len(done) + i]
     BY <2>1, Places
  <2>4. /\ Len(done \o Unread') = Len(done) + Len(Unread')
        /\ \A i \in 1..Len(Unread') : Unread'[i] = (done \o Unread')[Len(done) + i]
     BY <2>1, <2>2, Places
  <2>5. Len(Unread') \in Nat BY <2>2, LenProperties
  <2>6. Len(Unread') = u - k BY <1>1, <1>11, <2>1, <2>2, <2>4, <2>5 DEF u
  <2> QED BY <2>1, <2>2, <2>3, <2>4, <2>6
<1>13. Complete'
  <2>1. linebuf' # <<>> => Len(linebuf') = 1 /\ linebuf'[1] # NewLine
    <3> SUFFICES ASSUME linebuf' # <<>> PROVE Len(linebuf') = 1 /\ linebuf'[1] # NewLine
       OBVIOUS
    <3>1. b - k = 1 BY <1>11, <1>12, EmptySeq
    <3>2. 1 \in 1..b - k /\ k + 1 \in k + 1..b BY <1>7, <1>11, <3>1
    <3> QED BY <1>10, <1>12, <3>1, <3>2
  <2>2. \A i \in 1..u - k : Unread'[i] # NewLine => i < u - k /\ Unread'[i + 1] = NewLine
    <3> SUFFICES ASSUME NEW i \in 1..u - k, Unread'[i] # NewLine
                 PROVE i < u - k /\ Unread'[i + 1] = NewLine
       OBVIOUS
    <3>1. k + i \in 1..u /\ Unread[k + i] # NewLine BY <1>1, <1>11, <1>12
    <3>2. k + i < u /\ Unread[k + i + 1] = NewLine BY <1>9, <3>1
    <3>3. i < u - k /\ i + 1 \in 1..u - k /\ k + (i + 1) = k + i + 1 BY <1>1, <1>11, <3>2
    <3> QED BY <1>12, <3>2, <3>3
  <2>3. linebuf' \in Seq({0, 1, NewLine}) /\ wire' \in Seq({0, 1, NewLine}) BY <1>4, <1>12 DEF B
  <2>4. \A i \in 1..Len(Unread') :
          Unread'[i] # NewLine => i < Len(Unread') /\ Unread'[i + 1] = NewLine
     BY <1>12, <2>2
  <2> QED BY <2>1, <2>3, <2>4 DEF Complete
<1>14. ASSUME NEW i \in 1..u, Unread[i] # NewLine, \A j \in i + 1..u : Unread[j] = NewLine
       PROVE Unread[i] = asked
   BY <1>14 DEF CmdInv, Following, u
<1>15. ASSUME NEW i \in 1..u - k, Unread'[i] # NewLine, \A j \in i + 1..u - k : Unread'[j] = NewLine
       PROVE Unread'[i] = asked
  <2>1. k + i \in 1..u /\ Unread'[i] = Unread[k + i] BY <1>1, <1>11, <1>12
  <2>2. ASSUME NEW j \in k + i + 1..u PROVE Unread[j] = NewLine
    <3>1. j - k \in i + 1..u - k /\ j - k \in 1..u - k /\ k + (j - k) = j BY <1>1, <1>11
    <3> QED BY <1>12, <1>15, <3>1
  <2> QED BY <1>14, <1>15, <2>1, <2>2
<1>16. ASSUME \A i \in 1..u - k : Unread'[i] = NewLine
       PROVE asked = -1 \/ undone' \/ filter' = asked
  <2>1. ASSUME NEW i \in 1..u, Unread[i] # NewLine PROVE i \in 1..k /\ bytes[i] = Unread[i]
    <3>1. i <= k
      <4> SUFFICES ASSUME i > k PROVE FALSE
         BY <1>11
      <4>1. i - k \in 1..u - k /\ k + (i - k) = i BY <1>1, <1>11
      <4> QED BY <1>12, <1>16, <2>1, <4>1
    <3>2. i \in 1..k /\ i \in 1..b BY <1>7, <1>11, <3>1
    <3> QED BY <1>8, <3>2
  <2>2. CASE Scanned(bytes).values = {}
    <3>1. \A i \in 1..u : Unread[i] = NewLine BY <1>10, <2>1, <2>2
    <3>2. asked = -1 \/ undone \/ filter = asked BY <3>1 DEF CmdInv, Following, u
    <3> QED BY <1>6, <2>2, <3>2
  <2>3. CASE Scanned(bytes).values # {}
    <3>1. PICK last \in Scanned(bytes).values :
            (\A v \in Scanned(bytes).values : v[1] <= last[1]) /\ filter' = last[2]
       BY <1>6, <2>3
    <3>2. PICK i \in 1..k : last = <<i, bytes[i]>> /\ bytes[i] # NewLine BY <1>10, <3>1
    <3>3. i \in 1..u /\ bytes[i] = Unread[i]
      <4>1. i \in 1..u /\ i \in 1..b BY <1>7, <1>8, <1>11
      <4> QED BY <1>8, <4>1
    <3>4. ASSUME NEW j \in i + 1..u, Unread[j] # NewLine PROVE FALSE
      <4>1. j \in 1..u /\ j > i BY <1>1, <1>11
      <4>2. j \in 1..k /\ bytes[j] # NewLine BY <2>1, <3>4, <4>1
      <4>3. <<j, bytes[j]>> \in Scanned(bytes).values BY <1>10, <4>2
      <4>4. j <= i BY <3>1, <3>2, <4>3
      <4> QED BY <4>1, <4>4
    <3>5. Unread[i] = asked BY <1>14, <3>2, <3>3, <3>4
    <3> QED BY <3>1, <3>2, <3>3, <3>5
  <2> QED BY <2>2, <2>3
<1>17. Following'
  <2>1. \A i \in 1..Len(Unread') :
          Unread'[i] # NewLine /\ (\A j \in i + 1..Len(Unread') : Unread'[j] = NewLine)
            => Unread'[i] = asked'
     BY <1>3, <1>12, <1>15
  <2>2. (\A i \in 1..Len(Unread') : Unread'[i] = NewLine) => asked' = -1 \/ undone' \/ filter' = asked'
     BY <1>3, <1>12, <1>16
  <2> QED BY <2>1, <2>2 DEF Following
<1> QED BY <1>13, <1>17 DEF CmdInv

\* A click asks for the opposite, after all that has been asked.
LEMMA ToggleKeeps ==
  ASSUME CmdInv, Toggle
  PROVE  CmdInv'
<1> DEFINE B == {0, 1, NewLine}
           u == Len(Unread)
           value == IF shown' THEN 1 ELSE 0
           command == <<value, NewLine, NewLine>>
<1>1. linebuf \in Seq(B) /\ wire \in Seq(B) /\ Unread \in Seq(B) /\ u \in Nat
   BY UnreadOf, LenProperties DEF CmdInv, Complete
<1>2. UNCHANGED <<linebuf, filter, undone>> BY DEF Toggle
<1>3. CASE UNCHANGED <<asked, wire>>
  <2>1. Unread' = Unread BY <1>2, <1>3 DEF Unread
  <2> QED BY <1>2, <1>3, <2>1 DEF CmdInv, Complete, Following
<1>4. CASE asked' = value /\ wire' = wire \o command
  <2>1. /\ command \in Seq(B) /\ Len(command) = 3 /\ value # NewLine
        /\ command[1] = value /\ command[2] = NewLine /\ command[3] = NewLine
     BY DEF NewLine
  <2> HIDE DEF B, command, value, u
  <2>2. wire' \in Seq(B) BY <1>1, <1>4, <2>1, ConcatProperties
  <2>3. Unread' = Unread \o command
    <3>1. command \in Seq(B) BY <2>1
    <3>2. (linebuf \o wire) \o command = linebuf \o (wire \o command)
       BY <1>1, <3>1, ConcatAssociative, SMTT(40)
    <3> QED BY <1>2, <1>4, <3>2 DEF Unread
  <2>4. /\ Len(Unread') = u + 3
        /\ \A i \in 1..u : Unread[i] = Unread'[i]
        /\ Unread'[u + 1] = value /\ Unread'[u + 2] = NewLine /\ Unread'[u + 3] = NewLine
    <3>1. command \in Seq(B) BY <2>1
    <3>2. /\ Len(Unread \o command) = Len(Unread) + Len(command)
          /\ \A i \in 1..Len(Unread) : Unread[i] = (Unread \o command)[i]
          /\ \A i \in 1..Len(command) : command[i] = (Unread \o command)[Len(Unread) + i]
       BY <1>1, <3>1, Places
    <3> QED BY <2>1, <2>3, <3>2 DEF u
  <2>5. \A i \in 1..u + 3 : i \in 1..u \/ i = u + 1 \/ i = u + 2 \/ i = u + 3 BY <1>1
  <2>6. Complete'
    <3>1. ASSUME NEW i \in 1..u + 3, Unread'[i] # NewLine PROVE i < u + 3 /\ Unread'[i + 1] = NewLine
      <4>1. CASE i \in 1..u
        <5>1. i < u /\ Unread[i + 1] = NewLine BY <2>4, <3>1, <4>1 DEF CmdInv, Complete, u
        <5>2. i + 1 \in 1..u BY <1>1, <5>1
        <5> QED BY <1>1, <2>4, <5>1, <5>2
      <4>2. CASE i = u + 1
        <5>1. i < u + 3 /\ i + 1 = u + 2 BY <1>1, <4>2
        <5> QED BY <2>4, <5>1
      <4> QED BY <2>4, <2>5, <3>1, <4>1, <4>2
    <3>2. linebuf' # <<>> => Len(linebuf') = 1 /\ linebuf'[1] # NewLine BY <1>2 DEF CmdInv, Complete
    <3> QED BY <1>1, <1>2, <2>2, <2>4, <3>1, <3>2 DEF Complete, B
  <2>7. Following'
    <3>1. ASSUME NEW i \in 1..u + 3, Unread'[i] # NewLine, \A j \in i + 1..u + 3 : Unread'[j] = NewLine
          PROVE Unread'[i] = asked'
      <4>1. i \notin 1..u
        <5>1. i \in 1..u => u + 1 \in i + 1..u + 3 BY <1>1
        <5> QED BY <2>1, <2>4, <3>1, <5>1
      <4>2. i = u + 1 BY <2>4, <2>5, <3>1, <4>1
      <4> QED BY <1>4, <2>4, <4>2
    <3>2. ~\A i \in 1..u + 3 : Unread'[i] = NewLine
      <4>1. u + 1 \in 1..u + 3 BY <1>1
      <4> QED BY <2>1, <2>4, <4>1
    <3> QED BY <2>4, <3>1, <3>2 DEF Following
  <2> QED BY <2>6, <2>7 DEF CmdInv
<1> QED BY <1>3, <1>4 DEF Toggle

\* main's store undoes what has been asked, if anything has.
LEMMA StoreKeeps ==
  ASSUME CmdInv, StoreFilter
  PROVE  CmdInv'
<1>1. UNCHANGED <<linebuf, wire, asked>> /\ undone' = (asked # -1) BY DEF StoreFilter
<1>2. Unread' = Unread BY <1>1 DEF Unread
<1> QED BY <1>1, <1>2 DEF CmdInv, Complete, Following

LEMMA CmdInductive == CmdInv /\ [Next]_vars => CmdInv'
<1> SUFFICES ASSUME CmdInv, [Next]_vars PROVE CmdInv'
   OBVIOUS
<1>1. ASSUME UNCHANGED <<linebuf, wire, asked, undone, filter>> PROVE CmdInv'
  <2>1. Unread' = Unread BY <1>1 DEF Unread
  <2> QED BY <1>1, <2>1 DEF CmdInv, Complete, Following
<1>2. CASE Toggle BY <1>2, ToggleKeeps
<1>3. CASE Listen BY <1>3, ListenKeeps
<1>4. CASE StoreFilter BY <1>4, StoreKeeps
<1>5. CASE Leave \/ \E ch \in Channel : Connect(ch) \/ Accept(ch)
   BY <1>1, <1>5 DEF Leave, Connect, Accept, cmdVars
<1>6. CASE Writer \/ Audio
   BY <1>1, <1>6 DEF Writer, Take, WriteLine, Audio, LogFrame, QueueFrame, Summary, cmdVars
<1>7. CASE ListenerStarts \/ ListenerEnds
   BY <1>1, <1>7 DEF ListenerStarts, ListenerEnds
<1>8. CASE \E ch \in {"log", "in"} : StopsReading(ch) \/ ReadsAgain(ch)
   BY <1>1, <1>8 DEF StopsReading, ReadsAgain, cmdVars
<1>9. CASE UNCHANGED vars BY <1>1, <1>9 DEF vars, cmdVars
<1> QED BY <1>2, <1>3, <1>4, <1>5, <1>6, <1>7, <1>8, <1>9 DEF Next, Gui, Commands, Over

\* However a read cuts the commands up, and however many there are, the filter is
\* as the last one says when all have been read, unless main has stored the
\* configured value over it.
THEOREM FilterAsAsked == Spec => []FilterFollows
<1>1. Init => CmdInv
  <2> SUFFICES ASSUME Init PROVE CmdInv
     OBVIOUS
  <2>1. linebuf = <<>> /\ wire = <<>> /\ asked = -1 BY DEF Init
  <2>2. linebuf \in Seq({0, 1, NewLine}) /\ wire \in Seq({0, 1, NewLine}) BY <2>1, EmptySeq
  <2>3. Unread = <<>> /\ Len(Unread) = 0 BY <2>1, ConcatEmptySeq, EmptySeq DEF Unread
  <2> QED BY <2>1, <2>2, <2>3 DEF CmdInv, Complete, Following
<1>2. CmdInv => FilterFollows
  <2> SUFFICES ASSUME CmdInv, asked # -1, wire = <<>>, linebuf = <<>>, ~undone PROVE filter = asked
     BY DEF FilterFollows
  <2>1. Unread = <<>> /\ Len(Unread) = 0 BY ConcatEmptySeq, EmptySeq DEF Unread
  <2> QED BY <2>1 DEF CmdInv, Following
<1> QED BY <1>1, <1>2, CmdInductive, PTL DEF Spec

----------------------------------------------------------------------------
IInv == LogInv /\ DataInv

LEMMA Starts == Init => IInv
<1> SUFFICES ASSUME Init PROVE IInv
   OBVIOUS
<1>1. LogTypes BY DEF Init, LogTypes, Empty
<1>2. Indices
  <2>1. 0 \in 0..QueueSize - 1 BY QueueFacts
  <2>2. 0 % QueueSize = 0 BY <2>1, Small
  <2> QED BY <2>1, <2>2, QueueFacts DEF Init, Indices, Slot, Empty
<1>3. Received BY DEF Init, Received, LinesInOrder
<1>4. DataInv
  <2>1. Frames(held, Coming - 0, 0) /\ Frames(data, 0, 0) BY NoFrames DEF Init
  <2> QED BY <2>1 DEF Init, DataInv
<1> QED BY <1>1, <1>2, <1>3, <1>4 DEF IInv, LogInv

\* A step that leaves the log, the data port and the audio thread alone.
LEMMA Beside ==
  ASSUME IInv, UNCHANGED <<logVars, audio, dataVars>>, accepted \subseteq accepted',
         gui = "gone" => gui' = "gone"
  PROVE  IInv'
<1>1. Coming' = Coming BY DEF Coming
<1>2. audio' \in [at : {"log", "data", "summary"}, frame : Nat, summary : Nat]
   BY DEF IInv, DataInv
<1> QED BY <1>1, <1>2, OthersKeepLog, OthersKeepData DEF IInv

LEMMA Inductive == IInv /\ [Next]_vars => IInv'
<1> SUFFICES ASSUME IInv, [Next]_vars PROVE IInv'
   OBVIOUS
<1>1. CASE Gui
  <2>1. CASE Leave BY <2>1, Beside DEF Leave
  <2>2. CASE Toggle BY <2>2, Beside DEF Toggle
  <2>3. ASSUME NEW ch \in Channel, Connect(ch) PROVE IInv'
    <3>1. gui # "gone" BY <2>3 DEF Connect, Channel
    <3> QED BY <2>3, <3>1, Beside DEF Connect
  <2>4. ASSUME NEW ch \in {"log", "in"}, StopsReading(ch) \/ ReadsAgain(ch) PROVE IInv'
     BY <2>4, Beside DEF StopsReading, ReadsAgain
  <2> QED BY <1>1, <2>1, <2>2, <2>3, <2>4 DEF Gui
<1>2. CASE Writer
  <2>1. LogInv' BY <1>2, TakeKeeps, WriteLineKeeps DEF IInv, Writer
  <2>2. UNCHANGED <<gui, accepted, audio, dataVars>> BY <1>2 DEF Writer, Take, WriteLine
  <2>3. Coming' = Coming BY <2>2 DEF Coming
  <2>4. audio' \in [at : {"log", "data", "summary"}, frame : Nat, summary : Nat]
     BY <2>2 DEF IInv, DataInv
  <2>5. DataInv' BY <2>2, <2>3, <2>4, OthersKeepData DEF IInv
  <2> QED BY <2>1, <2>5 DEF IInv
<1>3. CASE LogFrame BY <1>3, EnqueueKeeps, LogFrameKeeps DEF IInv, LogFrame
<1>4. CASE Summary BY <1>4, EnqueueKeeps, SummaryKeeps DEF IInv, Summary
<1>5. CASE QueueFrame
  <2>1. UNCHANGED <<gui, accepted, logVars>> BY <1>5 DEF QueueFrame
  <2> QED BY <1>5, <2>1, QueueFrameKeeps, OthersKeepLog DEF IInv
<1>6. CASE Commands BY <1>6, Beside DEF Commands, ListenerStarts, Listen, ListenerEnds
<1>7. CASE StoreFilter BY <1>7, Beside DEF StoreFilter
<1>8. ASSUME NEW ch \in Channel, Accept(ch) PROVE IInv' BY <1>8, Beside DEF Accept
<1>9. CASE UNCHANGED vars BY <1>9, Beside DEF vars
<1> QED BY <1>1, <1>2, <1>3, <1>4, <1>5, <1>6, <1>7, <1>8, <1>9 DEF Next, Audio, Over

LEMMA Invariant == Spec => []IInv
BY Starts, Inductive, PTL DEF Spec

\* For any size of the queue, and however often the lines overrun it, what the GUI
\* reads on the log port are lines that were queued, in order, and those that are
\* missing between two of them are a number of queuefuls.
THEOREM LogInOrder == Spec => []LinesInOrder
<1>1. IInv => LinesInOrder BY DEF IInv, LogInv, Received
<1> QED BY <1>1, Invariant, PTL

\* For any size of the buffer and of a frame, what the GUI reads on the
\* data port begins with a tag and has no gap: a flush never divides a frame.
THEOREM DataWhole == Spec => []FramesWhole
<1>1. IInv => FramesWhole BY WholeOf DEF IInv
<1> QED BY <1>1, Invariant, PTL

=============================================================================
