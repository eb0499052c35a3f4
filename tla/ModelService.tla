---------------------------- MODULE ModelService ----------------------------
(***************************************************************************)
(* What the model daemon promises its clients: sessions that exclude one   *)
(* another, a model that changes in no session but the one that asked for  *)
(* it, and answers of the model held when they are given.                  *)
(***************************************************************************)
CONSTANTS Clients, Models, None

VARIABLES
  resident,  \* the model held, or None
  holder,    \* the client whose session is open, or None
  answer     \* the answer each client has not taken yet, or None

svars == <<resident, holder, answer>>

SInit ==
  /\ resident = None
  /\ holder = None
  /\ answer = [c \in Clients |-> None]

\* Outside any session only an empty service takes a model: its own start.
Start(m) ==
  /\ resident = None /\ holder = None
  /\ resident' = m
  /\ UNCHANGED <<holder, answer>>

Grant(c) ==
  /\ holder = None
  /\ holder' = c
  /\ UNCHANGED <<resident, answer>>

\* The holder asked for a model: it is loaded, or none is held any more.
Change ==
  /\ holder # None
  /\ resident' \in Models \cup {None}
  /\ UNCHANGED <<holder, answer>>

Answer(c) ==
  /\ holder = c /\ resident # None
  /\ answer' = [answer EXCEPT ![c] = resident]
  /\ UNCHANGED <<resident, holder>>

Take(c) ==
  /\ answer[c] # None
  /\ answer' = [answer EXCEPT ![c] = None]
  /\ UNCHANGED <<resident, holder>>

Release ==
  /\ holder # None
  /\ holder' = None
  /\ UNCHANGED <<resident, answer>>

\* The service goes away; the answers it gave can still be taken.
Die ==
  /\ resident' = None
  /\ holder' = None
  /\ UNCHANGED answer

SNext ==
  \/ \E m \in Models : Start(m)
  \/ \E c \in Clients : Grant(c) \/ Answer(c) \/ Take(c)
  \/ Change \/ Release \/ Die

SSpec == SInit /\ [][SNext]_svars

=============================================================================
