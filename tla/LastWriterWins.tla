--------------------------- MODULE LastWriterWins ---------------------------
(***************************************************************************)
(* What the README promises of synchronised rows: client timestamps        *)
(* resolve conflicts.  A register per id takes a write exactly when it is  *)
(* later than every write received before it, so its value is the latest   *)
(* of all the writes received, whatever the order they arrived in.         *)
(***************************************************************************)
EXTENDS Naturals, Tables

CONSTANTS
  Ids,
  Times,   \* naturals
  Bodies

VARIABLES
  log,  \* the writes received for each id
  reg   \* the table of their outcome

Write == [ts : Times, body : Bodies]

Init == log = [k \in Ids |-> {}] /\ reg = EmptyTable

Receive(k, w) ==
  /\ log' = [log EXCEPT ![k] = @ \cup {w}]
  /\ reg' = IF \E x \in log[k] : x.ts >= w.ts THEN reg ELSE Put(reg, k, w)

Next == \E k \in Ids, w \in Write : Receive(k, w)

Spec == Init /\ [][Next]_<<log, reg>>

\* The weaker promise: the time of a value may be set back, and from then on the id
\* goes by that value and the writes received after it.
SetBack(k, time) ==
  /\ k \in DOMAIN reg /\ time < reg[k].ts
  /\ LET w == [reg[k] EXCEPT !.ts = time]
     IN  log' = [log EXCEPT ![k] = {w}] /\ reg' = Put(reg, k, w)

NextAfresh == Next \/ \E k \in Ids, time \in Times : SetBack(k, time)

AfreshSpec == Init /\ [][NextAfresh]_<<log, reg>>

-----------------------------------------------------------------------------
TypeOK == log \in [Ids -> SUBSET Write] /\ reg \in Table(Ids, Write)

\* An id has a value once it has received a write, and the value is one of the
\* writes received, no older than any other of them.
Latest ==
  \A k \in Ids :
    /\ k \in DOMAIN reg <=> log[k] # {}
    /\ \A x \in log[k] : x.ts <= reg[k].ts
    /\ log[k] # {} => reg[k] \in log[k]

=============================================================================
