------------------------------- MODULE NextId -------------------------------
(***************************************************************************)
(* pysnmp.nextid.Integer: the generator every SNMP identifier is drawn     *)
(* from (sendPduHandle, msgID, stateReference, request handles).  The      *)
(* generators are class attributes, so all engines of a process, whatever  *)
(* thread they run on, draw from the same bank.  A call is not atomic:     *)
(* the pop, the read of the bank's last element and the extend are three   *)
(* steps between which another thread may run.                             *)
(*                                                                         *)
(* The state is [bank, step, popped, from, lag, issued, failed, clashed]:  *)
(* the bank; by thread where it is in the call, its locals v and e, and    *)
(* how many values others have popped since it popped v; the last values   *)
(* returned, oldest first; whether a call found the bank empty; and        *)
(* whether two threads have been in a refill at the same time.             *)
(***************************************************************************)
EXTENDS Integers, Sequences, SequencesExt

CONSTANTS Threads,    \* callers of the generator
          Maximum,    \* the "maximum" argument
          Increment,  \* the "increment" argument, already cut to the maximum
          Window      \* BOUND: how many of the last issued values are kept

ASSUME NextIdAssumption ==
    /\ Maximum \in Nat /\ Increment \in 2 .. Maximum - 1
    /\ Window \in Nat

Threshold == Increment \div 2

\* list(range(e, e + n))
Run(e, n) == [i \in 1 .. n |-> e + i - 1]

\* A bank that begins anywhere.
NewBank(e) ==
    [bank |-> Run(e, Increment), step |-> [t \in Threads |-> "idle"], popped |-> [t \in Threads |-> 0],
     from |-> [t \in Threads |-> 0], lag |-> [t \in Threads |-> 0], issued |-> << >>, failed |-> FALSE, clashed |-> FALSE]

\* The values remembered once v is returned.
Remember(issued, v) ==
    LET all == Append(issued, v)
    IN  IF Len(all) > Window THEN Tail(all) ELSE all

\* MUTANT of Pop: twice as many values as there should be trigger a refill.
PopRefillsOften(g, t) ==
    LET v == Head(g.bank)
        refills == v % (Threshold \div 2) = 0
    IN IF g.bank = << >> THEN [g EXCEPT !.failed = TRUE]
       ELSE [g EXCEPT !.bank = Tail(@), !.popped[t] = IF refills THEN v ELSE 0,
                      !.lag = [u \in Threads |-> IF u # t /\ g.step[u] # "idle" THEN g.lag[u] + 1 ELSE 0],
                      !.step[t] = IF refills THEN "read" ELSE "idle",
                      !.clashed = @ \/ (refills /\ \E u \in Threads \ {t} : g.step[u] # "idle"),
                      !.issued = IF refills THEN @ ELSE Remember(@, v)]

\* v = self.__bank.pop(0), and the return of a v that triggers no refill.
Pop(g, t) ==
    LET v == Head(g.bank)
        refills == v % Threshold = 0
    IN IF g.bank = << >> THEN [g EXCEPT !.failed = TRUE]
       ELSE [g EXCEPT !.bank = Tail(@), !.popped[t] = IF refills THEN v ELSE 0,
                      !.lag = [u \in Threads |-> IF u # t /\ g.step[u] # "idle" THEN g.lag[u] + 1 ELSE 0],
                      !.step[t] = IF refills THEN "read" ELSE "idle",
                      !.clashed = @ \/ (refills /\ \E u \in Threads \ {t} : g.step[u] # "idle"),
                      !.issued = IF refills THEN @ ELSE Remember(@, v)]

\* MUTANT of ReadLast: the refill re-reads the bank's last element without stepping past it.
ReadLastNoStep(g, t) ==
    [g EXCEPT !.from[t] = IF Last(g.bank) > Maximum THEN 0 ELSE Last(g.bank), !.step[t] = "extend"]

\* e = self.__bank[-1] + 1, wrapped to zero past the maximum.
ReadLast(g, t) ==
    IF g.bank = << >> THEN [g EXCEPT !.failed = TRUE, !.step[t] = "idle"]
    ELSE [g EXCEPT !.from[t] = IF Last(g.bank) + 1 > Maximum THEN 0 ELSE Last(g.bank) + 1, !.step[t] = "extend"]

\* MUTANT of Extend: half of the threshold is added for every threshold values taken.
ExtendShort(g, t) ==
    [g EXCEPT !.bank = @ \o Run(g.from[t], Threshold \div 2), !.issued = Remember(@, g.popped[t]),
              !.step[t] = "idle", !.popped[t] = 0, !.from[t] = 0, !.lag[t] = 0]

\* self.__bank.extend(range(e, e + threshold)); return v
Extend(g, t) ==
    [g EXCEPT !.bank = @ \o Run(g.from[t], Threshold), !.issued = Remember(@, g.popped[t]),
              !.step[t] = "idle", !.popped[t] = 0, !.from[t] = 0, !.lag[t] = 0]

----------------------------------------------------------------------------
\* As long as no two threads refill at the same time, a value handed out is neither
\* repeated among the last Window values nor still waiting in the bank, also where the
\* bank wraps: an identifier in use is not issued again (what the caches keyed by these
\* identifiers rely on).
NoRepeatInWindow(g) == g.clashed \/ IsInjective(g.issued \o g.bank)

\* "MT-safe unless too many threads bump into this code simultaneously": while the others
\* draw fewer values than the threshold during a refill, no second one begins, except
\* where the bank wraps, and the zero comes right after another value that refills.
RefillsApart(g) ==
    \A t, u \in Threads : t # u /\ g.step[t] # "idle" /\ g.step[u] # "idle" => 0 \in {g.popped[t], g.popped[u]}

\* No call finds the bank empty: the refill is always ahead of the pops.
NeverRunsDry(g) == ~g.failed
=============================================================================
