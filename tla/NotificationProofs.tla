------------------------ MODULE NotificationProofs ------------------------
(***************************************************************************)
(* What a manager's calls write into the engine, they take back: the       *)
(* tables hold the rows in use, and a notification's books close together. *)
(* The invariant relates the caches to one another: of the uses counted,   *)
(* those of parameters cover the credentials' and their addresses', those  *)
(* of a transport cover the addresses in its domain, and no two entries    *)
(* have one name.  It speaks of values t, cg, no, named and spoiled, those *)
(* a step reads and those it leaves.                                       *)
(***************************************************************************)
EXTENDS Notification, FiniteSetTheorems, WellFoundedInduction, TLAPS

-----------------------------------------------------------------------------
(* The invariant.                                                          *)

TableNames == {"context", "group", "access", "view", "community", "user", "secret", "params",
               "addr", "notify", "profile", "filter", "transport", "auto"}

\* The entries of a cache are counted and have names of their own, and the names of
\* these rows.
Book(cache, rows, n) ==
    /\ IsFiniteSet(DOMAIN cache)
    /\ \A k \in DOMAIN cache : cache[k][1] \in 1 .. n /\ cache[k][2] \in Nat \ {0}
    /\ \A k, l \in DOMAIN cache : cache[k][1] = cache[l][1] => k = l
    /\ rows = {cache[k][1] : k \in DOMAIN cache}

\* The credentials in the cache, and the uses of their parameters.
AuthOK(auth, parm) ==
    /\ IsFiniteSet(DOMAIN auth)
    /\ \A key \in DOMAIN auth :
          /\ auth[key] \in Credentials /\ auth[key].key = key
          /\ auth[key].kind = User => ~AddV3UserRaises(auth[key].secret)
          /\ ParamsKey(auth[key]) \in DOMAIN parm
    /\ \A pk \in DOMAIN parm :
          parm[pk][2] >= Cardinality({key \in DOMAIN auth : ParamsKey(auth[key]) = pk})

\* Every address is one of parameters that are used as often.
AddrOK(row, addr, parm) ==
    \A k \in DOMAIN addr :
        /\ row[addr[k][1]].params = k[1] /\ row[addr[k][1]].domain = k[2].domain
        /\ \E pk \in DOMAIN parm : parm[pk][1] = k[1] /\ addr[k][2] <= parm[pk][2]

In(addr, d) == {k \in DOMAIN addr : k[2].domain = d}

\* The transports are the application's and those counted, as often as they have
\* addresses; a dispatcher is counted that was made for them.
TransportsOK(transport, auto, tran, addr) ==
    /\ IsFiniteSet(DOMAIN tran)
    /\ transport = OwnTransports \cup DOMAIN tran /\ OwnTransports \cap DOMAIN tran = {}
    /\ \A k \in DOMAIN addr : k[2].domain \in transport
    /\ \A d \in DOMAIN tran : tran[d][2] \in Nat \ {0} /\ tran[d][2] >= Cardinality(In(addr, d))
    /\ auto = IF OwnDispatcher \/ DOMAIN tran = {} THEN NotAutomatic ELSE Cardinality(DOMAIN tran)

\* Each row is a user's own or a clone of it.
UserRows(user) ==
    \A row \in DOMAIN user :
        /\ row = <<row[1], row[2]>> /\ user[row].name = row[2]
        /\ \/ row[1] = LocalEngine /\ user[row].cloneFrom = NotCloned
           \/ user[row].cloneFrom = <<LocalEngine, row[2]>>

\* The user is known by this security name.
Under(auth, key, name) == key \in DOMAIN auth /\ auth[key].securityName = name

\* The rows of a user under the security name it has hold the cached keys, or none if
\* others were refused.
HoldsCached(user, auth, bad, a) ==
    Under(auth, a.key, a.securityName) =>
        /\ \A row \in RowsOf(user, a) : user[row].key \in {<<auth[a.key].secret, row[1]>>, NoKeys}
        /\ a.key \notin bad => /\ <<LocalEngine, a.securityName>> \in DOMAIN user
                               /\ \A row \in RowsOf(user, a) : user[row].key # NoKeys

\* Rows under the name of a user that does not go by it have no keys, and there are
\* none of a user that is not there, unless it was refused.
HoldsNone(user, auth, bad, key) ==
    ~Under(auth, key, key) =>
        /\ \A row \in DOMAIN user : row[2] = key => user[row].key = NoKeys
        /\ key \notin DOMAIN auth \cup bad => \A row \in DOMAIN user : row[2] # key

UsersOK(user, auth, bad) ==
    /\ UserRows(user)
    /\ \A a \in Credentials : a.kind = User => HoldsCached(user, auth, bad, a) /\ HoldsNone(user, auth, bad, a.key)

LcdInv(tables, g, o, n, bad) ==
    /\ n \in Nat /\ n <= MaxNames
    /\ TableNames \subseteq DOMAIN tables
    /\ DOMAIN g = {"auth", "parm", "tran", "addr"} /\ DOMAIN o = {"auth", "name"}
    /\ Book(g.parm, DOMAIN tables.params, n)
    /\ Book(g.addr, DOMAIN tables.addr, n)
    /\ Book(o.name, DOMAIN tables.notify, n)
    /\ AuthOK(g.auth, g.parm)
    /\ AddrOK(tables.addr, g.addr, g.parm)
    /\ TransportsOK(tables.transport, tables.auto, g.tran, g.addr)
    /\ UsersOK(tables.user, g.auth, bad)

\* The dispatcher counts a notification's requests, or none of them when it was made
\* after they were sent: these went by transports that are gone.
Counted(book, count) ==
    /\ \A x \in DOMAIN book : "open" \in DOMAIN book[x]
    /\ \/ count = Cardinality(DOMAIN book)
       \/ count = 0 /\ \A x \in DOMAIN book : ~book[x].open

\* The books of the notifications.
NtfInv ==
    /\ TypeOK /\ BooksAgree /\ ReportedWhenOver
    /\ DOMAIN reqs = Notifications /\ DOMAIN awaited = Notifications
    /\ \A m \in Notifications :
          /\ awaited[m] \subseteq 1 .. MaxNames /\ Counted(reqs[m], jobs[m])
          /\ phase[m] = "idle" => future[m] = Unset /\ m \notin trap /\ awaited[m] = {}
          /\ m \in trap => awaited[m] = {}

IInv == LcdInv(t, cg, no, named, spoiled) /\ NtfInv

-----------------------------------------------------------------------------
(* Caches of counted entries.                                              *)

\* u is the cache with one use more of the entry, or with the entry.
UsedMore(u, cache, key, name) ==
    /\ DOMAIN u = DOMAIN cache \cup {key}
    /\ \A k \in DOMAIN cache : k # key => u[k] = cache[k]
    /\ key \in DOMAIN cache => u[key][1] = cache[key][1] /\ u[key][2] = cache[key][2] + 1
    /\ key \notin DOMAIN cache => u[key][1] = name /\ u[key][2] = 1

LEMMA UsedAt ==
    ASSUME NEW cache, NEW key, NEW name
    PROVE  UsedMore(Used(cache, key, name), cache, key, name)
<1> DEFINE entry == IF key \in DOMAIN cache THEN <<cache[key][1], cache[key][2] + 1>> ELSE <<name, 1>>
<1>1. Used(cache, key, name) = Put(cache, key, entry)
  BY DEF Used
<1>2. /\ DOMAIN Put(cache, key, entry) = DOMAIN cache \cup {key} /\ Put(cache, key, entry)[key] = entry
      /\ \A x \in DOMAIN cache : x # key => Put(cache, key, entry)[x] = cache[x]
  BY DEF Put
<1> QED
  BY <1>1, <1>2 DEF UsedMore

\* ... and its cache is still a book, of a name more when there was no entry.
LEMMA UsedBook ==
    ASSUME NEW cache, NEW rows, NEW n \in Nat, NEW m \in Nat, n <= m, Book(cache, rows, n),
           NEW key, NEW name, key \in DOMAIN cache \/ (name \in 1 .. m /\ name > n)
    PROVE  /\ key \in DOMAIN cache => Book(Used(cache, key, name), rows, m)
           /\ key \notin DOMAIN cache => Book(Used(cache, key, name), rows \cup {name}, m)
<1> DEFINE u == Used(cache, key, name)
<1>1. /\ DOMAIN u = DOMAIN cache \cup {key}
      /\ \A k \in DOMAIN cache : k # key => u[k] = cache[k]
      /\ key \in DOMAIN cache => u[key][1] = cache[key][1] /\ u[key][2] = cache[key][2] + 1
      /\ key \notin DOMAIN cache => u[key][1] = name /\ u[key][2] = 1
  <2>1. UsedMore(u, cache, key, name)
    BY UsedAt
  <2> HIDE DEF u
  <2> QED
    BY <2>1 DEF UsedMore
<1>2. /\ IsFiniteSet(DOMAIN cache)
      /\ \A k \in DOMAIN cache : cache[k][1] \in 1 .. n /\ cache[k][2] \in Nat \ {0}
      /\ \A k, l \in DOMAIN cache : cache[k][1] = cache[l][1] => k = l
      /\ rows = {cache[k][1] : k \in DOMAIN cache}
  BY DEF Book
<1> HIDE DEF u
<1>3. IsFiniteSet(DOMAIN u)
  BY <1>1, <1>2, FS_AddElement
<1>4. \A k \in DOMAIN cache : u[k][1] = cache[k][1]
  BY <1>1
<1>5. \A k \in DOMAIN u : u[k][1] \in 1 .. m /\ u[k][2] \in Nat \ {0}
  BY <1>1, <1>2
<1>6. \A k, l \in DOMAIN u : u[k][1] = u[l][1] => k = l
  BY <1>1, <1>2, <1>4
<1>7. {u[k][1] : k \in DOMAIN u} = IF key \in DOMAIN cache THEN rows ELSE rows \cup {name}
  BY <1>1, <1>2, <1>4
<1> QED
  BY <1>3, <1>5, <1>6, <1>7 DEF Book, u

\* r is the cache with less[k] uses less of each entry, without those spent.
UsedLess(r, cache, less) ==
    /\ DOMAIN r = DOMAIN cache \ Spent(cache, less)
    /\ \A k \in DOMAIN cache \ Spent(cache, less) :
          r[k][1] = cache[k][1] /\ r[k][2] = cache[k][2] - less[k]

LEMMA ReleasedAt ==
    ASSUME NEW cache, NEW less
    PROVE  UsedLess(Released(cache, less), cache, less)
BY DEF Released, UsedLess

\* Uses taken back leave a book: the names that went are no row's.
LEMMA ReleasedBook ==
    ASSUME NEW cache, NEW rows, NEW n \in Nat, Book(cache, rows, n),
           NEW less, \A k \in DOMAIN cache : less[k] \in Nat
    PROVE  Book(Released(cache, less), rows \ {cache[k][1] : k \in Spent(cache, less)}, n)
<1> DEFINE r == Released(cache, less)
           S == Spent(cache, less)
<1>1. /\ DOMAIN r = DOMAIN cache \ S
      /\ \A k \in DOMAIN cache \ S : r[k][1] = cache[k][1] /\ r[k][2] = cache[k][2] - less[k]
  BY ReleasedAt DEF UsedLess
<1>2. /\ IsFiniteSet(DOMAIN cache)
      /\ \A k \in DOMAIN cache : cache[k][1] \in 1 .. n /\ cache[k][2] \in Nat \ {0}
      /\ \A k, l \in DOMAIN cache : cache[k][1] = cache[l][1] => k = l
      /\ rows = {cache[k][1] : k \in DOMAIN cache}
  BY DEF Book
<1>3. S \subseteq DOMAIN cache /\ \A k \in DOMAIN cache \ S : ~(cache[k][2] <= less[k])
  BY DEF Spent
<1> HIDE DEF r, S
<1>4. IsFiniteSet(DOMAIN r)
  BY <1>1, <1>2, FS_Subset
<1>5. \A k \in DOMAIN r : r[k][1] \in 1 .. n /\ r[k][2] \in Nat \ {0}
  BY <1>1, <1>2, <1>3
<1>6. \A k, l \in DOMAIN r : r[k][1] = r[l][1] => k = l
  BY <1>1, <1>2
<1>7. {r[k][1] : k \in DOMAIN r} = rows \ {cache[k][1] : k \in S}
  BY <1>1, <1>2, <1>3
<1> QED
  BY <1>4, <1>5, <1>6, <1>7 DEF Book, r, S

\* A book stays one when more names are given.
LEMMA BookGrows ==
    ASSUME NEW cache, NEW rows, NEW n \in Nat, NEW m \in Nat, n <= m, Book(cache, rows, n)
    PROVE  Book(cache, rows, m)
BY DEF Book

-----------------------------------------------------------------------------
(* Counting.                                                               *)

LEMMA CountedWithin ==
    ASSUME NEW T, IsFiniteSet(T), NEW S, S \subseteq T
    PROVE  IsFiniteSet(S) /\ Cardinality(S) \in Nat /\ Cardinality(T) \in Nat /\ Cardinality(S) <= Cardinality(T)
BY FS_Subset, FS_CardinalityType

LEMMA CountedOneMore ==
    ASSUME NEW T, IsFiniteSet(T), NEW x, NEW S, S \subseteq T \cup {x}
    PROVE  /\ IsFiniteSet(S) /\ Cardinality(S) \in Nat /\ Cardinality(T) \in Nat
           /\ Cardinality(S) <= Cardinality(T) + 1
<1>1. /\ IsFiniteSet(T \cup {x}) /\ Cardinality(T) \in Nat
      /\ Cardinality(T \cup {x}) = Cardinality(T) \/ Cardinality(T \cup {x}) = Cardinality(T) + 1
  BY FS_AddElement, FS_CardinalityType
<1>2. IsFiniteSet(S) /\ Cardinality(S) \in Nat /\ Cardinality(S) <= Cardinality(T \cup {x})
  BY <1>1, CountedWithin
<1> QED
  BY <1>1, <1>2

\* A set counts as many as two parts of it.
LEMMA CountedInParts ==
    ASSUME NEW S, IsFiniteSet(S), NEW A, A \subseteq S, NEW B, B = S \ A
    PROVE  /\ Cardinality(S) = Cardinality(A) + Cardinality(B)
           /\ Cardinality(A) \in Nat /\ Cardinality(B) \in Nat
           /\ B # {} => Cardinality(B) > 0
<1>1. IsFiniteSet(A) /\ IsFiniteSet(B) /\ Cardinality(A) \in Nat /\ Cardinality(B) \in Nat
  BY FS_Subset, FS_CardinalityType
<1>2. A \cap B = {} /\ S = A \cup B
  OBVIOUS
<1>3. Cardinality(S) = Cardinality(A) + Cardinality(B)
  <2>1. Cardinality(A \cup B) = Cardinality(A) + Cardinality(B) - Cardinality(A \cap B)
    BY <1>1, FS_Union
  <2> QED
    BY <1>1, <1>2, <2>1, FS_EmptySet
<1>4. B # {} => Cardinality(B) # 0
  BY <1>1, FS_EmptySet
<1> QED
  BY <1>1, <1>3, <1>4

-----------------------------------------------------------------------------
(* The conjuncts, through a use more.                                      *)

\* Credentials kept with one use more of their parameters.
LEMMA AuthUsed ==
    ASSUME NEW auth, NEW parm, NEW rows, NEW n \in Nat, Book(parm, rows, n), AuthOK(auth, parm),
           NEW a \in Credentials, NEW name, NEW new,
           \/ new = auth
           \/ new = Put(auth, a.key, a) /\ (a.kind = User => ~AddV3UserRaises(a.secret))
    PROVE  AuthOK(new, Used(parm, ParamsKey(a), name))
<1> DEFINE u == Used(parm, ParamsKey(a), name)
           Of(x, pk) == {key \in DOMAIN x : ParamsKey(x[key]) = pk}
<1>1. UsedMore(u, parm, ParamsKey(a), name)
  BY UsedAt
<1> HIDE DEF u
<1>2. /\ DOMAIN u = DOMAIN parm \cup {ParamsKey(a)}
      /\ \A k \in DOMAIN parm : k # ParamsKey(a) => u[k] = parm[k]
      /\ ParamsKey(a) \in DOMAIN parm => u[ParamsKey(a)][2] = parm[ParamsKey(a)][2] + 1
      /\ ParamsKey(a) \notin DOMAIN parm => u[ParamsKey(a)][2] = 1
  BY <1>1 DEF UsedMore
<1>3. \A pk \in DOMAIN parm : parm[pk][2] \in Nat
  BY DEF Book
<1>4. /\ IsFiniteSet(DOMAIN auth)
      /\ \A key \in DOMAIN auth :
          /\ auth[key] \in Credentials /\ auth[key].key = key
          /\ auth[key].kind = User => ~AddV3UserRaises(auth[key].secret)
          /\ ParamsKey(auth[key]) \in DOMAIN parm
      /\ \A pk \in DOMAIN parm : parm[pk][2] >= Cardinality(Of(auth, pk))
  BY DEF AuthOK
<1>5. /\ DOMAIN new = DOMAIN auth \/ DOMAIN new = DOMAIN auth \cup {a.key}
      /\ \A key \in DOMAIN new : (key \in DOMAIN auth /\ new[key] = auth[key]) \/ (key = a.key /\ new[key] = a)
  BY DEF Put
<1>6. IsFiniteSet(DOMAIN new)
  BY <1>4, <1>5, FS_AddElement
<1>7. \A key \in DOMAIN new :
          /\ new[key] \in Credentials /\ new[key].key = key
          /\ new[key].kind = User => ~AddV3UserRaises(new[key].secret)
          /\ ParamsKey(new[key]) \in DOMAIN u
  <2>1. CASE new = auth
    BY <2>1, <1>2, <1>4
  <2>2. CASE new = Put(auth, a.key, a) /\ (a.kind = User => ~AddV3UserRaises(a.secret))
    BY <2>2, <1>2, <1>4, <1>5
  <2> QED
    BY <2>1, <2>2
<1>8. ASSUME NEW pk \in DOMAIN u PROVE u[pk][2] >= Cardinality(Of(new, pk))
  <2>1. IsFiniteSet(Of(auth, pk)) /\ Cardinality(Of(auth, pk)) \in Nat
    BY <1>4, CountedWithin
  <2>2. CASE pk # ParamsKey(a)
    <3>1. Of(new, pk) \subseteq Of(auth, pk)
      BY <2>2, <1>5
    <3>2. Cardinality(Of(new, pk)) \in Nat /\ Cardinality(Of(new, pk)) <= Cardinality(Of(auth, pk))
      <4> HIDE DEF Of
      <4> QED
        BY <2>1, <3>1, CountedWithin
    <3> QED
      BY <1>2, <1>3, <1>4, <2>1, <2>2, <3>2
  <2>3. CASE pk = ParamsKey(a)
    <3>1. Of(new, pk) \subseteq Of(auth, pk) \cup {a.key}
      BY <1>5
    <3>2. Cardinality(Of(new, pk)) \in Nat /\ Cardinality(Of(new, pk)) <= Cardinality(Of(auth, pk)) + 1
      <4> HIDE DEF Of
      <4> QED
        BY <2>1, <3>1, CountedOneMore
    <3>3. CASE pk \in DOMAIN parm
      BY <1>2, <1>3, <1>4, <2>1, <2>3, <3>2, <3>3
    <3>4. CASE pk \notin DOMAIN parm
      <4>1. Of(auth, pk) = {}
        BY <1>4, <3>4
      <4>2. Cardinality(Of(auth, pk)) = 0
        BY <4>1, FS_EmptySet
      <4> HIDE DEF Of
      <4> QED
        BY <1>2, <2>3, <3>2, <3>4, <4>2
    <3> QED
      BY <3>3, <3>4
  <2> QED
    BY <2>2, <2>3
<1> QED
  BY <1>6, <1>7, <1>8 DEF AuthOK, u

\* Parameters used once more cover their addresses' uses, and one of an address more.
LEMMA AddrUsed ==
    ASSUME NEW row, NEW addr, NEW parm, NEW rows, NEW n \in Nat,
           Book(parm, rows, n), Book(addr, DOMAIN row, n), AddrOK(row, addr, parm),
           NEW pk, NEW pname, pk \in DOMAIN parm \/ pname > n,
           NEW target, NEW aname, aname > n, NEW v,
           v.domain = target.domain, v.params = Used(parm, pk, pname)[pk][1]
    PROVE  LET ak == <<Used(parm, pk, pname)[pk][1], target>> IN
           /\ AddrOK(row, addr, Used(parm, pk, pname))
           /\ AddrOK(IF ak \in DOMAIN addr THEN row ELSE Put(row, aname, v),
                     Used(addr, ak, aname), Used(parm, pk, pname))
<1> DEFINE u == Used(parm, pk, pname)
           ak == <<u[pk][1], target>>
           w == Used(addr, ak, aname)
           after == IF ak \in DOMAIN addr THEN row ELSE Put(row, aname, v)
<1>1. UsedMore(u, parm, pk, pname) /\ UsedMore(w, addr, ak, aname)
  BY UsedAt
<1>2. /\ \A k \in DOMAIN parm : parm[k][1] \in 1 .. n /\ parm[k][2] \in Nat \ {0}
      /\ \A k, l \in DOMAIN parm : parm[k][1] = parm[l][1] => k = l
      /\ \A k \in DOMAIN addr : addr[k][1] \in 1 .. n /\ addr[k][2] \in Nat \ {0} /\ addr[k][1] \in DOMAIN row
  BY DEF Book
<1>3. \A k \in DOMAIN addr :
        /\ row[addr[k][1]].params = k[1] /\ row[addr[k][1]].domain = k[2].domain
        /\ \E p \in DOMAIN parm : parm[p][1] = k[1] /\ addr[k][2] <= parm[p][2]
  BY DEF AddrOK
<1>4. v.params = u[pk][1] /\ v.domain = target.domain
  OBVIOUS
<1> HIDE DEF u, w
<1>5. /\ DOMAIN u = DOMAIN parm \cup {pk}
      /\ \A k \in DOMAIN parm : k # pk => u[k] = parm[k]
      /\ pk \in DOMAIN parm => u[pk][1] = parm[pk][1] /\ u[pk][2] = parm[pk][2] + 1
      /\ pk \notin DOMAIN parm => u[pk][1] = pname /\ u[pk][2] = 1
  BY <1>1 DEF UsedMore
<1>6. /\ DOMAIN w = DOMAIN addr \cup {ak}
      /\ \A k \in DOMAIN addr : k # ak => w[k] = addr[k]
      /\ ak \in DOMAIN addr => w[ak][1] = addr[ak][1] /\ w[ak][2] = addr[ak][2] + 1
      /\ ak \notin DOMAIN addr => w[ak][1] = aname /\ w[ak][2] = 1
  <2> HIDE DEF ak
  <2> QED
    BY <1>1 DEF UsedMore
<1>7. \A p \in DOMAIN parm : u[p][1] = parm[p][1] /\ u[p][2] \in Nat /\ parm[p][2] <= u[p][2]
  BY <1>2, <1>5
<1>8. \A k \in DOMAIN addr : \E p \in DOMAIN u : u[p][1] = k[1] /\ addr[k][2] <= u[p][2]
  <2> SUFFICES ASSUME NEW k \in DOMAIN addr
               PROVE  \E p \in DOMAIN u : u[p][1] = k[1] /\ addr[k][2] <= u[p][2]
    OBVIOUS
  <2>1. PICK p \in DOMAIN parm : parm[p][1] = k[1] /\ addr[k][2] <= parm[p][2]
    BY <1>3
  <2>2. p \in DOMAIN u /\ u[p][1] = k[1] /\ addr[k][2] <= u[p][2]
    BY <2>1, <1>2, <1>5, <1>7
  <2> QED
    BY <2>2
<1>9. AddrOK(row, addr, u)
  BY <1>3, <1>8 DEF AddrOK
<1>10. \E p \in DOMAIN u : u[p][1] = ak[1] /\ w[ak][2] <= u[p][2]
  <2>1. pk \in DOMAIN u /\ u[pk][1] = ak[1]
    BY <1>5
  <2>2. CASE ak \in DOMAIN addr
    <3>1. PICK p \in DOMAIN parm : parm[p][1] = ak[1] /\ addr[ak][2] <= parm[p][2]
      BY <1>3, <2>2
    <3>2. p = pk
      BY <3>1, <1>2, <1>5
    <3>3. w[ak][2] <= u[pk][2]
      <4>1. w[ak][2] = addr[ak][2] + 1 /\ u[pk][2] = parm[pk][2] + 1 /\ addr[ak][2] <= parm[pk][2]
        BY <3>1, <3>2, <1>5, <1>6, <2>2
      <4> HIDE DEF ak
      <4> QED
        BY <4>1, <1>2, <2>2, <3>1, <3>2
    <3> QED
      BY <2>1, <3>3
  <2>3. CASE ak \notin DOMAIN addr
    <3>1. w[ak][2] = 1
      BY <1>6, <2>3
    <3>2. u[pk][2] \in Nat /\ 1 <= u[pk][2]
      BY <1>2, <1>5
    <3> QED
      BY <2>1, <3>1, <3>2
  <2> QED
    BY <2>2, <2>3
<1>11. \A k \in DOMAIN w : after[w[k][1]].params = k[1] /\ after[w[k][1]].domain = k[2].domain
  <2>1. CASE ak \in DOMAIN addr
    <3>1. DOMAIN w = DOMAIN addr /\ \A k \in DOMAIN addr : w[k][1] = addr[k][1]
      BY <1>6, <2>1
    <3> QED
      BY <3>1, <2>1, <1>3
  <2>2. CASE ak \notin DOMAIN addr
    <3>1. after = Put(row, aname, v)
      BY <2>2
    <3>2. after[aname] = v /\ \A x \in DOMAIN row : x # aname => after[x] = row[x]
      <4> HIDE DEF after
      <4> QED
        BY <3>1 DEF Put
    <3>3. \A k \in DOMAIN addr : w[k][1] = addr[k][1] /\ addr[k][1] # aname /\ addr[k][1] \in DOMAIN row
      BY <1>2, <1>6, <2>2
    <3>4. w[ak][1] = aname /\ ak[1] = u[pk][1] /\ ak[2] = target
      BY <1>6, <2>2
    <3> HIDE DEF after, ak
    <3>5. ASSUME NEW k \in DOMAIN addr
          PROVE  after[w[k][1]].params = k[1] /\ after[w[k][1]].domain = k[2].domain
      BY <3>2, <3>3, <1>3
    <3>6. after[w[ak][1]].params = ak[1] /\ after[w[ak][1]].domain = ak[2].domain
      BY <3>2, <3>4, <1>4
    <3> QED
      BY <3>5, <3>6, <1>6
  <2> QED
    BY <2>1, <2>2
<1>12. \A k \in DOMAIN w : \E p \in DOMAIN u : u[p][1] = k[1] /\ w[k][2] <= u[p][2]
  <2> HIDE DEF ak
  <2> QED
    BY <1>6, <1>8, <1>10
<1>13. AddrOK(after, w, u)
  <2> HIDE DEF after
  <2> QED
    BY <1>11, <1>12 DEF AddrOK
<1> QED
  BY <1>9, <1>13 DEF u, w

\* What the dispatcher made for transports counts after one more.
AutoAfter(auto, d, transport) ==
    IF d \notin transport /\ ~OwnDispatcher THEN IF auto = NotAutomatic THEN 1 ELSE auto + 1 ELSE auto

\* A transport is opened or counted for the address used, unless it is the application's.
LEMMA TransportsUsed ==
    ASSUME NEW transport, NEW auto, NEW tran, NEW addr, NEW names, NEW n \in Nat,
           TransportsOK(transport, auto, tran, addr), Book(addr, names, n),
           NEW ak, NEW aname, NEW d, ak[2].domain = d, NEW new,
           new = IF d \in DOMAIN tran \/ d \notin transport THEN Used(tran, d, d) ELSE tran
    PROVE  TransportsOK(transport \cup {d}, AutoAfter(auto, d, transport), new, Used(addr, ak, aname))
<1> DEFINE w == Used(addr, ak, aname)
           opens == d \notin transport
<1>1. UsedMore(w, addr, ak, aname)
  BY UsedAt
<1> HIDE DEF w
<1>2. DOMAIN w = DOMAIN addr \cup {ak}
  BY <1>1 DEF UsedMore
<1>3. /\ IsFiniteSet(DOMAIN tran) /\ transport = OwnTransports \cup DOMAIN tran
      /\ OwnTransports \cap DOMAIN tran = {}
      /\ \A k \in DOMAIN addr : k[2].domain \in transport
      /\ \A x \in DOMAIN tran : tran[x][2] \in Nat \ {0} /\ tran[x][2] >= Cardinality(In(addr, x))
      /\ auto = IF OwnDispatcher \/ DOMAIN tran = {} THEN NotAutomatic ELSE Cardinality(DOMAIN tran)
  BY DEF TransportsOK
<1>4. /\ DOMAIN new = IF opens THEN DOMAIN tran \cup {d} ELSE DOMAIN tran
      /\ \A x \in DOMAIN tran : x # d => new[x] = tran[x]
      /\ d \in DOMAIN tran => new[d][2] = tran[d][2] + 1
      /\ opens => new[d][2] = 1
  <2>1. UsedMore(Used(tran, d, d), tran, d, d)
    BY UsedAt
  <2> QED
    BY <2>1, <1>3 DEF UsedMore
<1>5. IsFiniteSet(DOMAIN new)
  BY <1>3, <1>4, FS_AddElement
<1>6. transport \cup {d} = OwnTransports \cup DOMAIN new /\ OwnTransports \cap DOMAIN new = {}
  BY <1>3, <1>4
<1>7. \A k \in DOMAIN w : k[2].domain \in transport \cup {d}
  BY <1>2, <1>3
<1>8. IsFiniteSet(DOMAIN addr)
  BY DEF Book
<1>9. ASSUME NEW x \in DOMAIN new
      PROVE  new[x][2] \in Nat \ {0} /\ new[x][2] >= Cardinality(In(w, x))
  <2>1. IsFiniteSet(In(addr, x)) /\ Cardinality(In(addr, x)) \in Nat
    <3>1. In(addr, x) \subseteq DOMAIN addr
      BY DEF In
    <3> QED
      BY <3>1, <1>8, CountedWithin
  <2>2. CASE x # d
    <3>1. In(w, x) \subseteq In(addr, x)
      BY <1>2, <2>2 DEF In
    <3>2. Cardinality(In(w, x)) \in Nat /\ Cardinality(In(w, x)) <= Cardinality(In(addr, x))
      BY <2>1, <3>1, CountedWithin
    <3>3. x \in DOMAIN tran /\ new[x] = tran[x]
      BY <1>4, <2>2
    <3> QED
      BY <1>3, <2>1, <3>2, <3>3
  <2>3. CASE x = d
    <3>1. In(w, x) \subseteq In(addr, x) \cup {ak}
      BY <1>2 DEF In
    <3>2. Cardinality(In(w, x)) \in Nat /\ Cardinality(In(w, x)) <= Cardinality(In(addr, x)) + 1
      BY <2>1, <3>1, CountedOneMore
    <3>3. CASE d \in DOMAIN tran
      <4>1. new[x][2] = tran[x][2] + 1 /\ tran[x][2] \in Nat \ {0} /\ tran[x][2] >= Cardinality(In(addr, x))
        BY <1>3, <1>4, <2>3, <3>3
      <4> QED
        BY <2>1, <3>2, <4>1
    <3>4. CASE opens
      <4>1. In(addr, x) = {}
        BY <1>3, <2>3, <3>4 DEF In
      <4>2. Cardinality(In(addr, x)) = 0
        BY <4>1, FS_EmptySet
      <4> QED
        BY <1>4, <2>3, <3>2, <3>4, <4>2
    <3> QED
      BY <1>3, <1>4, <2>3, <3>3, <3>4
  <2> QED
    BY <2>2, <2>3
<1>10. AutoAfter(auto, d, transport) = IF OwnDispatcher \/ DOMAIN new = {} THEN NotAutomatic ELSE Cardinality(DOMAIN new)
  <2>1. CASE ~opens
    BY <1>3, <1>4, <2>1 DEF AutoAfter
  <2>2. CASE opens /\ OwnDispatcher
    BY <1>3, <2>2 DEF AutoAfter
  <2>3. CASE opens /\ ~OwnDispatcher
    <3>1. d \notin DOMAIN tran /\ DOMAIN new = DOMAIN tran \cup {d}
      BY <1>3, <1>4, <2>3
    <3>2. Cardinality(DOMAIN new) = Cardinality(DOMAIN tran) + 1 /\ Cardinality(DOMAIN tran) \in Nat
      BY <1>3, <3>1, FS_AddElement, FS_CardinalityType
    <3>3. DOMAIN tran = {} <=> Cardinality(DOMAIN tran) = 0
      BY <1>3, FS_EmptySet
    <3> QED
      BY <1>3, <2>3, <3>1, <3>2, <3>3 DEF AutoAfter, NotAutomatic
  <2> QED
    BY <2>1, <2>2, <2>3
<1> QED
  BY <1>5, <1>6, <1>7, <1>9, <1>10 DEF TransportsOK, w

-----------------------------------------------------------------------------
(* Users.                                                                  *)

\* u is the tables, but for those in T.
Leaves(u, tables, T) ==
    DOMAIN u = DOMAIN tables /\ \A x \in DOMAIN tables \ T : u[x] = tables[x]

\* The rows of other names are the same.
SameButFor(new, user, names) ==
    \A row : row[2] \notin names =>
        (row \in DOMAIN new <=> row \in DOMAIN user) /\ (row \in DOMAIN user => new[row] = user[row])

\* delV3User takes the rows of its user, and no others.
NoneOf(new, user, names) ==
    /\ SameButFor(new, user, names)
    /\ \A row \in DOMAIN new : row[2] \notin names
    /\ UserRows(new)

LEMMA UsersDeleted ==
    ASSUME NEW tables, TableNames \subseteq DOMAIN tables, UserRows(tables["user"]), NEW names
    PROVE  /\ Leaves(DelV3Users(tables, names, LocalEngine), tables, {"user", "secret"})
           /\ NoneOf(DelV3Users(tables, names, LocalEngine)["user"], tables["user"], names)
<1> DEFINE user == tables["user"]
           own == {<<LocalEngine, name>> : name \in names}
           derived == {k \in DOMAIN user \ own : user[k].cloneFrom \in own}
           u == DelV3Users(tables, names, LocalEngine)
<1>1. u = [tables EXCEPT !["user"] = Without(@, derived \cup own),
                         !["secret"] = Without(@, names \cup {user[k].name : k \in derived})]
  BY DEF DelV3Users
<1>2. "user" \in DOMAIN tables /\ "secret" \in DOMAIN tables
  BY DEF TableNames
<1>3. u["user"] = Without(user, derived \cup own)
  BY <1>1, <1>2
<1>4. Leaves(u, tables, {"user", "secret"})
  BY <1>1 DEF Leaves
<1>5. ASSUME NEW row \in DOMAIN user PROVE row \in derived \cup own <=> row[2] \in names
  <2>1. /\ row = <<row[1], row[2]>>
        /\ \/ row[1] = LocalEngine /\ user[row].cloneFrom = NotCloned
           \/ user[row].cloneFrom = <<LocalEngine, row[2]>>
    BY DEF UserRows
  <2>2. ASSUME row[2] \in names PROVE row \in derived \cup own
    <3>1. CASE row[1] = LocalEngine
      BY <2>1, <2>2, <3>1
    <3>2. CASE row[1] # LocalEngine
      BY <2>1, <2>2, <3>2
    <3> QED
      BY <3>1, <3>2
  <2>3. ASSUME row \in own PROVE row[2] \in names
    BY <2>3
  <2>4. ASSUME row \in derived PROVE row[2] \in names
    <3>1. PICK name \in names : user[row].cloneFrom = <<LocalEngine, name>>
      BY <2>4
    <3>2. NotCloned # <<LocalEngine, name>>
      BY DEF NotCloned
    <3> QED
      BY <2>1, <3>1, <3>2
  <2> QED
    BY <2>2, <2>3, <2>4
<1>6. DOMAIN u["user"] = {row \in DOMAIN user : row[2] \notin names}
  BY <1>3, <1>5 DEF Without
<1>7. \A row \in DOMAIN u["user"] : u["user"][row] = user[row]
  BY <1>3 DEF Without
<1> HIDE DEF u
<1>8. UserRows(u["user"])
  BY <1>6, <1>7 DEF UserRows
<1> QED
  BY <1>4, <1>6, <1>7, <1>8 DEF NoneOf, SameButFor, u

\* The row addV3User writes.
OwnRow(user, name, key) ==
    Put(user, <<LocalEngine, name>>, [name |-> name, key |-> key, cloneFrom |-> NotCloned])

HasOwnRow(new, user, name, key) ==
    /\ UserRows(new) /\ SameButFor(new, user, {name})
    /\ DOMAIN new = DOMAIN user \cup {<<LocalEngine, name>>}
    /\ new[<<LocalEngine, name>>].key = key
    /\ \A row \in DOMAIN user : row # <<LocalEngine, name>> => new[row] = user[row]

LEMMA OwnRowWritten ==
    ASSUME NEW user, UserRows(user), NEW name, NEW key
    PROVE  HasOwnRow(OwnRow(user, name, key), user, name, key)
<1> DEFINE r == [name |-> name, key |-> key, cloneFrom |-> NotCloned]
           own == <<LocalEngine, name>>
           new == Put(user, own, r)
<1>1. r.name = name /\ r.key = key /\ r.cloneFrom = NotCloned
  OBVIOUS
<1>2. own[1] = LocalEngine /\ own[2] = name /\ own = <<own[1], own[2]>>
  OBVIOUS
<1> HIDE DEF r, own
<1>3. /\ DOMAIN new = DOMAIN user \cup {own} /\ new[own] = r
      /\ \A x \in DOMAIN user : x # own => new[x] = user[x]
  BY DEF Put
<1> HIDE DEF new
<1>4. UserRows(new)
  BY <1>1, <1>2, <1>3 DEF UserRows
<1>5. SameButFor(new, user, {name})
  BY <1>2, <1>3 DEF SameButFor
<1> QED
  BY <1>1, <1>3, <1>4, <1>5 DEF r, own, new, HasOwnRow, OwnRow

LEMMA UserAdded ==
    ASSUME NEW tables, TableNames \subseteq DOMAIN tables, NEW name, NEW key
    PROVE  LET u == AddV3User(tables, name, LocalEngine, key) IN
           /\ Leaves(u, tables, {"user", "secret"})
           /\ \/ AddV3UserRaises(key) /\ u["user"] = tables["user"]
              \/ AddV3UserRaises(key) /\ u["user"] = OwnRow(tables["user"], name, NoKeys)
              \/ ~AddV3UserRaises(key) /\ u["user"] = OwnRow(tables["user"], name, <<key, LocalEngine>>)
<1>1. {"user", "secret"} \subseteq DOMAIN tables
  BY DEF TableNames
<1>2. CASE key = NoBackend
  BY <1>2 DEF AddV3User, AddV3UserRaises, Leaves
<1>3. CASE key # NoBackend /\ key = Unusable
  BY <1>1, <1>3 DEF AddV3User, AddV3UserRaises, Leaves, SetRow, OwnRow
<1>4. CASE key # NoBackend /\ key # Unusable
  BY <1>1, <1>4 DEF AddV3User, AddV3UserRaises, Leaves, SetRow, OwnRow
<1> QED
  BY <1>2, <1>3, <1>4

\* The credentials of other keys are the same.
LikeButFor(new, auth, key) ==
    \A k : k # key => (k \in DOMAIN new <=> k \in DOMAIN auth) /\ (k \in DOMAIN auth => new[k] = auth[k])

\* A user is as it was whose rows are the same, and its entry in the cache.
LEMMA UserUndisturbed ==
    ASSUME NEW user, NEW auth, NEW bad, NEW b,
           HoldsCached(user, auth, bad, b), HoldsNone(user, auth, bad, b.key),
           NEW new, \A row : row[2] \in {b.key, b.securityName} =>
               (row \in DOMAIN new <=> row \in DOMAIN user) /\ (row \in DOMAIN user => new[row] = user[row]),
           NEW auth2, b.key \in DOMAIN auth2 <=> b.key \in DOMAIN auth,
           b.key \in DOMAIN auth => auth2[b.key] = auth[b.key],
           NEW bad2, b.key \in bad => b.key \in bad2
    PROVE  HoldsCached(new, auth2, bad2, b) /\ HoldsNone(new, auth2, bad2, b.key)
<1>1. \A name : Under(auth2, b.key, name) <=> Under(auth, b.key, name)
  BY DEF Under
<1>2. HoldsCached(new, auth2, bad2, b)
  <2> SUFFICES ASSUME Under(auth2, b.key, b.securityName)
               PROVE  /\ \A row \in RowsOf(new, b) : new[row].key \in {<<auth2[b.key].secret, row[1]>>, NoKeys}
                      /\ b.key \notin bad2 => /\ <<LocalEngine, b.securityName>> \in DOMAIN new
                                              /\ \A row \in RowsOf(new, b) : new[row].key # NoKeys
    BY DEF HoldsCached
  <2>1. \A row \in RowsOf(new, b) : row \in RowsOf(user, b) /\ new[row] = user[row]
    BY DEF RowsOf
  <2>2. auth2[b.key] = auth[b.key]
    BY DEF Under
  <2>3. <<LocalEngine, b.securityName>>[2] = b.securityName
    OBVIOUS
  <2>4. Under(auth, b.key, b.securityName)
    BY <1>1
  <2> QED
    BY <2>1, <2>2, <2>3, <2>4 DEF HoldsCached
<1>3. HoldsNone(new, auth2, bad2, b.key)
  BY <1>1 DEF HoldsNone
<1> QED
  BY <1>2, <1>3

\* Users do not share names.
LEMMA NamesApart ==
    ASSUME NEW a \in Credentials, NEW b \in Credentials, a.kind = User, b.kind = User, a.key # b.key
    PROVE  a.securityName \notin {b.key, b.securityName} /\ b.securityName \notin {a.key, a.securityName}
BY LcdAssumption DEF User

\* Rows of one user changed: those of others are as they were.
LEMMA OthersUndisturbed ==
    ASSUME NEW user, NEW auth, NEW bad, UsersOK(user, auth, bad),
           NEW a \in Credentials, a.kind = User,
           NEW new, UserRows(new), SameButFor(new, user, {a.key, a.securityName}),
           NEW auth2, LikeButFor(auth2, auth, a.key),
           NEW bad2, bad \subseteq bad2 \cup {a.key},
           \A b \in Credentials : b.kind = User /\ b.key = a.key => HoldsCached(new, auth2, bad2, b),
           HoldsNone(new, auth2, bad2, a.key)
    PROVE  UsersOK(new, auth2, bad2)
<1> SUFFICES ASSUME NEW b \in Credentials, b.kind = User
             PROVE  HoldsCached(new, auth2, bad2, b) /\ HoldsNone(new, auth2, bad2, b.key)
  BY DEF UsersOK
<1>1. CASE b.key = a.key
  BY <1>1
<1>2. CASE b.key # a.key
  <2>1. {b.key, b.securityName} \cap {a.key, a.securityName} = {}
    BY <1>2, NamesApart
  <2>2. \A row : row[2] \in {b.key, b.securityName} =>
          (row \in DOMAIN new <=> row \in DOMAIN user) /\ (row \in DOMAIN user => new[row] = user[row])
    BY <2>1 DEF SameButFor
  <2>3. HoldsCached(user, auth, bad, b) /\ HoldsNone(user, auth, bad, b.key)
    BY DEF UsersOK
  <2>4. /\ b.key \in DOMAIN auth2 <=> b.key \in DOMAIN auth
        /\ b.key \in DOMAIN auth => auth2[b.key] = auth[b.key]
        /\ b.key \in bad => b.key \in bad2
    BY <1>2 DEF LikeButFor
  <2> QED
    BY <2>2, <2>3, <2>4, UserUndisturbed
<1> QED
  BY <1>1, <1>2

\* What configuring the credentials of a call leaves.
CredentialsLeft(r, a) ==
    /\ Leaves(r.t, t, {"community", "user", "secret"})
    /\ IF r.ok
       THEN /\ \/ r.auth = cg.auth
               \/ r.auth = Put(cg.auth, a.key, a) /\ (a.kind = User => ~AddV3UserRaises(a.secret))
            /\ UsersOK(r.t["user"], r.auth, Mended(a, r))
       ELSE UsersOK(r.t["user"], cg.auth, spoiled \cup {a.key})

LEMMA CommunityConfigured ==
    ASSUME TableNames \subseteq DOMAIN t, UsersOK(t["user"], cg.auth, spoiled),
           NEW a \in Credentials, a.kind = Community
    PROVE  CredentialsLeft(ConfigureAuth(a), a)
<1> DEFINE r == ConfigureAuth(a)
<1>1. a.kind # User
  BY DEF User, Community
<1>2. CASE a.key \in DOMAIN cg.auth
  <2>1. r = [t |-> t, auth |-> cg.auth, ok |-> TRUE]
    BY <1>2 DEF ConfigureAuth
  <2>2. r.t = t /\ r.auth = cg.auth /\ r.ok
    BY <2>1
  <2> HIDE DEF r
  <2>3. Mended(a, r) = spoiled
    BY <2>2 DEF Mended
  <2>4. Leaves(t, t, {"community", "user", "secret"})
    BY DEF Leaves
  <2> QED
    BY <2>2, <2>3, <2>4 DEF CredentialsLeft, r
<1>3. CASE a.key \notin DOMAIN cg.auth
  <2> DEFINE u == AddV1System(t, a.key, a.secret, "", a.securityName)
  <2>1. r = [t |-> u, auth |-> Put(cg.auth, a.key, a), ok |-> TRUE]
    BY <1>3 DEF ConfigureAuth
  <2> HIDE DEF u
  <2>2. r.t = u /\ r.auth = Put(cg.auth, a.key, a) /\ r.ok
    BY <2>1
  <2>3. Leaves(u, t, {"community", "user", "secret"}) /\ u["user"] = t["user"]
    BY DEF u, AddV1System, SetRow, Leaves, TableNames
  <2> HIDE DEF r
  <2>4. UsersOK(u["user"], Put(cg.auth, a.key, a), Mended(a, r))
    <3> DEFINE auth2 == Put(cg.auth, a.key, a)
    <3> SUFFICES ASSUME NEW b \in Credentials, b.kind = User
                 PROVE  HoldsCached(t["user"], auth2, Mended(a, r), b) /\ HoldsNone(t["user"], auth2, Mended(a, r), b.key)
      BY <2>3 DEF UsersOK
    <3>1. b.key # a.key
      BY <1>1, LcdAssumption DEF User
    <3>2. b.key \in spoiled => b.key \in Mended(a, r)
      BY <3>1 DEF Mended
    <3>3. HoldsCached(t["user"], cg.auth, spoiled, b) /\ HoldsNone(t["user"], cg.auth, spoiled, b.key)
      BY DEF UsersOK
    <3>4. /\ b.key \in DOMAIN auth2 <=> b.key \in DOMAIN cg.auth
          /\ b.key \in DOMAIN cg.auth => auth2[b.key] = cg.auth[b.key]
      BY <3>1 DEF Put
    <3> HIDE DEF auth2
    <3> QED
      BY <3>2, <3>3, <3>4, UserUndisturbed
  <2> QED
    BY <1>1, <2>2, <2>3, <2>4 DEF CredentialsLeft, r
<1> QED
  BY <1>2, <1>3

LEMMA UserConfigured ==
    ASSUME TableNames \subseteq DOMAIN t, UsersOK(t["user"], cg.auth, spoiled),
           NEW a \in Credentials, a.kind = User
    PROVE  CredentialsLeft(ConfigureAuth(a), a)
<1> DEFINE r == ConfigureAuth(a)
           name == a.securityName
           known == a.key \in DOMAIN cg.auth
           same == known /\ cg.auth[a.key].secret = a.secret /\ cg.auth[a.key].securityName = a.securityName
           cleared == IF known THEN DelV3User(t, a.key, LocalEngine) ELSE t
           added == AddV3User(cleared, name, LocalEngine, a.secret)
           own == <<LocalEngine, name>>
<1>1. a.kind # Community
  BY DEF User, Community
<1>2. CASE same
  <2>1. r = [t |-> t, auth |-> cg.auth, ok |-> TRUE]
    BY <1>1, <1>2 DEF ConfigureAuth
  <2>2. r.t = t /\ r.auth = cg.auth /\ r.ok
    BY <2>1
  <2> HIDE DEF r
  <2>3. Mended(a, r) = spoiled
    BY <2>2 DEF Mended
  <2>4. Leaves(t, t, {"community", "user", "secret"})
    BY DEF Leaves
  <2> QED
    BY <2>2, <2>3, <2>4 DEF CredentialsLeft, r
<1>3. CASE ~same
  <2>1. r = IF AddV3UserRaises(a.secret) THEN [t |-> added, auth |-> cg.auth, ok |-> FALSE]
            ELSE [t |-> added, auth |-> Put(cg.auth, a.key, a), ok |-> TRUE]
    BY <1>1, <1>3 DEF ConfigureAuth
  <2>2. /\ UserRows(cleared["user"]) /\ SameButFor(cleared["user"], t["user"], {a.key})
        /\ Leaves(cleared, t, {"user", "secret"})
        /\ known => \A row \in DOMAIN cleared["user"] : row[2] # a.key
        /\ \A row \in DOMAIN cleared["user"] : row \in DOMAIN t["user"] /\ cleared["user"][row] = t["user"][row]
    <3>1. CASE known
      <4>1. cleared = DelV3Users(t, {a.key}, LocalEngine)
        BY <3>1 DEF DelV3User
      <4>2. /\ Leaves(cleared, t, {"user", "secret"})
            /\ NoneOf(cleared["user"], t["user"], {a.key})
        BY <4>1, UsersDeleted DEF UsersOK
      <4> HIDE DEF cleared
      <4> QED
        BY <4>2 DEF NoneOf, SameButFor
    <3>2. CASE ~known
      BY <3>2 DEF UsersOK, SameButFor, Leaves
    <3> QED
      BY <3>1, <3>2
  <2>3. ~known => cleared = t
    OBVIOUS
  <2> HIDE DEF cleared
  <2>4. /\ Leaves(added, cleared, {"user", "secret"})
        /\ \/ AddV3UserRaises(a.secret) /\ added["user"] = cleared["user"]
           \/ AddV3UserRaises(a.secret) /\ added["user"] = OwnRow(cleared["user"], name, NoKeys)
           \/ /\ ~AddV3UserRaises(a.secret)
              /\ added["user"] = OwnRow(cleared["user"], name, <<a.secret, LocalEngine>>)
    <3>1. TableNames \subseteq DOMAIN cleared
      BY <2>2 DEF Leaves
    <3> QED
      BY <3>1, UserAdded
  <2> HIDE DEF added
  <2>5. Leaves(added, t, {"community", "user", "secret"})
    BY <2>2, <2>4 DEF Leaves
  <2>6. \A key : HasOwnRow(OwnRow(cleared["user"], name, key), cleared["user"], name, key)
    BY <2>2, OwnRowWritten
  <2>7. UserRows(added["user"]) /\ SameButFor(added["user"], t["user"], {a.key, name})
    <3>1. UserRows(added["user"]) /\ SameButFor(added["user"], cleared["user"], {name})
      <4>1. SameButFor(cleared["user"], cleared["user"], {name})
        BY DEF SameButFor
      <4> QED
        BY <2>2, <2>4, <2>6, <4>1 DEF HasOwnRow
    <3> QED
      BY <3>1, <2>2 DEF SameButFor
  <2> HIDE DEF known
  <2>8. CASE AddV3UserRaises(a.secret)
    <3>1. r.t = added /\ ~r.ok
      BY <2>1, <2>8
    <3> HIDE DEF r
    <3>2. ASSUME NEW row \in DOMAIN added["user"]
          PROVE  \/ row \in DOMAIN t["user"] /\ added["user"][row] = t["user"][row]
                 \/ added["user"][row].key = NoKeys
      <4>1. CASE added["user"] = cleared["user"]
        BY <2>2, <4>1
      <4>2. CASE added["user"] = OwnRow(cleared["user"], name, NoKeys)
        <5>1. HasOwnRow(added["user"], cleared["user"], name, NoKeys)
          BY <2>6, <4>2
        <5> HIDE DEF own
        <5>2. CASE row = own
          BY <5>1, <5>2 DEF HasOwnRow, own
        <5>3. CASE row # own
          <6>1. row \in DOMAIN cleared["user"] /\ added["user"][row] = cleared["user"][row]
            BY <5>1, <5>3 DEF HasOwnRow, own
          <6> QED
            BY <2>2, <6>1
        <5> QED
          BY <5>2, <5>3
      <4> QED
        BY <2>4, <2>8, <4>1, <4>2
    <3>3. ASSUME NEW b \in Credentials, b.kind = User, b.key = a.key
          PROVE  HoldsCached(added["user"], cg.auth, spoiled \cup {a.key}, b)
      <4>1. HoldsCached(t["user"], cg.auth, spoiled, b)
        BY <3>3 DEF UsersOK
      <4> QED
        BY <3>2, <3>3, <4>1 DEF HoldsCached, RowsOf
    <3>4. HoldsNone(added["user"], cg.auth, spoiled \cup {a.key}, a.key)
      <4>1. HoldsNone(t["user"], cg.auth, spoiled, a.key)
        BY DEF UsersOK
      <4> QED
        BY <3>2, <4>1 DEF HoldsNone
    <3>5. UsersOK(added["user"], cg.auth, spoiled \cup {a.key})
      <4>1. LikeButFor(cg.auth, cg.auth, a.key)
        BY DEF LikeButFor
      <4> QED
        BY <2>7, <3>3, <3>4, <4>1, OthersUndisturbed
    <3> QED
      BY <2>5, <3>1, <3>5 DEF CredentialsLeft, r
  <2>9. CASE ~AddV3UserRaises(a.secret)
    <3>1. r.t = added /\ r.auth = Put(cg.auth, a.key, a) /\ r.ok
      BY <2>1, <2>9
    <3> HIDE DEF r
    <3> DEFINE kept == Put(cg.auth, a.key, a)
               key == <<a.secret, LocalEngine>>
    <3>2. a.key \in DOMAIN kept /\ kept[a.key] = a
      BY DEF Put
    <3>3. LikeButFor(kept, cg.auth, a.key)
      BY DEF Put, LikeButFor
    <3> HIDE DEF own, kept, key
    <3>4. /\ UserRows(added["user"]) /\ DOMAIN added["user"] = DOMAIN cleared["user"] \cup {own}
          /\ added["user"][own].key = key
          /\ \A row \in DOMAIN cleared["user"] : row # own => added["user"][row] = cleared["user"][row]
      BY <2>4, <2>6, <2>9 DEF HasOwnRow, own, key
    <3>5. \A row \in DOMAIN added["user"] : row # own =>
            row \in DOMAIN t["user"] /\ added["user"][row] = t["user"][row]
      BY <2>2, <3>4
    <3>6. own[1] = LocalEngine /\ own[2] = name /\ key = <<a.secret, own[1]>> /\ key # NoKeys
      BY DEF own, key, NoKeys
    \* Of the rows under the user's own name none is left, if it was known.
    <3>7. ASSUME NEW row \in DOMAIN added["user"], row[2] = a.key, row # own
          PROVE  ~known /\ added["user"][row].key = NoKeys
      <4>1. ~known
        BY <2>2, <3>4, <3>7
      <4>2. HoldsNone(t["user"], cg.auth, spoiled, a.key) /\ ~Under(cg.auth, a.key, a.key)
        BY <4>1 DEF UsersOK, Under, known
      <4> QED
        BY <3>5, <3>7, <4>1, <4>2 DEF HoldsNone
    <3>8. ASSUME a.key \notin Mended(a, r), name = a.key,
                 NEW row \in DOMAIN added["user"], row[2] = a.key, row # own
          PROVE  FALSE
      <4>1. ~known
        BY <3>7, <3>8
      <4>2. CASE a.key \in spoiled
        <5>1. added["user"][row].cloneFrom # <<LocalEngine, a.key>>
          BY <3>1, <3>8, <4>2 DEF Mended
        <5>2. row = <<row[1], row[2]>> /\ row[1] = LocalEngine
          BY <3>4, <3>8, <5>1 DEF UserRows
        <5> QED
          BY <3>8, <5>2 DEF own
      <4>3. CASE a.key \notin spoiled
        <5>1. HoldsNone(t["user"], cg.auth, spoiled, a.key) /\ ~Under(cg.auth, a.key, a.key)
          BY <4>1 DEF UsersOK, Under, known
        <5> QED
          BY <3>5, <3>8, <4>1, <4>3, <5>1 DEF HoldsNone, known
      <4> QED
        BY <4>2, <4>3
    <3>9. ASSUME NEW b \in Credentials, b.kind = User, b.key = a.key
          PROVE  HoldsCached(added["user"], kept, Mended(a, r), b)
      <4> SUFFICES ASSUME b.securityName = name
                   PROVE  /\ \A row \in RowsOf(added["user"], b) :
                                added["user"][row].key \in {<<a.secret, row[1]>>, NoKeys}
                          /\ a.key \notin Mended(a, r) =>
                                /\ own \in DOMAIN added["user"]
                                /\ \A row \in RowsOf(added["user"], b) : added["user"][row].key # NoKeys
        BY <3>2, <3>9 DEF HoldsCached, Under, own
      <4>1. ASSUME NEW row \in RowsOf(added["user"], b), row # own
            PROVE  row \in DOMAIN added["user"] /\ row[2] = a.key /\ name = a.key
        <5>1. row \in DOMAIN added["user"] /\ row[2] = name /\ (row[1] = LocalEngine \/ name = a.key)
          BY <3>9 DEF RowsOf
        <5>2. row = <<row[1], row[2]>>
          BY <3>4, <5>1 DEF UserRows
        <5> QED
          BY <4>1, <5>1, <5>2 DEF own
      <4> QED
        BY <3>4, <3>6, <3>7, <3>8, <4>1
    <3>10. HoldsNone(added["user"], kept, Mended(a, r), a.key)
      <4> SUFFICES ASSUME name # a.key, NEW row \in DOMAIN added["user"], row[2] = a.key
                   PROVE  added["user"][row].key = NoKeys
        BY <3>2 DEF HoldsNone, Under
      <4> QED
        BY <3>6, <3>7
    <3>11. spoiled \subseteq Mended(a, r) \cup {a.key}
      BY DEF Mended
    <3>12. UsersOK(added["user"], kept, Mended(a, r))
      BY <2>7, <3>3, <3>9, <3>10, <3>11, OthersUndisturbed
    <3> QED
      BY <2>5, <2>9, <3>1, <3>12 DEF CredentialsLeft, r, kept
  <2> QED
    BY <2>8, <2>9
<1> QED
  BY <1>2, <1>3

-----------------------------------------------------------------------------
(* CommandGeneratorLcdConfigurator.configure.                              *)

\* A row written changes its table and no other.
Written(u, tables, table, key, row) ==
    /\ DOMAIN u = DOMAIN tables /\ u[table] = Put(tables[table], key, row)
    /\ \A x \in DOMAIN tables \ {table} : u[x] = tables[x]

LEMMA RowWritten ==
    ASSUME NEW tables, NEW table \in DOMAIN tables, NEW key, NEW row
    PROVE  Written(SetRow(tables, table, key, row), tables, table, key, row)
BY DEF SetRow, Written

\* What is left of the credentials, in the tables a call goes on with.
Credited(tables, auth, a, bad) ==
    /\ Leaves(tables, t, {"community", "user", "secret"})
    /\ \/ auth = cg.auth
       \/ auth = Put(cg.auth, a.key, a) /\ (a.kind = User => ~AddV3UserRaises(a.secret))
    /\ UsersOK(tables["user"], auth, bad)

\* The parameters' row, when they are new.
ParamsTables(tables, a) ==
    IF ParamsKey(a) \notin DOMAIN cg.parm
    THEN AddTargetParams(tables, named + 1, a.securityName, a.level, a.mp) ELSE tables
ParamsName(a) == IF ParamsKey(a) \notin DOMAIN cg.parm THEN named + 1 ELSE cg.parm[ParamsKey(a)][1]
Drawn(a) == named + Bit(ParamsKey(a) \notin DOMAIN cg.parm)

LEMMA ParamsConfigured ==
    ASSUME LcdInv(t, cg, no, named, spoiled), NEW a \in Credentials, NEW tables, NEW auth, NEW bad,
           Credited(tables, auth, a, bad)
    PROVE  /\ Drawn(a) \in Nat /\ named <= Drawn(a) /\ Drawn(a) <= named + 1
           /\ Leaves(ParamsTables(tables, a), t, {"community", "user", "secret", "params"})
           /\ ParamsTables(tables, a)["user"] = tables["user"]
           /\ Book(Used(cg.parm, ParamsKey(a), ParamsName(a)), DOMAIN ParamsTables(tables, a)["params"], Drawn(a))
           /\ AuthOK(auth, Used(cg.parm, ParamsKey(a), ParamsName(a)))
           /\ Used(cg.parm, ParamsKey(a), ParamsName(a))[ParamsKey(a)][1] = ParamsName(a)
           /\ ParamsKey(a) \in DOMAIN cg.parm \/ ParamsName(a) > named
<1> DEFINE pk == ParamsKey(a)
           name == ParamsName(a)
           u == ParamsTables(tables, a)
           parm == Used(cg.parm, pk, name)
<1>1. /\ named \in Nat /\ TableNames \subseteq DOMAIN t
      /\ Book(cg.parm, DOMAIN t["params"], named) /\ AuthOK(cg.auth, cg.parm)
  BY DEF LcdInv
<1>2. UsedMore(parm, cg.parm, pk, name)
  BY UsedAt
<1>3. Leaves(tables, t, {"community", "user", "secret"})
  BY DEF Credited
<1>4. /\ DOMAIN tables = DOMAIN t /\ tables["params"] = t["params"]
      /\ "params" \in DOMAIN t /\ "user" \in DOMAIN t
  BY <1>1, <1>3 DEF Leaves, TableNames
<1>5. AuthOK(auth, parm)
  BY <1>1, AuthUsed DEF Credited
<1>6. CASE pk \in DOMAIN cg.parm
  <2>1. name = cg.parm[pk][1] /\ Drawn(a) = named /\ u = tables
    BY <1>1, <1>6 DEF ParamsName, Drawn, ParamsTables, Bit
  <2> HIDE DEF u, name, pk
  <2>2. Book(parm, DOMAIN t["params"], named)
    <3>1. named <= named
      BY <1>1
    <3> QED
      BY <1>1, <1>6, <3>1, UsedBook, Zenon
  <2>3. parm[pk][1] = name
    BY <1>2, <1>6, <2>1 DEF UsedMore
  <2>4. Leaves(u, t, {"community", "user", "secret", "params"}) /\ u["user"] = tables["user"]
    BY <1>3, <2>1 DEF Leaves
  <2>5. u["params"] = t["params"]
    BY <1>4, <2>1
  <2> QED
    BY <1>1, <1>5, <1>6, <2>1, <2>2, <2>3, <2>4, <2>5 DEF u, name, pk
<1>7. CASE pk \notin DOMAIN cg.parm
  <2>1. name = named + 1 /\ Drawn(a) = named + 1 /\ name \in 1 .. named + 1 /\ name > named
    BY <1>1, <1>7 DEF ParamsName, Drawn, Bit
  <2>2. u = AddTargetParams(tables, named + 1, a.securityName, a.level, a.mp)
    BY <1>7 DEF ParamsTables
  <2>3. PICK row : u = SetRow(tables, "params", named + 1, row)
    BY <2>2 DEF AddTargetParams
  <2> HIDE DEF u, name, pk
  <2>4. Written(u, tables, "params", named + 1, row)
    BY <1>4, <2>3, RowWritten
  <2>5. DOMAIN u["params"] = DOMAIN t["params"] \cup {name}
    BY <1>4, <2>1, <2>4 DEF Written, Put
  <2>6. Leaves(u, t, {"community", "user", "secret", "params"}) /\ u["user"] = tables["user"]
    BY <1>3, <1>4, <2>4 DEF Leaves, Written
  <2>7. Book(parm, DOMAIN t["params"] \cup {name}, named + 1)
    BY <1>1, <1>7, <2>1, UsedBook
  <2>8. parm[pk][1] = name
    BY <1>2, <1>7 DEF UsedMore
  <2> QED
    BY <1>1, <1>5, <2>1, <2>5, <2>6, <2>7, <2>8 DEF u, name, pk
<1> QED
  BY <1>6, <1>7

\* configure writes rows for what it counts, and counts no more than it has transports for.
LEMMA RowsConfigured ==
    ASSUME LcdInv(t, cg, no, named, spoiled), NEW a \in Credentials, NEW tables, NEW auth, NEW bad,
           Credited(tables, auth, a, bad), named + 2 <= MaxNames, NEW target
    PROVE  /\ ConfigureRows(tables, auth, a, target).named \in Nat
           /\ named <= ConfigureRows(tables, auth, a, target).named
           /\ ConfigureRows(tables, auth, a, target).named <= named + 2
           /\ LcdInv(ConfigureRows(tables, auth, a, target).t, ConfigureRows(tables, auth, a, target).cg,
                     no, ConfigureRows(tables, auth, a, target).named, bad)
<1> DEFINE rows == ConfigureRows(tables, auth, a, target)
           pk == ParamsKey(a)
           pname == ParamsName(a)
           u1 == ParamsTables(tables, a)
           parm == Used(cg.parm, pk, pname)
           d == target.domain
           counted == d \in DOMAIN cg.tran
           opens == ~counted /\ d \notin u1["transport"]
           u2 == IF opens THEN AddTransport(u1, d, HasDispatcher) ELSE u1
           tran == IF counted \/ opens THEN Used(cg.tran, d, d) ELSE cg.tran
           ak == <<pname, target>>
           newAddr == ak \notin DOMAIN cg.addr
           aname == Drawn(a) + 1
           addrName == IF newAddr THEN aname ELSE cg.addr[ak][1]
           u3 == IF newAddr THEN AddTargetAddr(u2, addrName, d, target.address, pname, target.tags) ELSE u2
           addr == Used(cg.addr, ak, addrName)
           n == Drawn(a) + Bit(newAddr)
<1>1. /\ named \in Nat /\ TableNames \subseteq DOMAIN t
      /\ DOMAIN cg = {"auth", "parm", "tran", "addr"} /\ DOMAIN no = {"auth", "name"}
      /\ Book(cg.parm, DOMAIN t["params"], named) /\ Book(cg.addr, DOMAIN t["addr"], named)
      /\ Book(no.name, DOMAIN t["notify"], named)
      /\ AddrOK(t["addr"], cg.addr, cg.parm)
      /\ TransportsOK(t["transport"], t["auto"], cg.tran, cg.addr)
  BY DEF LcdInv
<1>2. rows = [t |-> u3, addrName |-> addrName, paramsName |-> pname, named |-> n,
              cg |-> [auth |-> auth, parm |-> parm, tran |-> tran, addr |-> addr]]
  BY DEF ConfigureRows, ParamsKey, ParamsName, ParamsTables, Drawn, AddrKey
<1>3. /\ Drawn(a) \in Nat /\ named <= Drawn(a) /\ Drawn(a) <= named + 1
      /\ Leaves(u1, t, {"community", "user", "secret", "params"}) /\ u1["user"] = tables["user"]
      /\ Book(parm, DOMAIN u1["params"], Drawn(a)) /\ AuthOK(auth, parm)
      /\ parm[pk][1] = pname /\ (pk \in DOMAIN cg.parm \/ pname > named)
  BY ParamsConfigured
<1>4. rows.t = u3 /\ rows.named = n /\ rows.cg = [auth |-> auth, parm |-> parm, tran |-> tran, addr |-> addr]
  <2> HIDE DEF rows, u3, n, parm, tran, addr, pname, addrName
  <2> QED
    BY <1>2
<1>5. /\ n \in Nat /\ Drawn(a) <= n /\ named <= n /\ n <= named + 2
      /\ newAddr => n = aname
      /\ ~newAddr => n = Drawn(a)
  <2> HIDE DEF newAddr
  <2> QED
    BY <1>1, <1>3 DEF Bit
<1> HIDE DEF rows, pk, pname, u1, parm
\* The transports.
<1>6. /\ DOMAIN u1 = DOMAIN t /\ u1["transport"] = t["transport"] /\ u1["auto"] = t["auto"]
      /\ u1["addr"] = t["addr"] /\ u1["notify"] = t["notify"]
      /\ {"transport", "auto", "addr", "notify", "params", "user"} \subseteq DOMAIN t
  BY <1>1, <1>3 DEF Leaves, TableNames
<1>7. counted => d \in t["transport"]
  BY <1>1 DEF TransportsOK
<1>8. opens <=> d \notin t["transport"]
  BY <1>6, <1>7
<1>9. /\ DOMAIN u2 = DOMAIN t
      /\ u2["transport"] = t["transport"] \cup {d}
      /\ u2["auto"] = AutoAfter(t["auto"], d, t["transport"])
      /\ \A x \in DOMAIN t \ {"transport", "auto"} : u2[x] = u1[x]
  <2>1. CASE opens
    <3>1. u2 = AddTransport(u1, d, HasDispatcher)
      BY <2>1
    <3>2. HasDispatcher <=> OwnDispatcher \/ t["auto"] # NotAutomatic
      BY DEF HasDispatcher
    <3>3. OwnDispatcher => t["auto"] = NotAutomatic
      BY <1>1 DEF TransportsOK
    <3>4. d \notin t["transport"]
      BY <1>8, <2>1
    <3> HIDE DEF u2, d, opens
    <3>5. /\ DOMAIN u2 = DOMAIN t
          /\ u2["transport"] = t["transport"] \cup {d}
          /\ \A x \in DOMAIN t \ {"transport", "auto"} : u2[x] = u1[x]
      BY <1>6, <3>1 DEF AddTransport
    <3>6. u2["auto"] = IF (IF HasDispatcher THEN t["auto"] ELSE 0) = NotAutomatic THEN t["auto"]
                       ELSE (IF HasDispatcher THEN t["auto"] ELSE 0) + 1
      BY <1>6, <3>1 DEF AddTransport
    <3>7. 0 # NotAutomatic /\ 0 + 1 = 1
      BY DEF NotAutomatic
    <3>8. u2["auto"] = AutoAfter(t["auto"], d, t["transport"])
      BY <3>2, <3>3, <3>4, <3>6, <3>7 DEF AutoAfter
    <3> QED
      BY <3>4, <3>5, <3>8
  <2>2. CASE ~opens
    <3>1. u2 = u1 /\ d \in t["transport"]
      BY <1>8, <2>2
    <3> HIDE DEF u2, d, opens
    <3> QED
      BY <1>6, <3>1 DEF AutoAfter
  <2> QED
    BY <2>1, <2>2
<1>10. TransportsOK(u2["transport"], u2["auto"], tran, addr)
  <2>1. tran = IF d \in DOMAIN cg.tran \/ d \notin t["transport"] THEN Used(cg.tran, d, d) ELSE cg.tran
    BY <1>8
  <2>2. ak[2].domain = d
    OBVIOUS
  <2> HIDE DEF u2, tran, ak, addrName, d
  <2>3. TransportsOK(t["transport"] \cup {d}, AutoAfter(t["auto"], d, t["transport"]), tran, addr)
    BY <1>1, <2>1, <2>2, TransportsUsed
  <2> QED
    BY <1>9, <2>3
\* The addresses.
<1>11. Book(addr, DOMAIN u3["addr"], n) /\ AddrOK(u3["addr"], addr, parm)
       /\ DOMAIN u3 = DOMAIN t /\ \A x \in DOMAIN t \ {"addr"} : u3[x] = u2[x]
  <2> DEFINE v == [domain |-> d, address |-> target.address, tags |-> target.tags, params |-> pname]
  <2>1. v.domain = target.domain /\ v.params = parm[pk][1]
    BY <1>3
  <2>2. aname > named /\ aname \in Nat
    BY <1>1, <1>3
  <2>3. ak = <<parm[pk][1], target>>
    BY <1>3
  <2>4. AddrOK(IF ak \in DOMAIN cg.addr THEN t["addr"] ELSE Put(t["addr"], aname, v),
               Used(cg.addr, ak, aname), parm)
    <3> HIDE DEF v, aname
    <3> QED
      BY <1>1, <1>3, <2>1, <2>2, <2>3, AddrUsed DEF parm
  <2>5. CASE newAddr
    <3>1. addrName = aname /\ u3 = SetRow(u2, "addr", aname, v) /\ n = aname
      BY <1>5, <2>5 DEF AddTargetAddr
    <3>2. "addr" \in DOMAIN u2 /\ u2["addr"] = t["addr"]
      BY <1>6, <1>9
    <3> HIDE DEF u2, u3, v, aname, addrName, ak, n
    <3>3. Written(u3, u2, "addr", aname, v)
      BY <3>1, <3>2, RowWritten
    <3>4. u3["addr"] = Put(t["addr"], aname, v) /\ DOMAIN u3["addr"] = DOMAIN t["addr"] \cup {aname}
      BY <3>2, <3>3 DEF Written, Put
    <3>5. named <= aname /\ aname \in 1 .. aname
      BY <1>1, <2>2
    <3>6. Book(Used(cg.addr, ak, aname), DOMAIN t["addr"] \cup {aname}, aname)
      BY <1>1, <2>2, <2>5, <3>5, UsedBook
    <3> QED
      BY <1>9, <2>4, <2>5, <3>1, <3>3, <3>4, <3>6 DEF Written
  <2>6. CASE ~newAddr
    <3>1. u3 = u2 /\ n = Drawn(a)
      BY <1>5, <2>6
    <3>2. u2["addr"] = t["addr"]
      BY <1>6, <1>9
    <3>3. Used(cg.addr, ak, aname) = addr
      BY <2>6 DEF Used
    <3>4. AddrOK(t["addr"], addr, parm)
      BY <2>4, <2>6, <3>3
    <3> HIDE DEF u2, u3, n, addrName, ak
    <3>5. Book(addr, DOMAIN t["addr"], Drawn(a))
      BY <1>1, <1>3, <2>6, UsedBook
    <3> QED
      BY <1>9, <3>1, <3>2, <3>4, <3>5
  <2> QED
    BY <2>5, <2>6
<1> HIDE DEF u2, u3, tran, addr, n
<1>12. /\ u3["params"] = u1["params"] /\ u3["notify"] = t["notify"] /\ u3["user"] = tables["user"]
       /\ u3["transport"] = u2["transport"] /\ u3["auto"] = u2["auto"]
  BY <1>3, <1>6, <1>9, <1>11
<1>13. Book(parm, DOMAIN u3["params"], n)
  <2>1. Book(parm, DOMAIN u1["params"], n)
    BY <1>3, <1>5, BookGrows
  <2> QED
    BY <2>1, <1>12
<1>14. Book(no.name, DOMAIN u3["notify"], n)
  <2>1. Book(no.name, DOMAIN t["notify"], n)
    BY <1>1, <1>5, BookGrows
  <2> QED
    BY <2>1, <1>12
<1>15. UsersOK(u3["user"], auth, bad)
  BY <1>12 DEF Credited
<1>16. TransportsOK(u3["transport"], u3["auto"], tran, addr)
  BY <1>10, <1>12
<1>17. n <= MaxNames
  BY <1>1, <1>5, LcdAssumption
<1> DEFINE g == [auth |-> auth, parm |-> parm, tran |-> tran, addr |-> addr]
<1>18. g.auth = auth /\ g.parm = parm /\ g.tran = tran /\ g.addr = addr /\ DOMAIN g = {"auth", "parm", "tran", "addr"}
  OBVIOUS
<1> HIDE DEF g
<1>19. LcdInv(u3, g, no, n, bad)
  BY <1>1, <1>3, <1>5, <1>11, <1>13, <1>14, <1>15, <1>16, <1>17, <1>18 DEF LcdInv
<1> QED
  BY <1>4, <1>5, <1>19 DEF rows, g

\* The credentials of any call, whether they are kept or refused.
LEMMA CredentialsConfigured ==
    ASSUME LcdInv(t, cg, no, named, spoiled), NEW a \in Credentials
    PROVE  CredentialsLeft(ConfigureAuth(a), a)
<1>1. TableNames \subseteq DOMAIN t /\ UsersOK(t["user"], cg.auth, spoiled)
  BY DEF LcdInv
<1>2. a.kind = Community \/ a.kind = User
  BY LcdAssumption DEF Community, User
<1> QED
  BY <1>1, <1>2, CommunityConfigured, UserConfigured

\* Of a call whose credentials were refused nothing but the users' rows is left.
LEMMA CredentialsRefused ==
    ASSUME LcdInv(t, cg, no, named, spoiled), NEW a \in Credentials,
           ~ConfigureAuth(a).ok, RefusedCredentials(a, ConfigureAuth(a))
    PROVE  LcdInv(t', cg', no', named', spoiled')
<1> DEFINE auth == ConfigureAuth(a)
<1>1. t' = auth.t /\ spoiled' = spoiled \cup {a.key} /\ cg' = cg /\ no' = no /\ named' = named /\ ~auth.ok
  BY DEF RefusedCredentials
<1>2. CredentialsLeft(auth, a)
  BY CredentialsConfigured
<1> HIDE DEF auth
<1> DEFINE u == auth.t
           bad == spoiled \cup {a.key}
<1>3. Leaves(u, t, {"community", "user", "secret"}) /\ UsersOK(u["user"], cg.auth, bad)
  BY <1>1, <1>2 DEF CredentialsLeft
<1> HIDE DEF u, bad
<1>4. /\ DOMAIN u = DOMAIN t /\ u["params"] = t["params"] /\ u["addr"] = t["addr"] /\ u["notify"] = t["notify"]
      /\ u["transport"] = t["transport"] /\ u["auto"] = t["auto"]
  BY <1>3 DEF LcdInv, Leaves, TableNames
<1>5. LcdInv(u, cg, no, named, bad)
  BY <1>3, <1>4 DEF LcdInv
<1> QED
  BY <1>1, <1>5 DEF u, bad

\* A call whose transport could not be had leaves parameters, counted.
LEMMA ParametersLeft ==
    ASSUME LcdInv(t, cg, no, named, spoiled), NEW a \in Credentials, NEW auth, NEW bad,
           Credited(auth.t, auth.auth, a, bad), named + 1 <= MaxNames, TransportRefused(auth, a)
    PROVE  LcdInv(t', cg', no', named', bad)
<1> DEFINE pk == ParamsKey(a)
           u == ParamsTables(auth.t, a)
           parm == Used(cg.parm, pk, ParamsName(a))
           n == Drawn(a)
           g == [cg EXCEPT !.auth = auth.auth, !.parm = parm]
<1>1. t' = u /\ cg' = g /\ named' = n /\ no' = no
  BY DEF TransportRefused, ParamsTables, ParamsName, Drawn
<1>2. /\ named \in Nat /\ TableNames \subseteq DOMAIN t
      /\ DOMAIN cg = {"auth", "parm", "tran", "addr"} /\ DOMAIN no = {"auth", "name"}
      /\ Book(cg.parm, DOMAIN t["params"], named) /\ Book(cg.addr, DOMAIN t["addr"], named)
      /\ Book(no.name, DOMAIN t["notify"], named)
      /\ AddrOK(t["addr"], cg.addr, cg.parm)
      /\ TransportsOK(t["transport"], t["auto"], cg.tran, cg.addr)
  BY DEF LcdInv
<1>3. /\ n \in Nat /\ named <= n /\ n <= named + 1
      /\ Leaves(u, t, {"community", "user", "secret", "params"}) /\ u["user"] = (auth.t)["user"]
      /\ Book(parm, DOMAIN u["params"], n) /\ AuthOK(auth.auth, parm)
      /\ (pk \in DOMAIN cg.parm \/ ParamsName(a) > named)
  BY ParamsConfigured
<1>4. g.auth = auth.auth /\ g.parm = parm /\ g.tran = cg.tran /\ g.addr = cg.addr /\ DOMAIN g = DOMAIN cg
  <2> HIDE DEF parm
  <2> QED
    BY <1>2
<1> HIDE DEF u, n, g
<1>5. /\ DOMAIN u = DOMAIN t /\ u["addr"] = t["addr"] /\ u["notify"] = t["notify"]
      /\ u["transport"] = t["transport"] /\ u["auto"] = t["auto"]
  BY <1>2, <1>3 DEF Leaves, TableNames
<1>6. AddrOK(t["addr"], cg.addr, parm)
  <2> DEFINE target == [domain |-> "none"]
             v == [domain |-> "none", params |-> parm[pk][1]]
  <2>1. v.domain = target.domain /\ v.params = parm[pk][1]
    BY Zenon
  <2>2. named + 1 > named
    BY <1>2
  <2> HIDE DEF v, target
  <2> QED
    BY <1>2, <1>3, <2>1, <2>2, AddrUsed
<1> HIDE DEF parm
<1>7. Book(cg.addr, DOMAIN t["addr"], n) /\ Book(no.name, DOMAIN t["notify"], n)
  BY <1>2, <1>3, BookGrows
<1>8. n <= MaxNames
  BY <1>2, <1>3, LcdAssumption
<1>9. UsersOK(u["user"], g.auth, bad)
  BY <1>3, <1>4 DEF Credited
<1>10. LcdInv(u, g, no, n, bad)
  BY <1>2, <1>3, <1>4, <1>5, <1>6, <1>7, <1>8, <1>9 DEF LcdInv
<1> QED
  BY <1>1, <1>10

LEMMA ConfigureKeeps ==
    ASSUME LcdInv(t, cg, no, named, spoiled), NEW a \in Credentials, NEW target, Configure(a, target)
    PROVE  LcdInv(t', cg', no', named', spoiled')
<1> DEFINE auth == ConfigureAuth(a)
           rows == ConfigureRows(auth.t, auth.auth, a, target)
<1>1. named \in Nat /\ named + 2 <= MaxNames /\ named + 1 <= MaxNames
  BY LcdAssumption DEF Configure, LcdInv
<1>2. CASE ~auth.ok /\ RefusedCredentials(a, auth)
  BY <1>2, CredentialsRefused
<1>3. CASE /\ auth.ok /\ spoiled' = Mended(a, auth)
           /\ t' = rows.t /\ cg' = rows.cg /\ named' = rows.named /\ UNCHANGED no
  <2>1. CredentialsLeft(auth, a)
    BY CredentialsConfigured
  <2> HIDE DEF auth
  <2>2. Credited(auth.t, auth.auth, a, Mended(a, auth))
    BY <1>3, <2>1 DEF CredentialsLeft, Credited
  <2>3. LcdInv(rows.t, rows.cg, no, rows.named, Mended(a, auth))
    BY <1>1, <2>2, RowsConfigured
  <2> QED
    BY <1>3, <2>3
<1>4. CASE auth.ok /\ spoiled' = Mended(a, auth) /\ TransportRefused(auth, a)
  <2>1. CredentialsLeft(auth, a)
    BY CredentialsConfigured
  <2> HIDE DEF auth
  <2>2. Credited(auth.t, auth.auth, a, Mended(a, auth))
    BY <1>4, <2>1 DEF CredentialsLeft, Credited
  <2>3. LcdInv(t', cg', no', named', Mended(a, auth))
    BY <1>1, <1>4, <2>2, ParametersLeft
  <2> QED
    BY <1>4, <2>3
<1> QED
  <2> HIDE DEF auth, rows
  <2> QED
    BY <1>2, <1>3, <1>4 DEF Configure, auth, rows

-----------------------------------------------------------------------------
(* CommandGeneratorLcdConfigurator.unconfigure.                            *)

\* The credentials left have the uses left of their parameters: a use is taken back
\* for each of those that went.
LEMMA AuthReleased ==
    ASSUME NEW auth, NEW parm, NEW rows, NEW n \in Nat, Book(parm, rows, n), AuthOK(auth, parm),
           NEW keys, keys \subseteq DOMAIN auth, NEW less,
           \A pk \in DOMAIN parm :
              less[pk] = Cardinality({key \in keys : parm[ParamsKey(auth[key])][1] = parm[pk][1]})
    PROVE  AuthOK(Without(auth, keys), Released(parm, less))
<1> DEFINE left == Without(auth, keys)
           r == Released(parm, less)
           Of(x, pk) == {key \in DOMAIN x : ParamsKey(x[key]) = pk}
           Went(pk) == {key \in keys : parm[ParamsKey(auth[key])][1] = parm[pk][1]}
<1>1. UsedLess(r, parm, less)
  BY ReleasedAt
<1>2. /\ DOMAIN left = DOMAIN auth \ keys
      /\ \A key \in DOMAIN left : left[key] = auth[key]
  BY DEF Without
<1> HIDE DEF r, left
<1>3. /\ \A pk \in DOMAIN parm : parm[pk][2] \in Nat
      /\ \A k, l \in DOMAIN parm : parm[k][1] = parm[l][1] => k = l
  BY DEF Book
<1>4. /\ IsFiniteSet(DOMAIN auth)
      /\ \A key \in DOMAIN auth :
          /\ auth[key] \in Credentials /\ auth[key].key = key
          /\ auth[key].kind = User => ~AddV3UserRaises(auth[key].secret)
          /\ ParamsKey(auth[key]) \in DOMAIN parm
      /\ \A pk \in DOMAIN parm : parm[pk][2] >= Cardinality(Of(auth, pk))
  BY DEF AuthOK
<1>5. ASSUME NEW pk \in DOMAIN parm
      PROVE  /\ less[pk] \in Nat /\ Cardinality(Of(left, pk)) \in Nat
             /\ parm[pk][2] >= less[pk] + Cardinality(Of(left, pk))
             /\ Of(left, pk) # {} => Cardinality(Of(left, pk)) > 0
  <2>1. IsFiniteSet(Of(auth, pk))
    BY <1>4, CountedWithin
  <2>2. Went(pk) \subseteq Of(auth, pk) /\ Of(left, pk) = Of(auth, pk) \ Went(pk)
    BY <1>2, <1>3, <1>4
  <2>3. less[pk] = Cardinality(Went(pk))
    OBVIOUS
  <2> HIDE DEF Of, Went
  <2>4. /\ Cardinality(Of(auth, pk)) = Cardinality(Went(pk)) + Cardinality(Of(left, pk))
        /\ Cardinality(Went(pk)) \in Nat /\ Cardinality(Of(left, pk)) \in Nat
        /\ Of(left, pk) # {} => Cardinality(Of(left, pk)) > 0
    BY <2>1, <2>2, CountedInParts
  <2>5. parm[pk][2] >= Cardinality(Of(auth, pk))
    BY <1>4 DEF Of
  <2> QED
    BY <2>3, <2>4, <2>5
<1>6. /\ DOMAIN r = DOMAIN parm \ Spent(parm, less)
      /\ \A pk \in DOMAIN r : r[pk][2] = parm[pk][2] - less[pk]
  BY <1>1 DEF UsedLess
<1>7. \A pk \in DOMAIN parm : pk \in Spent(parm, less) <=> parm[pk][2] <= less[pk]
  BY DEF Spent
<1>8. IsFiniteSet(DOMAIN left)
  BY <1>2, <1>4, FS_Subset
<1>9. ASSUME NEW key \in DOMAIN left PROVE ParamsKey(left[key]) \in DOMAIN r
  <2> DEFINE pk == ParamsKey(left[key])
  <2>1. pk \in DOMAIN parm /\ key \in Of(left, pk)
    BY <1>2, <1>4
  <2> HIDE DEF pk, Of
  <2>2. Cardinality(Of(left, pk)) > 0 /\ parm[pk][2] >= less[pk] + Cardinality(Of(left, pk))
        /\ less[pk] \in Nat /\ Cardinality(Of(left, pk)) \in Nat
    BY <1>5, <2>1
  <2>3. ~(parm[pk][2] <= less[pk])
    BY <1>3, <2>1, <2>2
  <2> QED
    BY <1>6, <1>7, <2>1, <2>3 DEF pk
<1>10. \A pk \in DOMAIN r : r[pk][2] >= Cardinality(Of(left, pk))
  <2> HIDE DEF Of
  <2> QED
    BY <1>3, <1>5, <1>6
<1> QED
  BY <1>2, <1>4, <1>8, <1>9, <1>10 DEF AuthOK, left, r

\* As many uses are taken back of addresses as of their parameters.
AsMany(addr, lessA, parm, lessP) ==
    /\ \A k \in DOMAIN addr : lessA[k] \in Nat
    /\ \A pk \in DOMAIN parm : lessP[pk] \in Nat
    /\ \A k \in DOMAIN addr : \A pk \in DOMAIN parm : parm[pk][1] = k[1] => lessA[k] = lessP[pk]

LEMMA AddrReleased ==
    ASSUME NEW row, NEW addr, NEW parm, NEW rows, NEW n \in Nat,
           Book(parm, rows, n), Book(addr, DOMAIN row, n), AddrOK(row, addr, parm),
           NEW lessA, NEW lessP, AsMany(addr, lessA, parm, lessP)
    PROVE  AddrOK(Without(row, {addr[k][1] : k \in Spent(addr, lessA)}),
                  Released(addr, lessA), Released(parm, lessP))
<1> DEFINE left == Without(row, {addr[k][1] : k \in Spent(addr, lessA)})
           ra == Released(addr, lessA)
           rp == Released(parm, lessP)
<1>1. UsedLess(ra, addr, lessA) /\ UsedLess(rp, parm, lessP)
  BY ReleasedAt
<1>2. /\ DOMAIN left = DOMAIN row \ {addr[k][1] : k \in Spent(addr, lessA)}
      /\ \A x \in DOMAIN left : left[x] = row[x]
  BY DEF Without
<1> HIDE DEF left, ra, rp
<1>3. /\ \A k \in DOMAIN addr : addr[k][1] \in DOMAIN row /\ addr[k][2] \in Nat
      /\ \A k, l \in DOMAIN addr : addr[k][1] = addr[l][1] => k = l
      /\ \A pk \in DOMAIN parm : parm[pk][2] \in Nat
  BY DEF Book
<1>4. /\ DOMAIN ra = DOMAIN addr \ Spent(addr, lessA) /\ DOMAIN rp = DOMAIN parm \ Spent(parm, lessP)
      /\ \A k \in DOMAIN ra : ra[k][1] = addr[k][1] /\ ra[k][2] = addr[k][2] - lessA[k]
      /\ \A k \in DOMAIN rp : rp[k][1] = parm[k][1] /\ rp[k][2] = parm[k][2] - lessP[k]
  BY <1>1 DEF UsedLess
<1>5. /\ \A k \in DOMAIN addr : k \in Spent(addr, lessA) <=> addr[k][2] <= lessA[k]
      /\ \A k \in DOMAIN parm : k \in Spent(parm, lessP) <=> parm[k][2] <= lessP[k]
      /\ Spent(addr, lessA) \subseteq DOMAIN addr
  BY DEF Spent
<1> SUFFICES ASSUME NEW k \in DOMAIN ra
             PROVE  /\ left[ra[k][1]].params = k[1] /\ left[ra[k][1]].domain = k[2].domain
                    /\ \E pk \in DOMAIN rp : rp[pk][1] = k[1] /\ ra[k][2] <= rp[pk][2]
  BY DEF AddrOK, left, ra, rp
<1>6. /\ row[addr[k][1]].params = k[1] /\ row[addr[k][1]].domain = k[2].domain
      /\ \E pk \in DOMAIN parm : parm[pk][1] = k[1] /\ addr[k][2] <= parm[pk][2]
  BY <1>4 DEF AddrOK
<1>7. addr[k][1] \in DOMAIN left
  BY <1>2, <1>3, <1>4, <1>5
<1>8. \E pk \in DOMAIN rp : rp[pk][1] = k[1] /\ ra[k][2] <= rp[pk][2]
  <2>1. PICK pk \in DOMAIN parm : parm[pk][1] = k[1] /\ addr[k][2] <= parm[pk][2]
    BY <1>6
  <2>2. /\ lessA[k] = lessP[pk] /\ lessA[k] \in Nat /\ addr[k][2] \in Nat /\ parm[pk][2] \in Nat
        /\ ~(addr[k][2] <= lessA[k])
    BY <1>3, <1>4, <1>5, <2>1 DEF AsMany
  <2>3. ~(parm[pk][2] <= lessP[pk])
    BY <2>1, <2>2
  <2>4. pk \in DOMAIN rp /\ rp[pk][1] = k[1] /\ rp[pk][2] = parm[pk][2] - lessP[pk]
    BY <1>4, <1>5, <2>1, <2>3
  <2>5. ra[k][2] = addr[k][2] - lessA[k]
    BY <1>4
  <2> QED
    BY <2>1, <2>2, <2>4, <2>5
<1> QED
  BY <1>2, <1>4, <1>6, <1>7, <1>8

\* The tables' transports, and what the dispatcher counts, after delTransport.
TransportAfter(transport, auto, domains) ==
    IF auto # NotAutomatic /\ auto = Cardinality(domains) THEN {} ELSE transport \ domains
AutoLeft(auto, domains) ==
    IF auto = NotAutomatic \/ auto = Cardinality(domains) THEN NotAutomatic ELSE auto - Cardinality(domains)

\* A transport goes with the last address in its domain, and only with it.
LEMMA TransportsReleased ==
    ASSUME NEW transport, NEW auto, NEW tran, NEW addr, NEW names, NEW n \in Nat,
           TransportsOK(transport, auto, tran, addr), Book(addr, names, n),
           NEW lessA, NEW lessT,
           \A d \in DOMAIN tran : lessT[d] = Cardinality({k \in Spent(addr, lessA) : k[2].domain = d})
    PROVE  TransportsOK(TransportAfter(transport, auto, Spent(tran, lessT)), AutoLeft(auto, Spent(tran, lessT)),
                        Released(tran, lessT), Released(addr, lessA))
<1> DEFINE ra == Released(addr, lessA)
           rt == Released(tran, lessT)
           domains == Spent(tran, lessT)
           after == TransportAfter(transport, auto, domains)
           last == auto # NotAutomatic /\ auto = Cardinality(domains)
           Went(d) == {k \in Spent(addr, lessA) : k[2].domain = d}
<1>1. UsedLess(ra, addr, lessA) /\ UsedLess(rt, tran, lessT)
  BY ReleasedAt
<1>2. /\ IsFiniteSet(DOMAIN tran) /\ transport = OwnTransports \cup DOMAIN tran
      /\ OwnTransports \cap DOMAIN tran = {}
      /\ \A k \in DOMAIN addr : k[2].domain \in transport
      /\ \A d \in DOMAIN tran : tran[d][2] \in Nat \ {0} /\ tran[d][2] >= Cardinality(In(addr, d))
      /\ auto = IF OwnDispatcher \/ DOMAIN tran = {} THEN NotAutomatic ELSE Cardinality(DOMAIN tran)
  BY DEF TransportsOK
<1>3. IsFiniteSet(DOMAIN addr) /\ Spent(addr, lessA) \subseteq DOMAIN addr /\ domains \subseteq DOMAIN tran
  BY DEF Book, Spent
<1>4. \A d \in DOMAIN tran : d \in domains <=> tran[d][2] <= lessT[d]
  BY DEF Spent
<1> HIDE DEF ra, rt, domains
<1>5. /\ DOMAIN ra = DOMAIN addr \ Spent(addr, lessA) /\ DOMAIN rt = DOMAIN tran \ domains
      /\ \A d \in DOMAIN rt : rt[d][2] = tran[d][2] - lessT[d]
  BY <1>1 DEF UsedLess, domains
<1>6. ASSUME NEW d \in DOMAIN tran
      PROVE  /\ lessT[d] \in Nat /\ Cardinality(In(ra, d)) \in Nat
             /\ tran[d][2] >= lessT[d] + Cardinality(In(ra, d))
             /\ In(ra, d) # {} => Cardinality(In(ra, d)) > 0
  <2>1. IsFiniteSet(In(addr, d))
    <3>1. In(addr, d) \subseteq DOMAIN addr
      BY DEF In
    <3> QED
      BY <1>3, <3>1, FS_Subset
  <2>2. Went(d) \subseteq In(addr, d) /\ In(ra, d) = In(addr, d) \ Went(d)
    BY <1>3, <1>5 DEF In
  <2>3. lessT[d] = Cardinality(Went(d))
    OBVIOUS
  <2> HIDE DEF Went
  <2>4. /\ Cardinality(In(addr, d)) = Cardinality(Went(d)) + Cardinality(In(ra, d))
        /\ Cardinality(Went(d)) \in Nat /\ Cardinality(In(ra, d)) \in Nat
        /\ In(ra, d) # {} => Cardinality(In(ra, d)) > 0
    BY <2>1, <2>2, CountedInParts
  <2> QED
    BY <1>2, <2>3, <2>4
<1>7. \A d \in DOMAIN rt : rt[d][2] \in Nat \ {0} /\ rt[d][2] >= Cardinality(In(ra, d))
  BY <1>2, <1>4, <1>5, <1>6
<1>8. IsFiniteSet(DOMAIN rt) /\ IsFiniteSet(domains)
  BY <1>2, <1>3, <1>5, FS_Subset
<1>9. /\ Cardinality(DOMAIN tran) = Cardinality(domains) + Cardinality(DOMAIN rt)
      /\ Cardinality(domains) \in Nat /\ Cardinality(DOMAIN rt) \in Nat
      /\ DOMAIN rt # {} => Cardinality(DOMAIN rt) > 0
      /\ DOMAIN rt = {} => Cardinality(DOMAIN rt) = 0
  <2>1. domains \subseteq DOMAIN tran /\ DOMAIN rt = DOMAIN tran \ domains /\ IsFiniteSet(DOMAIN tran)
    BY <1>2, <1>3, <1>5
  <2>2. Cardinality({}) = 0
    BY FS_EmptySet
  <2>3. /\ Cardinality(DOMAIN tran) = Cardinality(domains) + Cardinality(DOMAIN rt)
        /\ Cardinality(domains) \in Nat /\ Cardinality(DOMAIN rt) \in Nat
        /\ DOMAIN rt # {} => Cardinality(DOMAIN rt) > 0
    BY <2>1, CountedInParts, Zenon
  <2> QED
    BY <2>2, <2>3
<1>10. last <=> ~OwnDispatcher /\ DOMAIN tran # {} /\ DOMAIN rt = {}
  <2>1. DOMAIN rt = {} <=> Cardinality(DOMAIN rt) = 0
    BY <1>8, FS_EmptySet
  <2>2. CASE OwnDispatcher \/ DOMAIN tran = {}
    BY <1>2, <2>2
  <2>3. CASE ~OwnDispatcher /\ DOMAIN tran # {}
    <3>1. auto = Cardinality(DOMAIN tran)
      BY <1>2, <2>3
    <3>2. auto # NotAutomatic
      BY <1>9, <3>1 DEF NotAutomatic
    <3>3. last <=> Cardinality(DOMAIN rt) = 0
      BY <1>9, <3>1, <3>2
    <3> QED
      BY <2>1, <2>3, <3>3
  <2> QED
    BY <2>2, <2>3
<1>11. after = OwnTransports \cup DOMAIN rt
  <2>1. CASE last
    <3>1. OwnTransports = {} /\ DOMAIN rt = {}
      BY <1>10, <2>1, LcdAssumption
    <3> QED
      BY <2>1, <3>1 DEF TransportAfter
  <2>2. CASE ~last
    BY <1>2, <1>3, <1>5, <2>2 DEF TransportAfter
  <2> QED
    BY <2>1, <2>2
<1>12. OwnTransports \cap DOMAIN rt = {}
  BY <1>2, <1>5
<1>13. ASSUME NEW k \in DOMAIN ra PROVE k[2].domain \in OwnTransports \cup DOMAIN rt
  <2> DEFINE d == k[2].domain
  <2>1. CASE d \in DOMAIN tran
    <3>1. In(ra, d) # {}
      BY DEF In
    <3> HIDE DEF d
    <3>2. ~(tran[d][2] <= lessT[d])
      BY <1>2, <1>6, <2>1, <3>1
    <3> QED
      BY <1>4, <1>5, <2>1, <3>2 DEF d
  <2>2. CASE d \notin DOMAIN tran
    BY <1>2, <1>5, <2>2
  <2> QED
    BY <2>1, <2>2
<1>14. AutoLeft(auto, domains) = IF OwnDispatcher \/ DOMAIN rt = {} THEN NotAutomatic ELSE Cardinality(DOMAIN rt)
  BY <1>2, <1>5, <1>9, <1>10 DEF AutoLeft, NotAutomatic
<1> HIDE DEF after
<1>15. TransportsOK(after, AutoLeft(auto, domains), rt, ra)
  BY <1>7, <1>8, <1>11, <1>12, <1>13, <1>14 DEF TransportsOK
<1> QED
  BY <1>15 DEF after, rt, ra, domains

\* The users that went have no rows left, and the others theirs.
LEMMA UsersReleased ==
    ASSUME NEW user, NEW auth, NEW parm, NEW bad, UsersOK(user, auth, bad), AuthOK(auth, parm),
           NEW keys, keys \subseteq DOMAIN auth,
           NEW new, NoneOf(new, user, {key \in keys : auth[key].kind = User})
    PROVE  UsersOK(new, Without(auth, keys), bad \ keys)
<1> DEFINE names == {key \in keys : auth[key].kind = User}
           left == Without(auth, keys)
<1>1. /\ UserRows(new) /\ \A row \in DOMAIN new : row[2] \notin names
      /\ \A row : row[2] \notin names =>
            (row \in DOMAIN new <=> row \in DOMAIN user) /\ (row \in DOMAIN user => new[row] = user[row])
  BY DEF NoneOf, SameButFor
<1>2. DOMAIN left = DOMAIN auth \ keys /\ \A k \in DOMAIN left : left[k] = auth[k]
  BY DEF Without
<1>3. \A key \in DOMAIN auth : auth[key] \in Credentials /\ auth[key].key = key
  BY DEF AuthOK
<1> HIDE DEF left
<1> SUFFICES ASSUME NEW b \in Credentials, b.kind = User
             PROVE  HoldsCached(new, left, bad \ keys, b) /\ HoldsNone(new, left, bad \ keys, b.key)
  BY <1>1 DEF UsersOK, left
<1>4. CASE b.key \in keys
  <2>1. auth[b.key] \in Credentials /\ auth[b.key].key = b.key
    BY <1>3, <1>4
  <2>2. auth[b.key].kind = User
    BY <2>1, LcdAssumption
  <2>3. \A row \in DOMAIN new : row[2] # b.key
    BY <1>1, <1>4, <2>2
  <2>4. \A name : ~Under(left, b.key, name)
    BY <1>2, <1>4 DEF Under
  <2> QED
    BY <2>3, <2>4 DEF HoldsCached, HoldsNone
<1>5. CASE b.key \notin keys
  <2>1. HoldsCached(user, auth, bad, b) /\ HoldsNone(user, auth, bad, b.key)
    BY DEF UsersOK
  <2>2. ASSUME b.securityName \in names PROVE FALSE
    <3>1. /\ auth[b.securityName] \in Credentials /\ auth[b.securityName].key = b.securityName
          /\ auth[b.securityName].kind = User /\ b.securityName # b.key
      BY <1>3, <1>5, <2>2
    <3> QED
      BY <3>1, NamesApart
  <2>3. \A row : row[2] \in {b.key, b.securityName} =>
          (row \in DOMAIN new <=> row \in DOMAIN user) /\ (row \in DOMAIN user => new[row] = user[row])
    BY <1>1, <1>5, <2>2
  <2>4. (b.key \in DOMAIN left <=> b.key \in DOMAIN auth) /\ (b.key \in DOMAIN auth => left[b.key] = auth[b.key])
    BY <1>2, <1>5
  <2> QED
    BY <1>5, <2>1, <2>3, <2>4, UserUndisturbed
<1> QED
  BY <1>4, <1>5

\* Rows destroyed change their table and no other.
Dropped(u, tables, table, keys) ==
    /\ DOMAIN u = DOMAIN tables /\ u[table] = Without(tables[table], keys)
    /\ \A x \in DOMAIN tables \ {table} : u[x] = tables[x]

LEMMA RowsDropped ==
    ASSUME NEW tables, NEW table \in DOMAIN tables, NEW keys
    PROVE  Dropped(DropRows(tables, table, keys), tables, table, keys)
BY DEF DropRows, Dropped

LEMMA TransportsDropped ==
    ASSUME NEW tables, "transport" \in DOMAIN tables, "auto" \in DOMAIN tables, NEW domains
    PROVE  /\ Leaves(DelTransports(tables, domains), tables, {"transport", "auto"})
           /\ DelTransports(tables, domains)["transport"]
                = TransportAfter(tables["transport"], tables["auto"], domains)
           /\ DelTransports(tables, domains)["auto"] = AutoLeft(tables["auto"], domains)
BY DEF DelTransports, Leaves, TransportAfter, AutoLeft

\* The uses credentials that go had of these parameters.
UsesIn(keys, name) == Cardinality({key \in keys : cg.parm[ParamsKey(cg.auth[key])][1] = name})

\* unconfigure takes back what was counted for the credentials, and the rows of it.
LEMMA KeysUnconfigured ==
    ASSUME LcdInv(t, cg, no, named, spoiled), NEW keys, keys \subseteq DOMAIN cg.auth
    PROVE  /\ LcdInv(UnconfigureKeys(keys).t, UnconfigureKeys(keys).cg, no, named, spoiled \ keys)
           /\ DOMAIN UnconfigureKeys(keys).t = DOMAIN t
<1> DEFINE s == UnconfigureKeys(keys)
           parm == [pk \in DOMAIN cg.parm |-> UsesIn(keys, cg.parm[pk][1])]
           addr == [k \in DOMAIN cg.addr |-> UsesIn(keys, k[1])]
           gone == Spent(cg.addr, addr)
           tran == [d \in DOMAIN cg.tran |-> Cardinality({k \in gone : k[2].domain = d})]
           paramsNames == {cg.parm[pk][1] : pk \in Spent(cg.parm, parm)}
           addrNames == {cg.addr[k][1] : k \in gone}
           Of(kind) == {key \in keys : cg.auth[key].kind = kind}
           users == Of(User)
           t1 == DropRows(t, "community", Of(Community))
           t2 == DelV3Users(t1, users, LocalEngine)
           t3 == DropRows(t2, "params", paramsNames)
           t4 == DropRows(t3, "addr", addrNames)
           t5 == DelTransports(t4, Spent(cg.tran, tran))
           g == [auth |-> Without(cg.auth, keys), parm |-> Released(cg.parm, parm),
                 addr |-> Released(cg.addr, addr), tran |-> Released(cg.tran, tran)]
<1>1. s.t = t5 /\ s.cg = g
  BY DEF UnconfigureKeys, UsesIn
<1>2. /\ named \in Nat /\ named <= MaxNames /\ TableNames \subseteq DOMAIN t
      /\ DOMAIN cg = {"auth", "parm", "tran", "addr"} /\ DOMAIN no = {"auth", "name"}
      /\ Book(cg.parm, DOMAIN t["params"], named) /\ Book(cg.addr, DOMAIN t["addr"], named)
      /\ Book(no.name, DOMAIN t["notify"], named)
      /\ AuthOK(cg.auth, cg.parm) /\ AddrOK(t["addr"], cg.addr, cg.parm)
      /\ TransportsOK(t["transport"], t["auto"], cg.tran, cg.addr)
      /\ UsersOK(t["user"], cg.auth, spoiled)
  BY DEF LcdInv
\* What is taken back.
<1>3. IsFiniteSet(keys)
  BY <1>2, FS_Subset DEF AuthOK
<1>4. \A name : UsesIn(keys, name) \in Nat
  BY <1>3, CountedWithin DEF UsesIn
<1>5. /\ \A pk \in DOMAIN cg.parm : parm[pk] \in Nat
      /\ \A k \in DOMAIN cg.addr : addr[k] \in Nat
      /\ \A k \in DOMAIN cg.addr : \A pk \in DOMAIN cg.parm : cg.parm[pk][1] = k[1] => addr[k] = parm[pk]
  BY <1>4
<1>6. \A pk \in DOMAIN cg.parm :
         parm[pk] = Cardinality({key \in keys : cg.parm[ParamsKey(cg.auth[key])][1] = cg.parm[pk][1]})
  BY DEF UsesIn
<1>7. \A d \in DOMAIN cg.tran : tran[d] = Cardinality({k \in Spent(cg.addr, addr) : k[2].domain = d})
  OBVIOUS
<1> HIDE DEF parm, addr, tran
<1>8. AuthOK(Without(cg.auth, keys), Released(cg.parm, parm))
  BY <1>2, <1>6, AuthReleased
<1>9. Book(Released(cg.parm, parm), DOMAIN t["params"] \ paramsNames, named)
  BY <1>2, <1>5, ReleasedBook
<1>10. Book(Released(cg.addr, addr), DOMAIN t["addr"] \ addrNames, named)
  BY <1>2, <1>5, ReleasedBook
<1>11. AddrOK(Without(t["addr"], addrNames), Released(cg.addr, addr), Released(cg.parm, parm))
  <2>1. AsMany(cg.addr, addr, cg.parm, parm)
    BY <1>5 DEF AsMany
  <2> QED
    BY <1>2, <2>1, AddrReleased
<1>12. TransportsOK(TransportAfter(t["transport"], t["auto"], Spent(cg.tran, tran)),
                    AutoLeft(t["auto"], Spent(cg.tran, tran)),
                    Released(cg.tran, tran), Released(cg.addr, addr))
  BY <1>2, <1>7, TransportsReleased
\* The tables.
<1> HIDE DEF s, gone, paramsNames, addrNames, t1, t2, t3, t4, t5
<1>13. {"community", "user", "params", "addr", "notify", "transport", "auto"} \subseteq DOMAIN t
  BY <1>2 DEF TableNames
<1>14. DOMAIN t1 = DOMAIN t /\ \A x \in DOMAIN t \ {"community"} : t1[x] = t[x]
  BY <1>13, RowsDropped DEF Dropped, t1
<1>15. /\ DOMAIN t2 = DOMAIN t /\ \A x \in DOMAIN t \ {"community", "user", "secret"} : t2[x] = t[x]
       /\ NoneOf(t2["user"], t["user"], users)
  <2>1. TableNames \subseteq DOMAIN t1 /\ UserRows(t1["user"]) /\ t1["user"] = t["user"]
    BY <1>2, <1>13, <1>14 DEF UsersOK
  <2>2. Leaves(t2, t1, {"user", "secret"}) /\ NoneOf(t2["user"], t1["user"], users)
    BY <2>1, UsersDeleted DEF t2
  <2> QED
    BY <1>14, <2>1, <2>2 DEF Leaves
<1>16. Dropped(t3, t2, "params", paramsNames) /\ DOMAIN t3 = DOMAIN t
  BY <1>13, <1>15, RowsDropped DEF t3, Dropped
<1>17. Dropped(t4, t3, "addr", addrNames) /\ DOMAIN t4 = DOMAIN t
  BY <1>13, <1>16, RowsDropped DEF t4, Dropped
<1>18. /\ Leaves(t5, t4, {"transport", "auto"})
       /\ t5["transport"] = TransportAfter(t4["transport"], t4["auto"], Spent(cg.tran, tran))
       /\ t5["auto"] = AutoLeft(t4["auto"], Spent(cg.tran, tran))
  BY <1>13, <1>17, TransportsDropped DEF t5
<1>19. /\ t5["params"] = Without(t["params"], paramsNames) /\ t5["addr"] = Without(t["addr"], addrNames)
       /\ t5["notify"] = t["notify"] /\ t5["user"] = t2["user"] /\ DOMAIN t5 = DOMAIN t
       /\ t4["transport"] = t["transport"] /\ t4["auto"] = t["auto"]
  BY <1>13, <1>15, <1>16, <1>17, <1>18 DEF Dropped, Leaves
<1>20. DOMAIN t5["params"] = DOMAIN t["params"] \ paramsNames /\ DOMAIN t5["addr"] = DOMAIN t["addr"] \ addrNames
  BY <1>19 DEF Without
<1>21. UsersOK(t5["user"], Without(cg.auth, keys), spoiled \ keys)
  <2>1. NoneOf(t5["user"], t["user"], {key \in keys : cg.auth[key].kind = User})
    BY <1>15, <1>19
  <2> QED
    BY <1>2, <2>1, UsersReleased
<1>22. /\ g.auth = Without(cg.auth, keys) /\ g.parm = Released(cg.parm, parm) /\ g.addr = Released(cg.addr, addr)
       /\ g.tran = Released(cg.tran, tran) /\ DOMAIN g = {"auth", "parm", "tran", "addr"}
  OBVIOUS
<1> HIDE DEF g
<1>23. LcdInv(t5, g, no, named, spoiled \ keys)
  BY <1>2, <1>8, <1>9, <1>10, <1>11, <1>12, <1>18, <1>19, <1>20, <1>21, <1>22 DEF LcdInv
<1> QED
  BY <1>1, <1>19, <1>23 DEF s

LEMMA UnconfigureKeeps ==
    ASSUME LcdInv(t, cg, no, named, spoiled), NEW keys, Unconfigure(keys)
    PROVE  LcdInv(t', cg', no', named', spoiled')
BY KeysUnconfigured DEF Unconfigure

\* A user's keys for an engine it speaks to are its own.
LEMMA CloneKeeps ==
    ASSUME LcdInv(t, cg, no, named, spoiled), NEW a \in Credentials, a.kind = User, NEW e,
           CloneUser(a.securityName, e)
    PROVE  LcdInv(t', cg', no', named', spoiled')
<1> DEFINE name == a.securityName
           own == <<LocalEngine, name>>
           row == <<e, name>>
           key == IF t["user"][own].key = NoKeys THEN NoKeys ELSE <<t["user"][own].key[1], e>>
           v == [name |-> name, cloneFrom |-> own, key |-> key]
           user == t["user"]
           new == Put(user, row, v)
<1>1. /\ own \in DOMAIN user /\ row \notin DOMAIN user /\ t' = SetRow(t, "user", row, v)
      /\ cg' = cg /\ no' = no /\ named' = named /\ spoiled' = spoiled
  <2>1. own \in DOMAIN user => user[own].name = name
    BY DEF LcdInv, UsersOK, UserRows
  <2> QED
    BY <2>1 DEF CloneUser
<1>2. TableNames \subseteq DOMAIN t /\ UsersOK(user, cg.auth, spoiled) /\ AuthOK(cg.auth, cg.parm)
  BY DEF LcdInv
<1>3. Written(t', t, "user", row, v)
  BY <1>1, <1>2, RowWritten DEF TableNames
<1>4. DOMAIN new = DOMAIN user \cup {row} /\ new[row] = v /\ \A x \in DOMAIN user : x # row => new[x] = user[x]
  BY DEF Put
<1>5. v.name = name /\ v.cloneFrom = own /\ v.key = key
  OBVIOUS
<1>6. row[1] = e /\ row[2] = name /\ row = <<row[1], row[2]>> /\ own[1] = LocalEngine /\ own[2] = name
  OBVIOUS
<1> HIDE DEF v, new, row
<1>7. UserRows(new)
  BY <1>2, <1>4, <1>5, <1>6 DEF UserRows, UsersOK
<1>8. \A x : x[2] # name => (x \in DOMAIN new <=> x \in DOMAIN user) /\ (x \in DOMAIN user => new[x] = user[x])
  BY <1>4, <1>6
\* The clone has keys if the user's own row has them.
<1>9. ASSUME NEW secret, user[own].key \in {<<secret, LocalEngine>>, NoKeys}
      PROVE  key \in {<<secret, e>>, NoKeys} /\ (user[own].key # NoKeys => key # NoKeys)
  <2>1. <<secret, LocalEngine>> # NoKeys /\ <<secret, e>> # NoKeys /\ <<secret, LocalEngine>>[1] = secret
    BY DEF NoKeys
  <2> QED
    BY <1>9, <2>1
<1>10. user[own].key = NoKeys => key = NoKeys
  OBVIOUS
<1> HIDE DEF key, own, name
<1>11. ASSUME NEW b \in Credentials, b.kind = User
       PROVE  HoldsCached(new, cg.auth, spoiled, b) /\ HoldsNone(new, cg.auth, spoiled, b.key)
  <2>1. HoldsCached(user, cg.auth, spoiled, b) /\ HoldsNone(user, cg.auth, spoiled, b.key)
    BY <1>2, <1>11 DEF UsersOK
  <2>2. HoldsCached(new, cg.auth, spoiled, b)
    <3> SUFFICES ASSUME Under(cg.auth, b.key, b.securityName)
                 PROVE  /\ \A x \in RowsOf(new, b) : new[x].key \in {<<cg.auth[b.key].secret, x[1]>>, NoKeys}
                        /\ b.key \notin spoiled => /\ <<LocalEngine, b.securityName>> \in DOMAIN new
                                                   /\ \A x \in RowsOf(new, b) : new[x].key # NoKeys
      BY DEF HoldsCached
    <3>1. \A x \in RowsOf(new, b) : x # row => x \in RowsOf(user, b) /\ new[x] = user[x]
      BY <1>4 DEF RowsOf
    <3>2. ASSUME row \in RowsOf(new, b) PROVE own \in RowsOf(user, b)
      BY <1>1, <1>6, <3>2 DEF RowsOf
    <3>3. <<LocalEngine, b.securityName>> \in DOMAIN user => <<LocalEngine, b.securityName>> \in DOMAIN new
      BY <1>4
    <3>4. ASSUME row \in RowsOf(new, b)
          PROVE  /\ new[row].key \in {<<cg.auth[b.key].secret, row[1]>>, NoKeys}
                 /\ b.key \notin spoiled => new[row].key # NoKeys
      <4>1. /\ user[own].key \in {<<cg.auth[b.key].secret, own[1]>>, NoKeys}
            /\ b.key \notin spoiled => user[own].key # NoKeys
        BY <2>1, <3>2, <3>4 DEF HoldsCached
      <4>2. user[own].key \in {<<cg.auth[b.key].secret, LocalEngine>>, NoKeys}
        BY <1>6, <4>1
      <4>3. key \in {<<cg.auth[b.key].secret, e>>, NoKeys} /\ (user[own].key # NoKeys => key # NoKeys)
        BY <1>9, <4>2
      <4>4. new[row].key = key
        BY <1>4, <1>5
      <4> QED
        BY <1>6, <4>1, <4>3, <4>4
    <3> QED
      BY <2>1, <3>1, <3>3, <3>4 DEF HoldsCached
  <2>3. HoldsNone(new, cg.auth, spoiled, b.key)
    <3> SUFFICES ASSUME ~Under(cg.auth, b.key, b.key)
                 PROVE  /\ \A x \in DOMAIN new : x[2] = b.key => new[x].key = NoKeys
                        /\ b.key \notin DOMAIN cg.auth \cup spoiled => \A x \in DOMAIN new : x[2] # b.key
      BY DEF HoldsNone
    <3> QED
      BY <1>1, <1>4, <1>5, <1>6, <1>10, <2>1 DEF HoldsNone
  <2> QED
    BY <2>2, <2>3
<1>12. UsersOK(new, cg.auth, spoiled)
  BY <1>7, <1>11 DEF UsersOK
<1> DEFINE u == t'
<1>13. u = t'
  OBVIOUS
<1>14. DOMAIN u = DOMAIN t /\ u["user"] = new /\ \A x \in DOMAIN t \ {"user"} : u[x] = t[x]
  BY <1>3 DEF Written, new
<1> HIDE DEF u
<1>15. /\ u["params"] = t["params"] /\ u["addr"] = t["addr"] /\ u["notify"] = t["notify"]
       /\ u["transport"] = t["transport"] /\ u["auto"] = t["auto"]
  BY <1>2, <1>14 DEF TableNames
<1>16. LcdInv(u, cg, no, named, spoiled)
  BY <1>12, <1>14, <1>15 DEF LcdInv
<1> QED
  BY <1>1, <1>13, <1>16

-----------------------------------------------------------------------------
(* NotificationOriginatorLcdConfigurator.                                  *)

\* The tables that nothing counts.
Uncounted == {"context", "group", "access", "view", "community", "secret", "profile", "filter"}

LEMMA UncountedKept ==
    ASSUME NEW u, NEW g, NEW o, NEW n, NEW bad, LcdInv(u, g, o, n, bad), NEW v, Leaves(v, u, Uncounted)
    PROVE  LcdInv(v, g, o, n, bad)
<1>1. TableNames \subseteq DOMAIN u
  BY DEF LcdInv
<1>2. /\ DOMAIN v = DOMAIN u /\ v["params"] = u["params"] /\ v["addr"] = u["addr"]
      /\ v["notify"] = u["notify"] /\ v["transport"] = u["transport"] /\ v["auto"] = u["auto"]
      /\ v["user"] = u["user"]
  BY <1>1 DEF Leaves, TableNames, Uncounted
<1> QED
  BY <1>2 DEF LcdInv

LEMMA AccessDropped ==
    ASSUME NEW tables, NEW users, NEW subtree, NEW ctx
    PROVE  Leaves(DelTrapUsers(tables, users, subtree, ctx), tables, Uncounted)
BY DEF DelTrapUsers, Leaves, Uncounted

\* unconfigure takes back the rows of notifications whose parameters went.
LEMMA UnconfigureNotifyKeeps ==
    ASSUME LcdInv(t, cg, no, named, spoiled), NEW uk, NEW keys, UnconfigureNotify(uk, keys)
    PROVE  LcdInv(t', cg', no', named', spoiled')
<1> DEFINE s == UnconfigureKeys(keys)
           name == [k \in DOMAIN no.name |-> Bit(k[1] \in s.paramsNames)]
           auth == [k \in DOMAIN no.auth |-> Bit(k \in uk)]
           targets == {<<no.name[k][1], k[1]>> : k \in Spent(no.name, name)}
           names == {no.name[k][1] : k \in Spent(no.name, name)}
           u == s.t
           t1 == DropRows(u, "notify", {x[1] : x \in targets})
           t2 == DropRows(t1, "profile", {x[2] : x \in targets})
           t3 == DelTrapUsers(t2, {<<k[2], k[1], k[3]>> : k \in Spent(no.auth, auth)}, TrapSubtree, <<>>)
           o == [name |-> Released(no.name, name), auth |-> Released(no.auth, auth)]
           bad == spoiled \ keys
<1>1. /\ keys \subseteq DOMAIN cg.auth
      /\ t' = t3 /\ cg' = s.cg /\ no' = o /\ named' = named /\ spoiled' = bad
  BY DEF UnconfigureNotify, DelNotificationTargets
<1>2. LcdInv(u, s.cg, no, named, bad) /\ DOMAIN u = DOMAIN t
  BY <1>1, KeysUnconfigured
<1>3. \A k \in DOMAIN no.name : name[k] \in Nat
  BY DEF Bit
<1>4. {x[1] : x \in targets} = names
  <2> DEFINE T(k) == <<no.name[k][1], k[1]>>
  <2>1. \A k : T(k)[1] = no.name[k][1]
    OBVIOUS
  <2>2. targets = {T(k) : k \in Spent(no.name, name)}
    OBVIOUS
  <2> HIDE DEF T, targets, name
  <2> QED
    BY <2>1, <2>2
<1>5. DOMAIN o = {"auth", "name"} /\ o.name = Released(no.name, name)
  OBVIOUS
<1> HIDE DEF name, auth, targets, names, u, t1, t2, t3, o, bad
<1>6. Book(no.name, DOMAIN u["notify"], named) /\ named \in Nat /\ TableNames \subseteq DOMAIN u
  BY <1>2 DEF LcdInv
<1>7. Book(o.name, DOMAIN u["notify"] \ names, named)
  BY <1>3, <1>5, <1>6, ReleasedBook DEF names
<1>8. Dropped(t1, u, "notify", names)
  BY <1>4, <1>6, RowsDropped DEF TableNames, t1
<1>9. Leaves(t2, t1, Uncounted)
  <2>1. "profile" \in DOMAIN t1
    BY <1>6, <1>8 DEF Dropped, TableNames
  <2>2. Dropped(t2, t1, "profile", {x[2] : x \in targets})
    BY <2>1, RowsDropped DEF t2
  <2> QED
    BY <2>2 DEF Dropped, Leaves, Uncounted
<1>10. Leaves(t3, t2, Uncounted)
  BY AccessDropped DEF t3
<1>11. LcdInv(t1, s.cg, o, named, bad)
  <2>1. /\ DOMAIN t1 = DOMAIN u /\ t1["params"] = u["params"] /\ t1["addr"] = u["addr"]
        /\ t1["user"] = u["user"] /\ t1["transport"] = u["transport"] /\ t1["auto"] = u["auto"]
        /\ DOMAIN t1["notify"] = DOMAIN u["notify"] \ names
    BY <1>6, <1>8 DEF Dropped, TableNames, Without
  <2> QED
    BY <1>2, <1>5, <1>7, <2>1 DEF LcdInv
<1>12. LcdInv(t3, s.cg, o, named, bad)
  BY <1>9, <1>10, <1>11, UncountedKept
<1> QED
  BY <1>1, <1>12

-----------------------------------------------------------------------------
(* The rows of a notification, one tag of its target after another.        *)

\* A set of numbers has a least.
LEMMA LeastNumber ==
    ASSUME NEW B, B \subseteq Nat, B # {}
    PROVE  \E m \in B : \A i \in B : m <= i
<1>1. IsWellFoundedOn(OpToRel(<, Nat), Nat)
  BY NatLessThanWellFounded
<1>2. PICK m \in B : \A i \in B : ~ (<<i, m>> \in OpToRel(<, Nat))
  BY <1>1, WFMin
<1>3. \A i \in B : ~ (i < m)
  BY <1>2 DEF OpToRel
<1> QED
  BY <1>3

LEMMA NotificationAdded ==
    ASSUME NEW tables, TableNames \subseteq DOMAIN tables,
           NEW name, NEW params, NEW tag, NEW type
    PROVE  LET u == AddNotificationTarget(tables, name, params, tag, type, NoFilter) IN
           /\ Leaves(u, tables, Uncounted \cup {"notify"})
           /\ DOMAIN u["notify"] = DOMAIN tables["notify"] \cup {name}
<1> DEFINE row == [tag |-> tag, type |-> type]
           t1 == SetRow(tables, "notify", name, row)
           u == SetRow(t1, "profile", params, name)
<1>1. AddNotificationTarget(tables, name, params, tag, type, NoFilter) = u
  BY DEF AddNotificationTarget
<1>2. "notify" \in DOMAIN tables /\ "profile" \in DOMAIN tables
  BY DEF TableNames
<1> HIDE DEF row, t1, u
<1>3. Written(t1, tables, "notify", name, row)
  BY <1>2, RowWritten DEF t1
<1>4. Written(u, t1, "profile", params, name)
  <2>1. "profile" \in DOMAIN t1
    BY <1>2, <1>3 DEF Written
  <2> QED
    BY <2>1, RowWritten DEF u
<1> QED
  BY <1>1, <1>2, <1>3, <1>4 DEF Written, Leaves, Uncounted, Put

LEMMA AccessAdded ==
    ASSUME NEW tables, NEW model, NEW name, NEW level, NEW subtree, NEW ctx
    PROVE  Leaves(AddTrapUser(tables, model, name, level, subtree, ctx), tables, Uncounted)
BY DEF AddTrapUser, AddVacmUser, AddVacmView, AddVacmAccess, AddVacmGroup, AddContext, SetRow, Leaves, Uncounted

\* What the first tags of a target leave: s, of the tables u and the n names there were.
TagsNotified(s, u, n, i) ==
    /\ s.named \in Nat /\ n <= s.named /\ s.named <= n + i
    /\ Book(s.names, DOMAIN s.t["notify"], s.named)
    /\ Leaves(s.t, u, Uncounted \cup {"notify"})

LEMMA TagNotified ==
    ASSUME NEW u, TableNames \subseteq DOMAIN u, NEW n \in Nat, NEW i \in Nat, NEW s, TagsNotified(s, u, n, i),
           NEW params, NEW tag, NEW type
    PROVE  TagsNotified(NotifyRow(s, params, tag, type), u, n, i + 1)
<1> DEFINE nk == <<params, tag, type>>
           fresh == nk \notin DOMAIN s.names
           name == IF fresh THEN s.named + 1 ELSE s.names[nk][1]
           tables == IF fresh THEN AddNotificationTarget(s.t, name, params, tag, type, NoFilter) ELSE s.t
           names == Used(s.names, nk, name)
           r == NotifyRow(s, params, tag, type)
<1>1. r.t = tables /\ r.named = s.named + Bit(fresh) /\ r.names = names
  BY DEF NotifyRow
<1>2. /\ s.named \in Nat /\ n <= s.named /\ s.named <= n + i
      /\ Book(s.names, DOMAIN s.t["notify"], s.named)
      /\ Leaves(s.t, u, Uncounted \cup {"notify"}) /\ TableNames \subseteq DOMAIN s.t
  BY DEF TagsNotified, Leaves
<1> HIDE DEF r, nk
<1>3. CASE fresh
  <2>1. r.named = s.named + 1 /\ name = s.named + 1
    BY <1>1, <1>3 DEF Bit
  <2>2. tables = AddNotificationTarget(s.t, name, params, tag, type, NoFilter)
    BY <1>3
  <2> HIDE DEF name, tables
  <2>3. /\ Leaves(tables, s.t, Uncounted \cup {"notify"})
        /\ DOMAIN tables["notify"] = DOMAIN s.t["notify"] \cup {name}
    BY <1>2, <2>2, NotificationAdded
  <2>4. s.named + 1 \in Nat /\ s.named <= s.named + 1 /\ name \in 1 .. s.named + 1 /\ name > s.named
    BY <1>2, <2>1
  <2>5. Book(names, DOMAIN s.t["notify"] \cup {name}, s.named + 1)
    BY <1>2, <1>3, <2>4, UsedBook
  <2>6. Leaves(tables, u, Uncounted \cup {"notify"})
    BY <1>2, <2>3 DEF Leaves
  <2> QED
    BY <1>1, <1>2, <2>1, <2>3, <2>5, <2>6 DEF TagsNotified, r
<1>4. CASE ~fresh
  <2>1. r.named = s.named /\ tables = s.t
    BY <1>1, <1>2, <1>4 DEF Bit
  <2>2. s.named <= s.named
    BY <1>2
  <2> HIDE DEF name, tables
  <2>3. Book(names, DOMAIN s.t["notify"], s.named)
    BY <1>2, <1>4, <2>2, UsedBook
  <2> QED
    BY <1>1, <1>2, <2>1, <2>3 DEF TagsNotified, r
<1> QED
  BY <1>3, <1>4

\* f is what the tags leave, one after the other: of s, the first 0, 1, ... of them.
Notified(f, s, params, tags, type, N) ==
    f = [i \in 0 .. N |-> IF i = 0 THEN s ELSE NotifyRow(f[i - 1], params, tags[i], type)]

LEMMA NotifiedExists ==
    ASSUME NEW s, NEW params, NEW tags, NEW type, NEW N \in Nat
    PROVE  \E f : Notified(f, s, params, tags, type, N)
<1> DEFINE Bad == {m \in Nat : ~ \E f : Notified(f, s, params, tags, type, m)}
<1> SUFFICES Bad = {}
  OBVIOUS
<1> SUFFICES ASSUME Bad # {} PROVE FALSE
  OBVIOUS
<1>1. PICK m \in Bad : \A i \in Bad : m <= i
  <2>1. Bad \subseteq Nat
    OBVIOUS
  <2> HIDE DEF Bad
  <2> QED
    BY <2>1, LeastNumber
<1>2. m \in Nat /\ ~ \E f : Notified(f, s, params, tags, type, m)
  BY <1>1
<1>3. CASE m = 0
  <2> DEFINE f == [i \in 0 .. 0 |-> s]
  <2>1. Notified(f, s, params, tags, type, 0)
    <3>1. \A i \in 0 .. 0 : i = 0
      OBVIOUS
    <3> QED
      BY <3>1 DEF Notified
  <2> QED
    BY <1>2, <1>3, <2>1
<1>4. CASE m # 0
  <2>1. m - 1 \in Nat /\ ~(m <= m - 1)
    BY <1>2, <1>4
  <2>2. m - 1 \notin Bad
    BY <1>1, <2>1
  <2>3. PICK f : Notified(f, s, params, tags, type, m - 1)
    BY <2>1, <2>2
  <2> HIDE DEF Bad
  <2> DEFINE g == [i \in 0 .. m |-> IF i = m THEN NotifyRow(f[m - 1], params, tags[m], type) ELSE f[i]]
             h == [i \in 0 .. m |-> IF i = 0 THEN s ELSE NotifyRow(g[i - 1], params, tags[i], type)]
  <2>4. \A i \in 0 .. m : i # m => g[i] = f[i]
    OBVIOUS
  <2>5. g[m] = NotifyRow(f[m - 1], params, tags[m], type)
    BY <1>2
  <2>6. \A i \in 0 .. m - 1 : f[i] = IF i = 0 THEN s ELSE NotifyRow(f[i - 1], params, tags[i], type)
    BY <2>3 DEF Notified
  <2>7. DOMAIN g = 0 .. m /\ DOMAIN h = 0 .. m
    OBVIOUS
  <2>8. \A i \in 0 .. m : h[i] = IF i = 0 THEN s ELSE NotifyRow(g[i - 1], params, tags[i], type)
    BY Zenon
  <2>9. ASSUME NEW i \in 0 .. m PROVE g[i] = h[i]
    <3> HIDE DEF g, h
    <3>1. CASE i = m
      <4>1. m - 1 \in 0 .. m /\ m - 1 # m
        BY <1>2, <1>4
      <4>2. g[m - 1] = f[m - 1]
        BY <2>4, <4>1
      <4> QED
        BY <1>2, <1>4, <2>5, <2>8, <3>1, <4>2
    <3>2. CASE i # m /\ i # 0
      <4>1. i \in 0 .. m - 1 /\ i - 1 \in 0 .. m /\ i - 1 # m
        BY <1>2, <3>2
      <4>2. g[i] = f[i] /\ g[i - 1] = f[i - 1]
        BY <2>4, <3>2, <4>1
      <4> QED
        BY <2>6, <2>8, <3>2, <4>1, <4>2
    <3>3. CASE i # m /\ i = 0
      <4>1. i \in 0 .. m - 1
        BY <1>2, <3>3
      <4> QED
        BY <2>4, <2>6, <2>8, <3>3, <4>1
    <3> QED
      BY <3>1, <3>2, <3>3
  <2>10. g = [i \in 0 .. m |-> g[i]] /\ h = [i \in 0 .. m |-> h[i]]
    OBVIOUS
  <2>11. g = h
    <3> HIDE DEF g, h
    <3> QED
      BY <2>9, <2>10
  <2>12. Notified(g, s, params, tags, type, m)
    <3> HIDE DEF g
    <3> QED
      BY <2>11 DEF Notified, h
  <2> QED
    BY <1>2, <2>12
<1> QED
  BY <1>3, <1>4

\* Every tag has its row, and no other table changes.
LEMMA TagsAreNotified ==
    ASSUME NEW u, TableNames \subseteq DOMAIN u, NEW n \in Nat, NEW s, TagsNotified(s, u, n, 0),
           NEW params, NEW tags, NEW type, NEW N \in Nat, NEW f, Notified(f, s, params, tags, type, N)
    PROVE  TagsNotified(f[N], u, n, N)
<1> DEFINE Bad == {i \in 0 .. N : ~TagsNotified(f[i], u, n, i)}
<1> SUFFICES Bad = {}
  OBVIOUS
<1> SUFFICES ASSUME Bad # {} PROVE FALSE
  OBVIOUS
<1>1. PICK m \in Bad : \A i \in Bad : m <= i
  <2>1. Bad \subseteq Nat
    OBVIOUS
  <2> HIDE DEF Bad
  <2> QED
    BY <2>1, LeastNumber
<1>2. m \in 0 .. N /\ ~TagsNotified(f[m], u, n, m)
  BY <1>1
<1>3. \A i \in 0 .. N : f[i] = IF i = 0 THEN s ELSE NotifyRow(f[i - 1], params, tags[i], type)
  BY DEF Notified
<1>4. CASE m = 0
  BY <1>2, <1>3, <1>4
<1>5. CASE m # 0
  <2>1. m - 1 \in 0 .. N /\ m - 1 \in Nat /\ ~(m <= m - 1) /\ m = (m - 1) + 1
    BY <1>2, <1>5
  <2>2. TagsNotified(f[m - 1], u, n, m - 1)
    BY <1>1, <2>1
  <2> HIDE DEF Bad
  <2>3. TagsNotified(NotifyRow(f[m - 1], params, tags[m], type), u, n, (m - 1) + 1)
    BY <2>1, <2>2, TagNotified
  <2>4. f[m] = NotifyRow(f[m - 1], params, tags[m], type)
    BY <1>2, <1>3, <1>5
  <2> QED
    BY <1>2, <2>1, <2>3, <2>4
<1> QED
  BY <1>4, <1>5

\* The rows of a notification and of its target.
LEMMA NotifyConfigured ==
    ASSUME NEW rows, NEW bad, LcdInv(rows.t, rows.cg, no, rows.named, bad),
           NEW a, NEW target, NEW type, NEW ctx, Len(target.tags) \in Nat,
           rows.named + Len(target.tags) <= MaxNames
    PROVE  LET c == ConfigureNotify(rows, a, target, type, ctx) IN LcdInv(c.t, c.cg, c.no, c.named, bad)
<1> DEFINE N == Len(target.tags)
           after[i \in 0 .. N] ==
              IF i = 0 THEN [t |-> rows.t, named |-> rows.named, names |-> no.name, name |-> 0]
              ELSE NotifyRow(after[i - 1], rows.paramsName, target.tags[i], type)
           s0 == [t |-> rows.t, named |-> rows.named, names |-> no.name, name |-> 0]
           s == after[N]
           uk == NotifyKey(a, ctx)
           tables == IF uk \in DOMAIN no.auth THEN s.t
                     ELSE AddTrapUser(s.t, uk[2], uk[1], uk[3], TrapSubtree, ctx)
           o == [name |-> s.names, auth |-> Used(no.auth, uk, a)]
           c == ConfigureNotify(rows, a, target, type, ctx)
<1>1. c = [t |-> tables, cg |-> rows.cg, named |-> s.named, name |-> s.name, no |-> o]
  BY DEF ConfigureNotify
<1>2. Notified(after, s0, rows.paramsName, target.tags, type, N)
  <2>1. \E f : Notified(f, s0, rows.paramsName, target.tags, type, N)
    BY NotifiedExists
  <2> QED
    BY <2>1, Zenon DEF Notified
<1>3. /\ s0.t = rows.t /\ s0.named = rows.named /\ s0.names = no.name
      /\ o.name = s.names /\ DOMAIN o = {"auth", "name"}
  OBVIOUS
<1>4. c.t = tables /\ c.cg = rows.cg /\ c.named = s.named /\ c.no = o
  <2> HIDE DEF c, tables, s, o
  <2> QED
    BY <1>1
<1> HIDE DEF after, s0, c, tables, o
<1> DEFINE u == rows.t
           n == rows.named
<1>5. /\ n \in Nat /\ TableNames \subseteq DOMAIN u /\ Book(no.name, DOMAIN u["notify"], n)
  BY DEF LcdInv
<1>6. TagsNotified(s0, u, n, 0)
  <2>1. Leaves(u, u, Uncounted \cup {"notify"}) /\ n <= n /\ n <= n + 0
    BY <1>5 DEF Leaves
  <2> QED
    BY <1>3, <1>5, <2>1 DEF TagsNotified
<1>7. TagsNotified(s, u, n, N)
  BY <1>2, <1>5, <1>6, TagsAreNotified
<1> HIDE DEF s, N
<1>8. /\ s.named \in Nat /\ n <= s.named /\ s.named <= MaxNames
      /\ Book(s.names, DOMAIN s.t["notify"], s.named)
      /\ Leaves(s.t, u, Uncounted \cup {"notify"})
  <2>1. s.named <= n + N /\ n + N <= MaxNames /\ N \in Nat
    BY <1>7 DEF TagsNotified, N
  <2>2. s.named \in Nat /\ s.named <= MaxNames
    BY <1>5, <1>7, <2>1, LcdAssumption DEF TagsNotified
  <2> QED
    BY <1>7, <2>2 DEF TagsNotified
<1>9. /\ DOMAIN s.t = DOMAIN u /\ s.t["params"] = u["params"] /\ s.t["addr"] = u["addr"]
      /\ s.t["transport"] = u["transport"] /\ s.t["auto"] = u["auto"] /\ s.t["user"] = u["user"]
  BY <1>5, <1>8 DEF Leaves, Uncounted, TableNames
<1>10. Book(rows.cg.parm, DOMAIN u["params"], s.named) /\ Book(rows.cg.addr, DOMAIN u["addr"], s.named)
  BY <1>5, <1>8, BookGrows DEF LcdInv
<1>11. LcdInv(s.t, rows.cg, o, s.named, bad)
  BY <1>3, <1>8, <1>9, <1>10 DEF LcdInv
<1>12. Leaves(tables, s.t, Uncounted)
  BY AccessAdded DEF tables, Leaves
<1>13. LcdInv(tables, rows.cg, o, s.named, bad)
  BY <1>11, <1>12, UncountedKept
<1> QED
  BY <1>4, <1>13 DEF c

-----------------------------------------------------------------------------
(* The application's calls keep the configuration's invariant.             *)

LEMMA ConfigurationKept ==
    ASSUME LcdInv(t, cg, no, named, spoiled), LcdNext
    PROVE  LcdInv(t', cg', no', named', spoiled')
<1>1. CASE \E a \in Credentials, target \in Targets : Configure(a, target)
  BY <1>1, ConfigureKeeps
<1>2. CASE \E a \in Credentials, e \in Engines : a.kind = User /\ CloneUser(a.securityName, e)
  BY <1>2, CloneKeeps
<1>3. CASE \E keys \in {{a.key} : a \in Credentials} \cup {DOMAIN cg.auth} : Unconfigure(keys)
  BY <1>3, UnconfigureKeeps
<1>4. CASE \E use \in {<<{NotifyKey(a, ctx)}, {a.key}>> : a \in Credentials, ctx \in Contexts}
                 \cup {<<DOMAIN no.auth, DOMAIN cg.auth>>} : UnconfigureNotify(use[1], use[2])
  BY <1>4, UnconfigureNotifyKeeps
<1> QED
  BY <1>1, <1>2, <1>3, <1>4 DEF LcdNext

\* A target's tags are a sequence, the one derived from the call included.
LEMMA TagsAreCounted ==
    ASSUME NEW a, NEW target \in Targets
    PROVE  Len(Tagged(a, target).tags) \in Nat
<1>1. target \in [domain : STRING, address : STRING, tags : Seq(STRING)]
  BY LcdAssumption
<1>2. CASE target.tags # <<>>
  BY <1>1, <1>2 DEF Tagged
<1>3. CASE target.tags = <<>>
  <2>1. Tagged(a, target).tags = <<<<a.securityName, target.address>>>>
    BY <1>1, <1>3 DEF Tagged
  <2> QED
    BY <2>1
<1> QED
  BY <1>2, <1>3

LEMMA SendingKeepsConfiguration ==
    ASSUME LcdInv(t, cg, no, named, spoiled),
           NEW n, NEW a \in Credentials, NEW given \in Targets, NEW type, NEW ctx,
           SendNotification(n, a, given, type, ctx)
    PROVE  LcdInv(t', cg', no', named', spoiled')
<1> DEFINE target == Tagged(a, given)
           auth == ConfigureAuth(a)
           rows == ConfigureRows(auth.t, auth.auth, a, target)
           c == ConfigureNotify(rows, a, target, type, ctx)
           refused == /\ phase' = [phase EXCEPT ![n] = "refused"]
                      /\ UNCHANGED <<future, trap, reqs, awaited, jobs>>
<1>1. /\ named + 2 + Len(target.tags) <= MaxNames
      /\ \/ ~auth.ok /\ RefusedCredentials(a, auth)
         \/ /\ auth.ok /\ spoiled' = Mended(a, auth)
            /\ \/ TransportRefused(auth, a)
               \/ t' = c.t /\ cg' = c.cg /\ no' = c.no /\ named' = c.named
  BY DEF SendNotification
<1>2. Len(target.tags) \in Nat
  BY TagsAreCounted
<1> DEFINE N == Len(target.tags)
<1> HIDE DEF target, N
<1>3. named \in Nat /\ MaxNames \in Nat /\ N \in Nat /\ named + 2 + N <= MaxNames
  <2>1. named \in Nat
    BY DEF LcdInv
  <2> QED
    BY <1>1, <1>2, <2>1, LcdAssumption DEF N
<1>4. named + 2 <= MaxNames /\ named + 1 <= MaxNames
  BY <1>3
<1>5. CredentialsLeft(auth, a)
  BY CredentialsConfigured
<1>6. CASE ~auth.ok /\ RefusedCredentials(a, auth)
  BY <1>6, CredentialsRefused
<1>7. CASE auth.ok /\ spoiled' = Mended(a, auth)
  <2> HIDE DEF auth
  <2>1. Credited(auth.t, auth.auth, a, Mended(a, auth))
    BY <1>5, <1>7 DEF CredentialsLeft, Credited
  <2>2. CASE TransportRefused(auth, a)
    <3>1. LcdInv(t', cg', no', named', Mended(a, auth))
      BY <1>4, <2>1, <2>2, ParametersLeft
    <3> QED
      BY <1>7, <3>1
  <2>3. CASE t' = c.t /\ cg' = c.cg /\ no' = c.no /\ named' = c.named
    <3>1. /\ rows.named \in Nat /\ named <= rows.named /\ rows.named <= named + 2
          /\ LcdInv(rows.t, rows.cg, no, rows.named, Mended(a, auth))
      BY <1>4, <2>1, RowsConfigured
    <3> HIDE DEF rows
    <3>2. rows.named + N <= MaxNames
      BY <1>3, <3>1
    <3>3. LcdInv(c.t, c.cg, c.no, c.named, Mended(a, auth))
      BY <1>2, <3>1, <3>2, NotifyConfigured DEF N
    <3> QED
      BY <1>7, <2>3, <3>3
  <2> QED
    BY <1>1, <1>7, <2>2, <2>3 DEF auth
<1> QED
  BY <1>1, <1>6, <1>7

-----------------------------------------------------------------------------
(* The books of the notifications.                                         *)

\* The loop sends to targets of the tag.
LEMMA SentToTargets ==
    ASSUME NEW tables, NEW names, NEW type, NEW ctx, NEW o \in LoopOutcomes(tables, names, type, ctx)
    PROVE  o.sent \subseteq names /\ o.stop \in {"fail", "raise", "none"}
<1> DEFINE F(x) == Fate(tables, x, type, ctx)
           sendable == {x \in names : F(x) = "send"}
           failing == {x \in names : F(x) = "fail"} \cup (IF FailingSends THEN sendable ELSE {})
           raising == {x \in names : F(x) = "raise"}
           stopped(X, how) == {[sent |-> S, stop |-> how] : S \in UNION {SUBSET (sendable \ {x}) : x \in X}}
<1>1. o \in stopped(failing, "fail") \cup stopped(raising, "raise") \cup {[sent |-> sendable, stop |-> "none"]}
  BY DEF LoopOutcomes
<1>2. sendable \subseteq names
  OBVIOUS
<1> HIDE DEF F, sendable, failing, raising
<1>3. CASE o \in stopped(failing, "fail")
  BY <1>2, <1>3
<1>4. CASE o \in stopped(raising, "raise")
  BY <1>2, <1>4
<1>5. CASE o = [sent |-> sendable, stop |-> "none"]
  BY <1>2, <1>5
<1> QED
  BY <1>1, <1>3, <1>4, <1>5

\* What is counted of names is a number of them.
LEMMA NamesCounted ==
    ASSUME NEW S, S \subseteq 1 .. MaxNames
    PROVE  IsFiniteSet(S) /\ Cardinality(S) \in 0 .. MaxNames
<1>1. MaxNames \in Nat
  BY LcdAssumption
<1>2. IsFiniteSet(1 .. MaxNames) /\ Cardinality(1 .. MaxNames) = MaxNames
  BY <1>1, FS_Interval
<1>3. IsFiniteSet(S) /\ Cardinality(S) \in Nat /\ Cardinality(S) <= Cardinality(1 .. MaxNames)
  BY <1>2, CountedWithin
<1> QED
  BY <1>1, <1>2, <1>3

\* A call whose arguments were refused has no books.
LEMMA RefusedKeeps ==
    ASSUME NtfInv, NEW n \in Notifications, phase[n] = "idle",
           phase' = [phase EXCEPT ![n] = "refused"],
           UNCHANGED <<future, trap, reqs, awaited, jobs, result, orphaned>>
    PROVE  NtfInv'
BY DEF NtfInv, TypeOK, BooksAgree, ReportedWhenOver

\* The originator's books are opened with what the dispatcher counts.
LEMMA BooksOpened ==
    ASSUME NtfInv, NEW n \in Notifications, phase[n] = "idle",
           NEW tables, DOMAIN tables.addr \subseteq 1 .. MaxNames,
           NEW name, NEW ctx, SendVarBinds(n, tables, name, ctx), UNCHANGED <<result, orphaned>>
    PROVE  /\ NtfInv'
           /\ \E p \in {"pending", "refused"} : phase' = [phase EXCEPT ![n] = p]
<1> DEFINE info == tables.notify[name]
           inform == info.type = "inform"
<1>1. PICK o \in LoopOutcomes(tables, TargetNames(tables, info.tag), info.type, ctx) :
       /\ reqs' = [reqs EXCEPT ![n] =
            IF inform
            THEN [x \in o.sent |-> Fresh(tables.params[tables.addr[x].params], tables.addr[x].domain)]
            ELSE EmptyMap]
       /\ awaited' = [awaited EXCEPT ![n] = IF inform THEN o.sent ELSE {}]
       /\ jobs' = [jobs EXCEPT ![n] = IF inform THEN Cardinality(o.sent) ELSE 0]
       /\ phase' = [phase EXCEPT ![n] = IF o.stop = "raise" THEN "refused" ELSE "pending"]
       /\ future' = [future EXCEPT ![n] =
            IF \/ o.stop = "fail" /\ (~inform \/ o.sent = {})
               \/ o.stop = "none" /\ inform /\ o.sent = {}
            THEN NoAnswer ELSE @]
       /\ trap' = IF inform \/ o.stop = "raise" THEN trap ELSE trap \cup {n}
  BY DEF SendVarBinds
<1>2. o.sent \subseteq 1 .. MaxNames
  <2>1. o.sent \subseteq TargetNames(tables, info.tag)
    BY SentToTargets
  <2> QED
    BY <2>1 DEF TargetNames
<1> HIDE DEF inform, info
<1> DEFINE sent == IF inform THEN o.sent ELSE {}
           new == IF inform
                  THEN [x \in o.sent |-> Fresh(tables.params[tables.addr[x].params], tables.addr[x].domain)]
                  ELSE EmptyMap
           count == IF inform THEN Cardinality(o.sent) ELSE 0
           answered == \/ o.stop = "fail" /\ (~inform \/ o.sent = {})
                       \/ o.stop = "none" /\ inform /\ o.sent = {}
<1>3. /\ sent \subseteq 1 .. MaxNames /\ DOMAIN new = sent /\ count = Cardinality(sent)
      /\ \A x \in sent : "open" \in DOMAIN new[x]
      /\ count \in 0 .. MaxNames
      /\ ~inform => sent = {}
      /\ answered => sent = {}
  <2>1. Cardinality({}) = 0
    BY FS_EmptySet
  <2>2. Cardinality(sent) \in 0 .. MaxNames
    BY <1>2, NamesCounted
  <2> QED
    BY <1>2, <2>1, <2>2 DEF EmptyMap, Fresh
<1>4. /\ reqs' = [reqs EXCEPT ![n] = new] /\ awaited' = [awaited EXCEPT ![n] = sent]
      /\ jobs' = [jobs EXCEPT ![n] = count]
      /\ future' = [future EXCEPT ![n] = IF answered THEN NoAnswer ELSE @]
      /\ \/ phase' = [phase EXCEPT ![n] = "refused"] \/ phase' = [phase EXCEPT ![n] = "pending"]
      /\ \/ trap' = trap
         \/ trap' = trap \cup {n} /\ ~inform
  BY <1>1
<1> HIDE DEF sent, new, count, answered
<1>5. TypeOK'
  BY <1>3, <1>4 DEF NtfInv, TypeOK
<1>6. BooksAgree'
  BY <1>3, <1>4 DEF NtfInv, TypeOK, BooksAgree
<1>7. ReportedWhenOver'
  BY <1>3, <1>4 DEF NtfInv, TypeOK, ReportedWhenOver, Unset, NoAnswer, Answer
<1>8. /\ DOMAIN reqs' = Notifications /\ DOMAIN awaited' = Notifications
      /\ \A m \in Notifications :
          /\ awaited'[m] \subseteq 1 .. MaxNames /\ Counted(reqs'[m], jobs'[m])
          /\ phase'[m] = "idle" => future'[m] = Unset /\ m \notin trap' /\ awaited'[m] = {}
          /\ m \in trap' => awaited'[m] = {}
  BY <1>3, <1>4 DEF NtfInv, TypeOK, Counted
<1> QED
  BY <1>4, <1>5, <1>6, <1>7, <1>8 DEF NtfInv

\* The callback of a trap, the caller's own steps.
LEMMA CallerKeeps ==
    ASSUME NtfInv, NEW n \in Notifications, TrapFun(n) \/ Resume(n) \/ Cancel(n)
    PROVE  NtfInv'
<1>1. CASE TrapFun(n)
  BY <1>1 DEF TrapFun, NtfInv, TypeOK, BooksAgree, ReportedWhenOver, Unset, NoAnswer, Answer, Cancelled
<1>2. CASE Resume(n)
  BY <1>2 DEF Resume, NtfInv, TypeOK, BooksAgree, ReportedWhenOver, Unset, NoAnswer, Answer, Cancelled
<1>3. CASE Cancel(n)
  BY <1>3 DEF Cancel, NtfInv, TypeOK, BooksAgree, ReportedWhenOver, Unset, NoAnswer, Answer, Cancelled
<1> QED
  BY <1>1, <1>2, <1>3

\* The first two of a request that is no more, of those the dispatcher counts.
LEMMA RequestGone ==
    ASSUME NtfInv, NEW n \in Notifications, NEW x \in DOMAIN reqs[n], jobs[n] > 0
    PROVE  /\ DOMAIN Without(reqs[n], {x}) = DOMAIN reqs[n] \ {x}
           /\ x \in awaited[n]
           /\ jobs[n] - 1 \in 0 .. MaxNames
           /\ Counted(Without(reqs[n], {x}), jobs[n] - 1)
           /\ n \notin orphaned => jobs[n] - 1 = Cardinality(awaited[n] \ {x})
<1>1. DOMAIN Without(reqs[n], {x}) = DOMAIN reqs[n] \ {x} /\ MaxNames \in Nat
  BY LcdAssumption DEF Without
<1>2. x \in awaited[n] /\ jobs[n] \in 0 .. MaxNames
  BY DEF NtfInv, TypeOK, BooksAgree
<1>3. IsFiniteSet(awaited[n]) /\ IsFiniteSet(DOMAIN reqs[n])
  BY NamesCounted DEF NtfInv, TypeOK
<1>4. jobs[n] = Cardinality(DOMAIN reqs[n])
  BY <1>1, <1>2 DEF NtfInv, Counted
<1>5. Cardinality(DOMAIN reqs[n] \ {x}) = jobs[n] - 1
  BY <1>3, <1>4, FS_RemoveElement
<1>6. n \notin orphaned => jobs[n] - 1 = Cardinality(awaited[n] \ {x})
  BY <1>5 DEF NtfInv, BooksAgree
<1>7. jobs[n] - 1 \in 0 .. MaxNames
  BY <1>1, <1>2
<1>8. \A y \in DOMAIN reqs[n] \ {x} : "open" \in DOMAIN Without(reqs[n], {x})[y]
  BY DEF NtfInv, Counted, Without
<1> QED
  BY <1>1, <1>2, <1>5, <1>6, <1>7, <1>8 DEF Counted

\* A request that is over is taken off all three books.
LEMMA FinishedKeeps ==
    ASSUME NtfInv, NEW n \in Notifications, NEW x \in DOMAIN reqs[n], jobs[n] > 0,
           NEW outcome \in {NoAnswer, Answer}, Finished(n, x, outcome)
    PROVE  NtfInv'
<1> DEFINE left == awaited[n] \ {x}
           book == Without(reqs[n], {x})
<1>1. /\ reqs' = [reqs EXCEPT ![n] = book]
      /\ jobs' = [jobs EXCEPT ![n] = @ - 1]
      /\ awaited' = [awaited EXCEPT ![n] = left]
      /\ future' = [future EXCEPT ![n] = IF awaited[n] = {x} /\ @ = Unset THEN outcome ELSE @]
      /\ UNCHANGED <<phase, result, trap, orphaned>>
  BY DEF Finished, ProcessResponseVarBinds
<1>2. /\ DOMAIN book = DOMAIN reqs[n] \ {x} /\ x \in awaited[n]
      /\ jobs[n] - 1 \in 0 .. MaxNames /\ Counted(book, jobs[n] - 1)
      /\ n \notin orphaned => jobs[n] - 1 = Cardinality(left)
  BY RequestGone
<1> HIDE DEF book
<1>3. TypeOK'
  BY <1>1, <1>2 DEF NtfInv, TypeOK
<1>4. BooksAgree'
  BY <1>1, <1>2 DEF NtfInv, TypeOK, BooksAgree
<1>5. ReportedWhenOver'
  BY <1>1 DEF NtfInv, TypeOK, ReportedWhenOver, Unset, NoAnswer, Answer
<1>6. /\ DOMAIN reqs' = Notifications /\ DOMAIN awaited' = Notifications
      /\ \A m \in Notifications :
          /\ awaited'[m] \subseteq 1 .. MaxNames /\ Counted(reqs'[m], jobs'[m])
          /\ phase'[m] = "idle" => future'[m] = Unset /\ m \notin trap' /\ awaited'[m] = {}
          /\ m \in trap' => awaited'[m] = {}
  BY <1>1, <1>2 DEF NtfInv, TypeOK
<1> QED
  BY <1>3, <1>4, <1>5, <1>6 DEF NtfInv

\* One that is taken off the requests alone orphans its notification.
LEMMA OrphanedKeeps ==
    ASSUME NtfInv, NEW n \in Notifications, NEW x \in DOMAIN reqs[n],
           NEW count \in 0 .. MaxNames, Counted(Without(reqs[n], {x}), count),
           reqs' = [reqs EXCEPT ![n] = Without(@, {x})], jobs' = [jobs EXCEPT ![n] = count],
           orphaned' = orphaned \cup {n}, UNCHANGED <<phase, result, future, trap, awaited>>
    PROVE  NtfInv'
<1> DEFINE book == Without(reqs[n], {x})
<1>1. reqs' = [reqs EXCEPT ![n] = book] /\ Counted(book, count) /\ DOMAIN book \subseteq DOMAIN reqs[n]
  BY DEF Without
<1> HIDE DEF book
<1>2. TypeOK'
  BY <1>1 DEF NtfInv, TypeOK
<1>3. BooksAgree'
  BY <1>1 DEF NtfInv, TypeOK, BooksAgree
<1>4. ReportedWhenOver'
  BY DEF NtfInv, ReportedWhenOver
<1>5. \A m \in Notifications : Counted(reqs'[m], jobs'[m])
  BY <1>1 DEF NtfInv, TypeOK
<1> QED
  BY <1>1, <1>2, <1>3, <1>4, <1>5 DEF NtfInv

\* One that is tried again stays on them.
LEMMA FailedKeeps ==
    ASSUME NtfInv, NEW n \in Notifications, NEW x \in DOMAIN reqs[n], jobs[n] > 0,
           NEW discovery \in BOOLEAN, Failed(n, x, discovery)
    PROVE  NtfInv'
<1>1. CASE Finished(n, x, NoAnswer)
  BY <1>1, FinishedKeeps
<1>2. CASE NoTransport(n, x)
  <2>1. jobs[n] - 1 \in 0 .. MaxNames /\ Counted(Without(reqs[n], {x}), jobs[n] - 1)
    BY RequestGone
  <2>2. /\ reqs' = [reqs EXCEPT ![n] = Without(@, {x})] /\ jobs' = [jobs EXCEPT ![n] = jobs[n] - 1]
        /\ orphaned' = orphaned \cup {n} /\ UNCHANGED <<phase, result, future, trap, awaited>>
    BY <1>2 DEF NoTransport
  <2> QED
    BY <2>1, <2>2, OrphanedKeeps
<1>3. CASE ~Finished(n, x, NoAnswer) /\ ~NoTransport(n, x)
  <2> DEFINE r == reqs[n][x]
             again == [r EXCEPT !.retries = IF discovery THEN 0 ELSE @ + 1,
                                !.discoveries = IF discovery THEN @ + 1 ELSE 0,
                                !.open = TRUE]
  <2>1. /\ reqs' = [reqs EXCEPT ![n][x] = again]
        /\ UNCHANGED <<phase, result, future, trap, awaited, jobs, orphaned>>
    BY <1>3 DEF Failed
  <2>2. DOMAIN reqs' = DOMAIN reqs /\ \A m \in Notifications : DOMAIN reqs'[m] = DOMAIN reqs[m]
    BY <2>1 DEF NtfInv
  <2>3. jobs[n] = Cardinality(DOMAIN reqs[n])
    BY DEF NtfInv, TypeOK, Counted
  <2>4. \A m \in Notifications : Counted(reqs'[m], jobs'[m])
    <3> SUFFICES ASSUME NEW m \in Notifications PROVE Counted(reqs'[m], jobs'[m])
      OBVIOUS
    <3>1. CASE m = n
      <4>1. "open" \in DOMAIN again /\ \A y \in DOMAIN reqs[n] : "open" \in DOMAIN reqs[n][y]
        BY DEF NtfInv, Counted
      <4> HIDE DEF again
      <4>2. \A y \in DOMAIN reqs[n] : reqs'[n][y] \in {again, reqs[n][y]}
        BY <2>1 DEF NtfInv
      <4>3. \A y \in DOMAIN reqs[n] : "open" \in DOMAIN reqs'[n][y]
        BY <4>1, <4>2
      <4> QED
        BY <2>1, <2>2, <2>3, <3>1, <4>3 DEF Counted
    <3>2. CASE m # n
      BY <2>1, <3>2 DEF NtfInv
    <3> QED
      BY <3>1, <3>2
  <2> QED
    BY <2>1, <2>2, <2>4 DEF NtfInv, TypeOK, BooksAgree, ReportedWhenOver
<1> QED
  BY <1>1, <1>2, <1>3

\* What the peers and the timer do to a request.
LEMMA PeerKeeps ==
    ASSUME NtfInv, NEW n \in Notifications, NEW x \in DOMAIN reqs[n],
           Acknowledge(n, x) \/ Report(n, x) \/ TimeOut(n, x)
    PROVE  NtfInv'
<1>1. reqs[n][x].open => jobs[n] > 0
  <2> SUFFICES ASSUME reqs[n][x].open PROVE jobs[n] > 0
    OBVIOUS
  <2>1. jobs[n] = Cardinality(DOMAIN reqs[n])
    BY DEF NtfInv, Counted
  <2>2. IsFiniteSet(DOMAIN reqs[n]) /\ Cardinality(DOMAIN reqs[n]) \in Nat
    BY NamesCounted DEF NtfInv, TypeOK
  <2>3. Cardinality(DOMAIN reqs[n]) # 0
    BY <2>2, FS_EmptySet
  <2> QED
    BY <2>1, <2>2, <2>3
<1>2. CASE Acknowledge(n, x)
  BY <1>1, <1>2, FinishedKeeps DEF Acknowledge
<1>3. CASE Report(n, x)
  BY <1>1, <1>3, FailedKeeps DEF Report
<1>4. CASE TimeOut(n, x) /\ jobs[n] > 0 /\ Failed(n, x, FALSE)
  BY <1>4, FailedKeeps
<1>5. CASE /\ jobs[n] = 0 /\ reqs' = [reqs EXCEPT ![n] = Without(@, {x})]
           /\ UNCHANGED <<phase, result, future, trap, awaited, jobs, orphaned>>
  <2>1. IsFiniteSet(DOMAIN reqs[n]) /\ DOMAIN reqs[n] # {}
    BY NamesCounted DEF NtfInv, TypeOK
  <2>2. jobs[n] # Cardinality(DOMAIN reqs[n])
    BY <1>5, <2>1, FS_EmptySet
  <2>3. \A y \in DOMAIN reqs[n] : "open" \in DOMAIN reqs[n][y] /\ ~reqs[n][y].open
    BY <2>2 DEF NtfInv, Counted
  <2>4. Counted(Without(reqs[n], {x}), 0)
    <3> DEFINE book == Without(reqs[n], {x})
    <3>1. \A y \in DOMAIN book : y \in DOMAIN reqs[n] /\ book[y] = reqs[n][y]
      BY DEF Without
    <3> HIDE DEF book
    <3>2. \A y \in DOMAIN book : "open" \in DOMAIN book[y] /\ ~book[y].open
      BY <2>3, <3>1, Zenon
    <3>3. Counted(book, 0)
      BY <3>2, Zenon DEF Counted
    <3> QED
      BY <3>3 DEF book
  <2>5. n \in orphaned
    BY <2>2 DEF NtfInv, BooksAgree
  <2>6. orphaned' = orphaned \cup {n} /\ jobs' = [jobs EXCEPT ![n] = 0] /\ 0 \in 0 .. MaxNames
    BY <1>5, <2>5, LcdAssumption DEF NtfInv, TypeOK
  <2> QED
    BY <1>5, <2>4, <2>6, OrphanedKeeps
<1> QED
  BY <1>2, <1>3, <1>4, <1>5 DEF TimeOut

\* Where the dispatcher forgets its jobs the notifications outstanding are orphaned.
LEMMA ConfigurationKeepsBooks ==
    ASSUME NtfInv, LcdInv(t, cg, no, named, spoiled), LcdInv(t', cg', no', named', spoiled'), Configuration
    PROVE  NtfInv'
<1> DEFINE reset == t.auto # NotAutomatic /\ t'.auto = NotAutomatic
<1>1. /\ orphaned' = IF t'.transport # {} THEN orphaned
                     ELSE orphaned \cup {n \in Notifications : reqs[n] # EmptyMap}
      /\ jobs' = IF reset THEN [n \in Notifications |-> 0] ELSE jobs
      /\ reqs' = [n \in Notifications |-> [x \in DOMAIN reqs[n] |->
                   [reqs[n][x] EXCEPT !.open = @ /\ reqs[n][x].domain \in t'.transport]]]
      /\ UNCHANGED <<phase, result, future, trap, awaited, reports>>
  BY DEF Configuration
<1>2. reset => t'.transport = {}
  <2> SUFFICES ASSUME reset PROVE t'.transport = {}
    OBVIOUS
  <2>1. TransportsOK(t["transport"], t["auto"], cg.tran, cg.addr)
    BY DEF LcdInv
  <2>2. PICK transport, auto, tran, addr :
            transport = t'["transport"] /\ auto = t'["auto"] /\ TransportsOK(transport, auto, tran, addr)
    BY DEF LcdInv
  <2>3. ~OwnDispatcher
    BY <2>1 DEF TransportsOK
  <2>4. DOMAIN tran = {}
    <3>1. IsFiniteSet(DOMAIN tran) /\ auto = NotAutomatic
      BY <2>2 DEF TransportsOK
    <3>2. Cardinality(DOMAIN tran) \in Nat
      BY <3>1, FS_CardinalityType
    <3>3. Cardinality(DOMAIN tran) # NotAutomatic
      BY <3>2 DEF NotAutomatic
    <3> QED
      BY <2>2, <2>3, <3>1, <3>3 DEF TransportsOK
  <2>5. transport = {}
    BY <2>2, <2>3, <2>4, LcdAssumption DEF TransportsOK
  <2> QED
    BY <2>2, <2>5
<1> HIDE DEF reset
<1>3. orphaned \subseteq orphaned' /\ orphaned' \subseteq Notifications
  BY <1>1 DEF NtfInv, TypeOK
<1>4. ASSUME NEW n \in Notifications \ orphaned'
      PROVE  DOMAIN reqs[n] = awaited[n] /\ jobs'[n] = Cardinality(awaited[n])
  <2>1. n \notin orphaned
    BY <1>3
  <2>2. DOMAIN reqs[n] = awaited[n] /\ jobs[n] = Cardinality(awaited[n])
    BY <2>1 DEF NtfInv, BooksAgree
  <2>3. CASE reset
    <3>1. reqs[n] = EmptyMap
      BY <1>1, <1>2, <2>3
    <3>2. awaited[n] = {}
      BY <2>2, <3>1 DEF EmptyMap
    <3> QED
      BY <1>1, <2>2, <2>3, <3>2, FS_EmptySet
  <2>4. CASE ~reset
    BY <1>1, <2>2, <2>4
  <2> QED
    BY <2>3, <2>4
<1>5. jobs' \in [Notifications -> 0 .. MaxNames]
  BY <1>1, LcdAssumption DEF NtfInv, TypeOK
<1>6. DOMAIN reqs' = Notifications /\ \A n \in Notifications : DOMAIN reqs'[n] = DOMAIN reqs[n]
  BY <1>1
<1>7. TypeOK'
  BY <1>1, <1>3, <1>5, <1>6 DEF NtfInv, TypeOK
<1>8. BooksAgree'
  BY <1>1, <1>4, <1>6 DEF NtfInv, BooksAgree
<1>9. \A n \in Notifications : Counted(reqs'[n], jobs'[n])
  <2> SUFFICES ASSUME NEW n \in Notifications PROVE Counted(reqs'[n], jobs'[n])
    OBVIOUS
  <2>1. \A x \in DOMAIN reqs'[n] : "open" \in DOMAIN reqs'[n][x] /\ "open" \in DOMAIN reqs[n][x]
    BY <1>1, <1>6 DEF NtfInv, Counted
  <2>2. CASE reset
    <3>1. jobs'[n] = 0 /\ t'.transport = {}
      BY <1>1, <1>2, <2>2
    <3>2. \A x \in DOMAIN reqs'[n] : ~reqs'[n][x].open
      <4> SUFFICES ASSUME NEW x \in DOMAIN reqs'[n] PROVE ~reqs'[n][x].open
        OBVIOUS
      <4>1. reqs'[n][x] = [reqs[n][x] EXCEPT !.open = @ /\ reqs[n][x].domain \in {}]
        BY <1>1, <1>6, <3>1
      <4>2. ~(reqs[n][x].open /\ reqs[n][x].domain \in {})
        OBVIOUS
      <4> QED
        BY <1>6, <2>1, <4>1, <4>2
    <3> QED
      BY <2>1, <3>1, <3>2 DEF Counted
  <2>3. CASE ~reset
    <3>1. jobs'[n] = jobs[n]
      BY <1>1, <2>3
    <3>2. Counted(reqs[n], jobs[n])
      BY DEF NtfInv
    <3>3. \A x \in DOMAIN reqs[n] : reqs'[n][x].open => reqs[n][x].open
      BY <1>1, <3>2 DEF Counted
    <3> QED
      BY <1>6, <2>1, <3>1, <3>2, <3>3 DEF Counted
  <2> QED
    BY <2>2, <2>3
<1> QED
  BY <1>1, <1>6, <1>7, <1>8, <1>9 DEF NtfInv, ReportedWhenOver

-----------------------------------------------------------------------------
(* The theorems.                                                           *)

LEMMA Initially == Init => IInv
<1> SUFFICES ASSUME Init PROVE IInv
  OBVIOUS
<1>1. /\ DOMAIN EmptyMap = {} /\ IsFiniteSet({}) /\ Cardinality({}) = 0 /\ MaxNames \in Nat
  BY FS_EmptySet, LcdAssumption DEF EmptyMap
<1>2. /\ cg.auth = EmptyMap /\ cg.parm = EmptyMap /\ cg.tran = EmptyMap /\ cg.addr = EmptyMap
      /\ DOMAIN cg = {"auth", "parm", "tran", "addr"}
      /\ no.auth = EmptyMap /\ no.name = EmptyMap /\ DOMAIN no = {"auth", "name"}
      /\ named = 0 /\ spoiled = {}
  BY DEF Init, LcdInit
<1>3. /\ DOMAIN t = TableNames /\ t["transport"] = OwnTransports /\ t["auto"] = NotAutomatic
      /\ t["params"] = EmptyMap /\ t["addr"] = EmptyMap /\ t["notify"] = EmptyMap /\ t["user"] = EmptyMap
  BY DEF Init, LcdInit, EmptyTables, TableNames
<1>4. Book(EmptyMap, {}, 0)
  BY <1>1 DEF Book
<1>5. AuthOK(EmptyMap, EmptyMap) /\ AddrOK(EmptyMap, EmptyMap, EmptyMap)
  BY <1>1 DEF AuthOK, AddrOK
<1>6. TransportsOK(OwnTransports, NotAutomatic, EmptyMap, EmptyMap)
  BY <1>1 DEF TransportsOK
<1>7. UsersOK(EmptyMap, EmptyMap, {})
  BY <1>1 DEF UsersOK, UserRows, HoldsCached, HoldsNone, Under
<1>8. LcdInv(t, cg, no, named, spoiled)
  BY <1>1, <1>2, <1>3, <1>4, <1>5, <1>6, <1>7 DEF LcdInv
<1>9. NtfInv
  BY <1>1 DEF Init, NtfInv, TypeOK, BooksAgree, ReportedWhenOver, Counted, Unset, NoAnswer, Answer
<1> QED
  BY <1>8, <1>9 DEF IInv

\* What a call of send_notification does to the books, and to its caller.
LEMMA SendingKeepsBooks ==
    ASSUME NtfInv, LcdInv(t', cg', no', named', spoiled'), NEW n \in Notifications, NEW a, NEW given,
           NEW type, NEW ctx, SendNotification(n, a, given, type, ctx)
    PROVE  /\ NtfInv' /\ result' = result
           /\ phase[n] = "idle"
           /\ \E p \in {"pending", "refused"} : phase' = [phase EXCEPT ![n] = p]
<1> DEFINE target == Tagged(a, given)
           auth == ConfigureAuth(a)
           c == ConfigureNotify(ConfigureRows(auth.t, auth.auth, a, target), a, target, type, ctx)
           refused == /\ phase' = [phase EXCEPT ![n] = "refused"]
                      /\ UNCHANGED <<future, trap, reqs, awaited, jobs>>
<1>1. /\ phase[n] = "idle" /\ UNCHANGED <<result, orphaned>>
      /\ refused \/ (t' = c.t /\ SendVarBinds(n, c.t, c.name, ctx))
  BY DEF SendNotification
<1>2. CASE refused
  BY <1>1, <1>2, RefusedKeeps
<1>3. CASE t' = c.t /\ SendVarBinds(n, c.t, c.name, ctx)
  <2> HIDE DEF c
  <2> DEFINE u == c.t
  <2>1. DOMAIN u.addr \subseteq 1 .. MaxNames
    <3> DEFINE v == t'
               m == named'
               g == cg'
    <3>1. m \in Nat /\ m <= MaxNames /\ Book(g.addr, DOMAIN v["addr"], m) /\ MaxNames \in Nat
      BY LcdAssumption DEF LcdInv
    <3>2. v = u
      BY <1>3
    <3> HIDE DEF u, v, m, g
    <3>3. DOMAIN v["addr"] \subseteq 1 .. m
      BY <3>1 DEF Book
    <3>4. 1 .. m \subseteq 1 .. MaxNames
      BY <3>1
    <3> QED
      BY <3>2, <3>3, <3>4
  <2> QED
    BY <1>1, <1>3, <2>1, BooksOpened
<1> QED
  BY <1>1, <1>2, <1>3

LEMMA StepKeeps == IInv /\ [Next]_vars => IInv'
<1> SUFFICES ASSUME IInv, [Next]_vars PROVE IInv'
  OBVIOUS
<1>1. LcdInv(t, cg, no, named, spoiled) /\ NtfInv
  BY DEF IInv
<1>2. ASSUME LcdInv(t', cg', no', named', spoiled'), NtfInv' PROVE IInv'
  BY <1>2 DEF IInv
<1>3. ASSUME UNCHANGED lcdVars PROVE LcdInv(t', cg', no', named', spoiled')
  BY <1>1, <1>3 DEF lcdVars
<1>4. ASSUME NEW n \in Notifications, NEW a \in Credentials, NEW target \in Targets,
             NEW type, NEW ctx, SendNotification(n, a, target, type, ctx)
      PROVE  IInv'
  <2>1. LcdInv(t', cg', no', named', spoiled')
    BY <1>1, <1>4, SendingKeepsConfiguration
  <2>2. NtfInv'
    BY <1>1, <1>4, <2>1, SendingKeepsBooks
  <2> QED
    BY <1>2, <2>1, <2>2
<1>5. ASSUME NEW n \in Notifications, TrapFun(n) \/ Resume(n) \/ Cancel(n) PROVE IInv'
  <2>1. UNCHANGED lcdVars
    BY <1>5 DEF TrapFun, Resume, Cancel
  <2> QED
    BY <1>1, <1>2, <1>3, <1>5, <2>1, CallerKeeps
<1>6. ASSUME NEW n \in Notifications, NEW x \in DOMAIN reqs[n],
             Acknowledge(n, x) \/ Report(n, x) \/ TimeOut(n, x)
      PROVE  IInv'
  <2>1. UNCHANGED lcdVars
    BY <1>6 DEF Acknowledge, Report, TimeOut, Failed, Finished, NoTransport
  <2> QED
    BY <1>1, <1>2, <1>3, <1>6, <2>1, PeerKeeps
<1>7. CASE Configuration
  <2>1. LcdInv(t', cg', no', named', spoiled')
    BY <1>1, <1>7, ConfigurationKept DEF Configuration
  <2> QED
    BY <1>1, <1>2, <1>7, <2>1, ConfigurationKeepsBooks
<1>8. CASE UNCHANGED vars
  <2>1. NtfInv'
    BY <1>1, <1>8 DEF vars, ntfVars, NtfInv, TypeOK, BooksAgree, ReportedWhenOver
  <2> QED
    BY <1>2, <1>3, <1>8, <2>1 DEF vars
<1> QED
  BY <1>4, <1>5, <1>6, <1>7, <1>8 DEF Next

THEOREM ManagerInvariant == SafeSpec => []IInv
BY Initially, StepKeeps, PTL DEF SafeSpec

\* Whatever calls came, failed or were taken back, the tables hold the rows in use and
\* no others, and a use has all the rows it needs (configure, unconfigure).
THEOREM ManagerCountsUses == SafeSpec => []UsesAreCounted
<1>1. IInv => UsesAreCounted
  <2> SUFFICES ASSUME IInv PROVE AddressesResolve /\ RowsAreCounted /\ ParametersCovered
    BY DEF UsesAreCounted
  <2>1. /\ Book(cg.parm, DOMAIN t["params"], named) /\ Book(cg.addr, DOMAIN t["addr"], named)
        /\ Book(no.name, DOMAIN t["notify"], named)
        /\ AuthOK(cg.auth, cg.parm) /\ AddrOK(t["addr"], cg.addr, cg.parm)
        /\ TransportsOK(t["transport"], t["auto"], cg.tran, cg.addr)
    BY DEF IInv, LcdInv
  <2>2. AddressesResolve
    <3> SUFFICES ASSUME NEW k \in DOMAIN cg.addr
                 PROVE  /\ cg.addr[k][1] \in DOMAIN t["addr"]
                        /\ t["addr"][cg.addr[k][1]].params \in DOMAIN t["params"]
                        /\ t["addr"][cg.addr[k][1]].domain \in t["transport"]
      BY DEF AddressesResolve
    <3>1. cg.addr[k][1] \in DOMAIN t["addr"]
      BY <2>1 DEF Book
    <3>2. /\ t["addr"][cg.addr[k][1]].params = k[1] /\ t["addr"][cg.addr[k][1]].domain = k[2].domain
          /\ \E pk \in DOMAIN cg.parm : cg.parm[pk][1] = k[1]
      BY <2>1 DEF AddrOK
    <3>3. k[1] \in DOMAIN t["params"]
      BY <2>1, <3>2 DEF Book
    <3>4. k[2].domain \in t["transport"]
      BY <2>1 DEF TransportsOK
    <3> QED
      BY <3>1, <3>2, <3>3, <3>4
  <2>3. RowsAreCounted
    BY <2>1 DEF RowsAreCounted, Book
  <2>4. ParametersCovered
    BY <2>1 DEF ParametersCovered, AuthOK
  <2> QED
    BY <2>2, <2>3, <2>4
<1> QED
  BY <1>1, ManagerInvariant, PTL

\* The rows of a user in use never hold keys given before the cached ones, and hold
\* these, unless a refused call changed the rows and no other keys were accepted since;
\* those of a user taken back, or under another security name by now, hold none
\* (configure, unconfigure, __cloneUserInfo).  Of a user whose security name is not its
\* user name the rows cloned for other engines are left out.
THEOREM ManagerKeepsCredentials == SafeSpec => []CredentialsInEffect
<1>1. IInv => CredentialsInEffect
  <2> SUFFICES ASSUME IInv PROVE CachedInEffect /\ NoneTakenBack
    BY DEF CredentialsInEffect
  <2>1. AuthOK(cg.auth, cg.parm) /\ UsersOK(t["user"], cg.auth, spoiled)
    BY DEF IInv, LcdInv
  <2>2. ASSUME NEW key \in DOMAIN cg.auth, cg.auth[key].kind = User
        PROVE  HoldsCached(t["user"], cg.auth, spoiled, cg.auth[key]) /\ Under(cg.auth, key, cg.auth[key].securityName)
               /\ cg.auth[key].key = key
    BY <2>1, <2>2 DEF AuthOK, UsersOK, Under
  <2>3. CachedInEffect
    BY <2>2 DEF CachedInEffect, HoldsCached
  <2>4. NoneTakenBack
    BY <2>1 DEF NoneTakenBack, UsersOK, HoldsNone, Under
  <2> QED
    BY <2>3, <2>4
<1> QED
  BY <1>1, ManagerInvariant, PTL

\* A notification's outstanding targets, requests and jobs agree, unless the last
\* transport went or a retry found its target's gone, which leaves targets awaited; and
\* it is reported when they are none (sendVarBinds, processResponsePdu,
\* processResponseVarBinds).
THEOREM BooksAreClosedTogether == SafeSpec => []BooksCloseTogether
<1>1. IInv => BooksCloseTogether
  BY DEF IInv, NtfInv, BooksCloseTogether
<1> QED
  BY <1>1, ManagerInvariant, PTL

-----------------------------------------------------------------------------
(* To its caller a notification is a request of RequestService.            *)


LEMMA StepServes == IInv /\ [Next]_vars => [Service!Next]_(Service!vars)
<1> SUFFICES ASSUME IInv, [Next]_vars PROVE [Service!Next]_(Service!vars)
  OBVIOUS
<1> DEFINE out(res) == [n \in Notifications |->
                 CASE res[n] = Unset -> [kind |-> "nothing"]
                   [] res[n] = NoAnswer -> [kind |-> "error"]
                   [] OTHER -> [kind |-> "answer", to |-> n]]
           old == out(result)
           new == out(result')
<1>1. /\ phase \in [Notifications -> {"idle", "refused", "pending", "done"}]
      /\ result \in [Notifications -> {Unset, NoAnswer, Answer}]
  BY DEF IInv, NtfInv, TypeOK
<1>2. ASSUME phase' = phase, result' = result PROVE UNCHANGED Service!vars
  BY <1>2 DEF Service!vars
<1>3. ASSUME NEW n \in Notifications, phase[n] = "idle", result' = result,
             \E p \in {"pending", "refused"} : phase' = [phase EXCEPT ![n] = p]
      PROVE  Service!Next
  <2>1. new = old
    BY <1>3
  <2> HIDE DEF old, new
  <2>2. Service!Submit(n)
    BY <1>3, <2>1 DEF Service!Submit, old, new
  <2> QED
    BY <2>2 DEF Service!Next
<1>4. ASSUME NEW n \in Notifications, phase[n] = "pending", phase' = [phase EXCEPT ![n] = "done"],
             NEW r \in {NoAnswer, Answer}, result' = [result EXCEPT ![n] = r]
      PROVE  Service!Next
  <2> DEFINE res == IF r = NoAnswer THEN [kind |-> "error"] ELSE [kind |-> "answer", to |-> n]
  <2>1. new[n] = res
    BY <1>1, <1>4 DEF Unset, NoAnswer, Answer
  <2>2. \A m \in Notifications \ {n} : new[m] = old[m]
    BY <1>1, <1>4
  <2>3. DOMAIN new = Notifications /\ DOMAIN old = Notifications /\ new = [m \in Notifications |-> new[m]]
    OBVIOUS
  <2>4. new = [old EXCEPT ![n] = res]
    <3> HIDE DEF new, old, res
    <3> QED
      BY <2>1, <2>2, <2>3
  <2>5. res \in {Service!Failure, Service!AnswerTo(n)}
    BY DEF Service!Failure, Service!AnswerTo
  <2>6. Service!Complete(n)
    <3> HIDE DEF res
    <3> QED
      BY <1>4, <2>4, <2>5 DEF Service!Complete
  <2> QED
    BY <2>6 DEF Service!Next
<1>5. ASSUME NEW n \in Notifications, NEW a \in Credentials, NEW target \in Targets,
             NEW type, NEW ctx, SendNotification(n, a, target, type, ctx)
      PROVE  Service!Next
  <2>1. LcdInv(t', cg', no', named', spoiled')
    BY <1>5, SendingKeepsConfiguration DEF IInv
  <2> QED
    BY <1>3, <1>5, <2>1, SendingKeepsBooks DEF IInv
<1>6. ASSUME NEW n \in Notifications, TrapFun(n) PROVE UNCHANGED Service!vars
  BY <1>2, <1>6 DEF TrapFun
<1>7. ASSUME NEW n \in Notifications, Resume(n) PROVE Service!Next
  BY <1>4, <1>7 DEF Resume
<1>8. ASSUME NEW n \in Notifications, Cancel(n) PROVE Service!Next
  BY <1>4, <1>8 DEF Cancel
<1>9. ASSUME NEW n \in Notifications, NEW x \in DOMAIN reqs[n],
             Acknowledge(n, x) \/ Report(n, x) \/ TimeOut(n, x)
      PROVE  UNCHANGED Service!vars
  BY <1>2, <1>9 DEF Acknowledge, Report, TimeOut, Failed, Finished, NoTransport
<1>10. CASE Configuration
  BY <1>2, <1>10 DEF Configuration
<1>11. CASE UNCHANGED vars
  BY <1>2, <1>11 DEF vars, ntfVars
<1> QED
  BY <1>5, <1>6, <1>7, <1>8, <1>9, <1>10, <1>11 DEF Next

\* Each notification is refused or completed once, with one outcome: what the caller
\* of send_notification is told stays.
THEOREM NotificationServes == SafeSpec => ImplementsService
<1>1. Init => Service!Init
  <2> SUFFICES ASSUME Init PROVE Service!Init
    OBVIOUS
  <2>1. \A n \in Notifications : result[n] = Unset
    BY DEF Init
  <2> DEFINE seen(n) == CASE result[n] = Unset -> [kind |-> "nothing"]
                          [] result[n] = NoAnswer -> [kind |-> "error"]
                          [] OTHER -> [kind |-> "answer", to |-> n]
  <2>2. \A n \in Notifications : seen(n) = [kind |-> "nothing"]
    BY <2>1, Zenon DEF Unset, NoAnswer
  <2>3. [n \in Notifications |-> seen(n)] = [n \in Notifications |-> [kind |-> "nothing"]]
    <3> HIDE DEF seen
    <3> QED
      BY <2>2
  <2> QED
    BY <2>3 DEF Init, Service!Init, Service!Nothing
<1> QED
  BY <1>1, ManagerInvariant, StepServes, PTL DEF SafeSpec, ImplementsService, Service!SafeSpec
=============================================================================
