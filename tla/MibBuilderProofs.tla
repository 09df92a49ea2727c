-------------------------- MODULE MibBuilderProofs --------------------------
(***************************************************************************)
(* Modules are loaded as a whole or not at all, and operations serve what  *)
(* is loaded, for any modules, imports, failures, sources, corpus and      *)
(* compiler (MibBuilder).                                                  *)
(*                                                                         *)
(* The invariant is about the calls that have not returned: a copy is      *)
(* under way once and not recorded meanwhile, a module that is past its    *)
(* export on the stack has its own symbols there, and symbols of a module  *)
(* that is not recorded belong to such a call or to a failure the code     *)
(* does not undo.                                                          *)
(***************************************************************************)
EXTENDS MibBuilder, SequenceTheorems, TLAPS

Copies == (Sources \cup {FromCorpus}) \X Modules
Stages == {"body", "types", "wiring"}
Frames == [copy : Copies, stage : Stages, todo : SUBSET Modules]

\* Of the calls under way: the copies executed from a source, the modules built from the
\* corpus.
Bodies(s) == {s[i].copy : i \in {j \in DOMAIN s : s[j].stage = "body"}}
Builds(s) == {Module(s[i]) : i \in {j \in DOMAIN s : s[j].stage # "body"}}
Wirings(s) == {Module(s[i]) : i \in {j \in DOMAIN s : s[j].stage = "wiring"}}

\* Only the corpus has stages.
FromWhere(s) == \A i \in DOMAIN s : s[i].stage # "body" <=> s[i].copy[1] = FromCorpus
Distinct(s) == \A i, j \in DOMAIN s : s[i].copy = s[j].copy => i = j
NotRecorded(s, recorded) == \A i \in DOMAIN s, m \in DOMAIN recorded : recorded[m] # s[i].copy
HasSymbols(s, exported) ==
    \A i \in DOMAIN s : s[i].stage = "wiring" =>
        Module(s[i]) \in DOMAIN exported /\ exported[Module(s[i])] = s[i].copy

\* The calls under way, with the symbols exported and the copies recorded.
Calls(s, exported, recorded) ==
    FromWhere(s) /\ Distinct(s) /\ NotRecorded(s, recorded) /\ HasSymbols(s, exported)

\* What a call that extends no rows has still to do is nothing.
Idles(s, augments, undisturbed) ==
    \A i \in DOMAIN s : s[i].stage = "wiring" /\ augments[Module(s[i])] = {} =>
        i = 1 /\ undisturbed /\ s[i].todo = {}

Recorded(recorded, exported) ==
    \A m \in DOMAIN recorded :
        /\ m \in Modules /\ recorded[m] \in Copies /\ recorded[m][2] = m
        /\ m \in DOMAIN exported /\ exported[m] = recorded[m]

\* The symbols of a module that is not recorded.
Accounted(s, exported, recorded, world) ==
    \A m \in DOMAIN exported \ (DOMAIN recorded \cup OwnModules) :
        \/ m \in Wirings(s)
        \/ IF exported[m][1] = FromCorpus THEN world.augments[m] # {} ELSE m \in world.failing

SearchPath ==
    path \in {<<"first">>, <<"first", "second">>}
             \cup (IF compiler THEN {<<"first", Dest>>, <<"first", "second", Dest>>, <<"first", Dest, "second">>}
                   ELSE {})

CallTypes ==
    /\ mib \in Worlds /\ stack \in Seq(Frames)
    /\ asked \in {<<>>} \cup (Modules \X BOOLEAN)
    /\ asked # <<>> => raised = Nothing
    /\ compiler \in BOOLEAN

LInv ==
    /\ TypeOK /\ CallTypes /\ SearchPath
    /\ Calls(stack, symbols, seen)
    /\ Idles(stack, mib.augments, asked = <<>> /\ raised = Nothing)
    /\ Recorded(seen, symbols)
    /\ Accounted(stack, symbols, seen, mib)
    /\ paths = {seen[m] : m \in DOMAIN seen} \cup Bodies(stack)
    /\ building = Builds(stack)

\* The tree, as long as nothing that is in it was unloaded.
XInv ==
    ~upset =>
        /\ ~failed
        /\ attached = last.instances /\ inTree = last.objects
        /\ last.instances \subseteq Instances /\ last.objects \subseteq Objects
        /\ \A i \in last.instances : Parent[i] \in last.objects
        /\ ~moved => last.instances = Instances /\ last.objects = Objects

\* The invariant.
IInv == LInv /\ XInv

-----------------------------------------------------------------------------
(* The stack of calls.                                                     *)

\* A call begins (loadModule, _loadModuleFromCorpus).
LEMMA Pushed ==
    ASSUME NEW s \in Seq(Frames), NEW f \in Frames
    PROVE  LET u == <<f>> \o s IN
           /\ u \in Seq(Frames) /\ Len(u) = Len(s) + 1 /\ Len(s) \in Nat
           /\ DOMAIN u = 1 .. Len(s) + 1 /\ DOMAIN s = 1 .. Len(s)
           /\ u[1] = f
           /\ \A i \in 2 .. Len(s) + 1 : i - 1 \in DOMAIN s /\ u[i] = s[i - 1]
           /\ \A i \in DOMAIN s : i + 1 \in DOMAIN u /\ u[i + 1] = s[i]
<1> DEFINE u == <<f>> \o s
<1>1. <<f>> \in Seq(Frames) /\ Len(<<f>>) = 1 /\ <<f>>[1] = f
  OBVIOUS
<1>2. u \in Seq(Frames)
  BY <1>1, ConcatProperties
<1>3. Len(s) \in Nat /\ DOMAIN s = 1 .. Len(s)
  BY LenProperties
<1>4. Len(u) = Len(s) + 1 /\ \A i \in 1 .. Len(u) : u[i] = IF i <= 1 THEN <<f>>[i] ELSE s[i - 1]
  BY <1>1, <1>3, ConcatProperties
<1>5. DOMAIN u = 1 .. Len(u)
  BY <1>2, LenProperties
<1> HIDE DEF u
<1>6. \A i \in 2 .. Len(s) + 1 : i - 1 \in DOMAIN s /\ u[i] = s[i - 1]
  BY <1>3, <1>4
<1>7. \A i \in DOMAIN s : i + 1 \in DOMAIN u /\ u[i + 1] = s[i]
  BY <1>3, <1>4, <1>5
<1>8. u[1] = f
  BY <1>1, <1>3, <1>4
<1> QED
  BY <1>2, <1>3, <1>4, <1>5, <1>6, <1>7, <1>8 DEF u

\* The call on top ends.
LEMMA Popped ==
    ASSUME NEW s \in Seq(Frames), s # <<>>
    PROVE  /\ Tail(s) \in Seq(Frames) /\ s[1] \in Frames
           /\ DOMAIN s = 1 .. Len(s) /\ Len(s) \in Nat \ {0}
           /\ DOMAIN Tail(s) = 1 .. Len(s) - 1
           /\ \A i \in DOMAIN Tail(s) : i + 1 \in DOMAIN s /\ Tail(s)[i] = s[i + 1]
           /\ \A i \in DOMAIN s : i # 1 => i - 1 \in DOMAIN Tail(s) /\ Tail(s)[i - 1] = s[i]
<1>1. Len(s) \in Nat /\ Len(s) # 0 /\ DOMAIN s = 1 .. Len(s)
  BY LenProperties, EmptySeq
<1>2. /\ Tail(s) \in Seq(Frames) /\ Len(Tail(s)) = Len(s) - 1
      /\ \A i \in 1 .. Len(Tail(s)) : Tail(s)[i] = s[i + 1]
  BY HeadTailProperties
<1>3. DOMAIN Tail(s) = 1 .. Len(s) - 1
  BY <1>2, LenProperties
<1>4. s[1] \in Frames
  BY <1>1, ElementOfSeq
<1>5. \A i \in DOMAIN s : i # 1 => i - 1 \in DOMAIN Tail(s) /\ Tail(s)[i - 1] = s[i]
  BY <1>1, <1>2, <1>3
<1>6. \A i \in DOMAIN Tail(s) : i + 1 \in DOMAIN s /\ Tail(s)[i] = s[i + 1]
  BY <1>1, <1>2, <1>3
<1> QED
  BY <1>1, <1>2, <1>3, <1>4, <1>5, <1>6

\* The call on top goes on.
LEMMA Replaced ==
    ASSUME NEW s \in Seq(Frames), s # <<>>, NEW f \in Frames
    PROVE  LET u == [s EXCEPT ![1] = f] IN
           /\ u \in Seq(Frames) /\ DOMAIN u = DOMAIN s /\ 1 \in DOMAIN s
           /\ u[1] = f /\ \A i \in DOMAIN s : i # 1 => u[i] = s[i]
           /\ DOMAIN s = 1 .. Len(s) /\ Len(s) \in Nat
<1>1. Len(s) \in Nat /\ Len(s) # 0 /\ DOMAIN s = 1 .. Len(s)
  BY LenProperties, EmptySeq
<1>2. 1 \in 1 .. Len(s)
  BY <1>1
<1>3. [s EXCEPT ![1] = f] \in Seq(Frames)
  BY <1>2, ExceptSeq
<1> QED
  BY <1>1, <1>2, <1>3

LEMMA PushedCalls ==
    ASSUME NEW s \in Seq(Frames), NEW f \in Frames, NEW exported, NEW recorded,
           Calls(s, exported, recorded), f.stage # "wiring",
           f.stage # "body" <=> f.copy[1] = FromCorpus,
           \A i \in DOMAIN s : s[i].copy # f.copy,
           \A m \in DOMAIN recorded : recorded[m] # f.copy
    PROVE  /\ Calls(<<f>> \o s, exported, recorded)
           /\ Bodies(<<f>> \o s) = Bodies(s) \cup (IF f.stage = "body" THEN {f.copy} ELSE {})
           /\ Builds(<<f>> \o s) = Builds(s) \cup (IF f.stage = "body" THEN {} ELSE {Module(f)})
<1> DEFINE u == <<f>> \o s
<1>1. /\ DOMAIN u = 1 .. Len(s) + 1 /\ DOMAIN s = 1 .. Len(s) /\ Len(s) \in Nat
      /\ u[1] = f
      /\ \A i \in 2 .. Len(s) + 1 : i - 1 \in DOMAIN s /\ u[i] = s[i - 1]
      /\ \A i \in DOMAIN s : i + 1 \in DOMAIN u /\ u[i + 1] = s[i]
  BY Pushed
<1> HIDE DEF u
<1>2. ASSUME NEW i \in DOMAIN u, i # 1
      PROVE  i - 1 \in DOMAIN s /\ u[i] = s[i - 1]
  BY <1>1, <1>2
<1>3. FromWhere(u)
  BY <1>1, <1>2 DEF Calls, FromWhere
<1>4. Distinct(u)
  <2>1. SUFFICES ASSUME NEW i \in DOMAIN u, NEW j \in DOMAIN u, u[i].copy = u[j].copy
                 PROVE  i = j
    BY DEF Distinct
  <2>2. CASE i # 1 /\ j # 1
    <3>1. i - 1 = j - 1
      BY <2>1, <2>2, <1>2 DEF Calls, Distinct
    <3> QED
      BY <3>1, <1>1
  <2>3. CASE i = 1 \/ j = 1
    BY <2>1, <2>3, <1>1, <1>2
  <2> QED
    BY <2>2, <2>3
<1>5. NotRecorded(u, recorded)
  BY <1>1, <1>2 DEF Calls, NotRecorded
<1>6. HasSymbols(u, exported)
  BY <1>1, <1>2 DEF Calls, HasSymbols
<1>7. Bodies(u) = Bodies(s) \cup (IF f.stage = "body" THEN {f.copy} ELSE {})
  <2>1. ASSUME NEW c \in Bodies(u)
        PROVE  c \in Bodies(s) \cup (IF f.stage = "body" THEN {f.copy} ELSE {})
    BY <2>1, <1>1, <1>2 DEF Bodies
  <2>2. ASSUME NEW c \in Bodies(s) PROVE c \in Bodies(u)
    <3>1. PICK i \in DOMAIN s : s[i].stage = "body" /\ c = s[i].copy
      BY <2>2 DEF Bodies
    <3>2. i + 1 \in DOMAIN u /\ u[i + 1] = s[i]
      BY <3>1, <1>1
    <3> QED
      BY <3>1, <3>2 DEF Bodies
  <2>3. f.stage = "body" => f.copy \in Bodies(u)
    <3>1. 1 \in DOMAIN u
      BY <1>1
    <3> QED
      BY <3>1, <1>1 DEF Bodies
  <2> QED
    BY <2>1, <2>2, <2>3
<1>8. Builds(u) = Builds(s) \cup (IF f.stage = "body" THEN {} ELSE {Module(f)})
  <2>1. ASSUME NEW c \in Builds(u)
        PROVE  c \in Builds(s) \cup (IF f.stage = "body" THEN {} ELSE {Module(f)})
    BY <2>1, <1>1, <1>2 DEF Builds
  <2>2. ASSUME NEW c \in Builds(s) PROVE c \in Builds(u)
    <3>1. PICK i \in DOMAIN s : s[i].stage # "body" /\ c = Module(s[i])
      BY <2>2 DEF Builds
    <3>2. i + 1 \in DOMAIN u /\ u[i + 1] = s[i]
      BY <3>1, <1>1
    <3> QED
      BY <3>1, <3>2 DEF Builds
  <2>3. f.stage # "body" => Module(f) \in Builds(u)
    <3>1. 1 \in DOMAIN u
      BY <1>1
    <3> QED
      BY <3>1, <1>1 DEF Builds
  <2> QED
    BY <2>1, <2>2, <2>3
<1> QED
  BY <1>3, <1>4, <1>5, <1>6, <1>7, <1>8 DEF Calls, u

LEMMA PoppedCalls ==
    ASSUME NEW s \in Seq(Frames), s # <<>>, NEW exported, NEW recorded, Calls(s, exported, recorded)
    PROVE  /\ Calls(Tail(s), exported, recorded)
           /\ Calls(Tail(s), exported, Put(recorded, Module(s[1]), s[1].copy))
           /\ Bodies(Tail(s)) = IF s[1].stage = "body" THEN Bodies(s) \ {s[1].copy} ELSE Bodies(s)
           /\ Bodies(s) = IF s[1].stage = "body" THEN Bodies(Tail(s)) \cup {s[1].copy} ELSE Bodies(Tail(s))
           /\ Builds(Tail(s)) = IF s[1].stage = "body" THEN Builds(s) ELSE Builds(s) \ {Module(s[1])}
<1> DEFINE u == Tail(s)
<1>1. /\ u \in Seq(Frames) /\ s[1] \in Frames
      /\ DOMAIN s = 1 .. Len(s) /\ Len(s) \in Nat \ {0} /\ DOMAIN u = 1 .. Len(s) - 1
      /\ \A i \in DOMAIN u : i + 1 \in DOMAIN s /\ u[i] = s[i + 1]
      /\ \A i \in DOMAIN s : i # 1 => i - 1 \in DOMAIN u /\ u[i - 1] = s[i]
  BY Popped
<1> HIDE DEF u
<1>2. /\ 1 \in DOMAIN s
      /\ \A i \in DOMAIN u : i + 1 # 1
      /\ \A i \in DOMAIN s : s[i] \in Frames
  BY <1>1, ElementOfSeq
<1>3. FromWhere(u)
  BY <1>1 DEF Calls, FromWhere
<1>4. Distinct(u)
  <2>1. SUFFICES ASSUME NEW i \in DOMAIN u, NEW j \in DOMAIN u, u[i].copy = u[j].copy
                 PROVE  i = j
    BY DEF Distinct
  <2>2. i + 1 = j + 1
    BY <2>1, <1>1 DEF Calls, Distinct
  <2> QED
    BY <2>2, <1>1
<1>5. ASSUME NEW i \in DOMAIN u PROVE u[i].copy # s[1].copy
  <2>1. i + 1 \in DOMAIN s /\ i + 1 # 1 /\ u[i] = s[i + 1]
    BY <1>1, <1>2
  <2>2. s[i + 1].copy = s[1].copy => i + 1 = 1
    BY <2>1, <1>2 DEF Calls, Distinct
  <2> QED
    BY <2>1, <2>2
<1>6. NotRecorded(u, recorded) /\ NotRecorded(u, Put(recorded, Module(s[1]), s[1].copy))
  BY <1>1, <1>5 DEF Calls, NotRecorded, Put
<1>7. HasSymbols(u, exported)
  BY <1>1 DEF Calls, HasSymbols
<1>8. ASSUME NEW i \in DOMAIN u, u[i].stage # "body", s[1].stage # "body"
      PROVE  Module(u[i]) # Module(s[1])
  <2>1. u[i] \in Frames /\ u[i].copy[1] = FromCorpus /\ s[1].copy[1] = FromCorpus
    BY <1>1, <1>2, <1>8 DEF Calls, FromWhere
  <2>2. Module(u[i]) = Module(s[1]) => u[i].copy = s[1].copy
    <3>1. u[i].copy \in Copies /\ s[1].copy \in Copies
      BY <2>1, <1>1 DEF Frames
    <3>2. \A a, b \in Copies : a[1] = b[1] /\ a[2] = b[2] => a = b
      BY DEF Copies
    <3> QED
      BY <3>1, <3>2, <2>1 DEF Module
  <2> QED
    BY <2>2, <1>5
<1>9. Bodies(s) = IF s[1].stage = "body" THEN Bodies(u) \cup {s[1].copy} ELSE Bodies(u)
  <2>1. ASSUME NEW c \in Bodies(u) PROVE c \in Bodies(s)
    BY <2>1, <1>1 DEF Bodies
  <2>2. ASSUME NEW c \in Bodies(s)
        PROVE  c \in IF s[1].stage = "body" THEN Bodies(u) \cup {s[1].copy} ELSE Bodies(u)
    <3>1. PICK i \in DOMAIN s : s[i].stage = "body" /\ c = s[i].copy
      BY <2>2 DEF Bodies
    <3>2. CASE i = 1
      BY <3>1, <3>2
    <3>3. CASE i # 1
      <4>1. c \in Bodies(u)
        BY <3>1, <3>3, <1>1 DEF Bodies
      <4> QED
        BY <4>1
    <3> QED
      BY <3>2, <3>3
  <2>3. s[1].stage = "body" => s[1].copy \in Bodies(s)
    BY <1>2 DEF Bodies
  <2> QED
    BY <2>1, <2>2, <2>3
<1>10. s[1].copy \notin Bodies(u)
  BY <1>5 DEF Bodies
<1>11. Builds(s) = IF s[1].stage # "body" THEN Builds(u) \cup {Module(s[1])} ELSE Builds(u)
  <2>1. ASSUME NEW c \in Builds(u) PROVE c \in Builds(s)
    BY <2>1, <1>1 DEF Builds
  <2>2. ASSUME NEW c \in Builds(s)
        PROVE  c \in IF s[1].stage # "body" THEN Builds(u) \cup {Module(s[1])} ELSE Builds(u)
    <3>1. PICK i \in DOMAIN s : s[i].stage # "body" /\ c = Module(s[i])
      BY <2>2 DEF Builds
    <3>2. CASE i = 1
      BY <3>1, <3>2
    <3>3. CASE i # 1
      <4>1. c \in Builds(u)
        BY <3>1, <3>3, <1>1 DEF Builds
      <4> QED
        BY <4>1
    <3> QED
      BY <3>2, <3>3
  <2>3. s[1].stage # "body" => Module(s[1]) \in Builds(s)
    BY <1>2 DEF Builds
  <2> QED
    BY <2>1, <2>2, <2>3
<1>12. s[1].stage # "body" => Module(s[1]) \notin Builds(u)
  BY <1>8 DEF Builds
<1> QED
  BY <1>3, <1>4, <1>6, <1>7, <1>9, <1>10, <1>11, <1>12 DEF Calls, u

LEMMA ReplacedCalls ==
    ASSUME NEW s \in Seq(Frames), s # <<>>, NEW f \in Frames, NEW exported, NEW recorded,
           Calls(s, exported, recorded), f.copy = s[1].copy, f.stage = "body" <=> s[1].stage = "body",
           f.stage = "wiring" => Module(f) \in DOMAIN exported /\ exported[Module(f)] = f.copy
    PROVE  LET u == [s EXCEPT ![1] = f] IN
           Calls(u, exported, recorded) /\ Bodies(u) = Bodies(s) /\ Builds(u) = Builds(s)
<1> DEFINE u == [s EXCEPT ![1] = f]
<1>1. /\ DOMAIN u = DOMAIN s /\ 1 \in DOMAIN s
      /\ u[1] = f /\ \A i \in DOMAIN s : i # 1 => u[i] = s[i]
  BY Replaced
<1> HIDE DEF u
<1>2. \A i \in DOMAIN s : u[i].copy = s[i].copy /\ (u[i].stage = "body" <=> s[i].stage = "body")
  BY <1>1
<1>3. FromWhere(u) /\ Distinct(u) /\ NotRecorded(u, recorded)
  BY <1>1, <1>2 DEF Calls, FromWhere, Distinct, NotRecorded
<1>4. HasSymbols(u, exported)
  BY <1>1 DEF Calls, HasSymbols
<1>5. Bodies(u) = Bodies(s)
  BY <1>1, <1>2 DEF Bodies
<1>6. Builds(u) = Builds(s)
  BY <1>1, <1>2 DEF Builds, Module
<1> QED
  BY <1>3, <1>4, <1>5, <1>6 DEF Calls, u

LEMMA PushedWirings ==
    ASSUME NEW s \in Seq(Frames), NEW f \in Frames, f.stage # "wiring",
           NEW a, Idles(s, a, FALSE), NEW b \in BOOLEAN
    PROVE  Wirings(<<f>> \o s) = Wirings(s) /\ Idles(<<f>> \o s, a, b)
<1> DEFINE u == <<f>> \o s
<1>1. /\ DOMAIN u = 1 .. Len(s) + 1 /\ DOMAIN s = 1 .. Len(s) /\ Len(s) \in Nat
      /\ u[1] = f
      /\ \A i \in 2 .. Len(s) + 1 : i - 1 \in DOMAIN s /\ u[i] = s[i - 1]
      /\ \A i \in DOMAIN s : i + 1 \in DOMAIN u /\ u[i + 1] = s[i]
  BY Pushed
<1> HIDE DEF u
<1>2. ASSUME NEW i \in DOMAIN u, i # 1
      PROVE  i - 1 \in DOMAIN s /\ u[i] = s[i - 1]
  BY <1>1, <1>2
<1>3. ASSUME NEW c \in Wirings(u) PROVE c \in Wirings(s)
  BY <1>1, <1>2, <1>3 DEF Wirings
<1>4. ASSUME NEW c \in Wirings(s) PROVE c \in Wirings(u)
  BY <1>1, <1>4 DEF Wirings
<1>5. Idles(u, a, b)
  BY <1>1, <1>2 DEF Idles
<1> QED
  BY <1>3, <1>4, <1>5 DEF u

LEMMA PoppedWirings ==
    ASSUME NEW s \in Seq(Frames), s # <<>>, NEW a, NEW b, NEW c, Idles(s, a, b)
    PROVE  /\ Wirings(s) \subseteq Wirings(Tail(s)) \cup (IF s[1].stage = "wiring" THEN {Module(s[1])} ELSE {})
           /\ Idles(Tail(s), a, c)
<1> DEFINE u == Tail(s)
<1>1. /\ \A i \in DOMAIN u : i + 1 \in DOMAIN s /\ u[i] = s[i + 1]
      /\ \A i \in DOMAIN s : i # 1 => i - 1 \in DOMAIN u /\ u[i - 1] = s[i]
      /\ DOMAIN u = 1 .. Len(s) - 1 /\ Len(s) \in Nat
  BY Popped
<1> HIDE DEF u
<1>2. ASSUME NEW x \in Wirings(s)
      PROVE  x \in Wirings(u) \cup (IF s[1].stage = "wiring" THEN {Module(s[1])} ELSE {})
  <2>1. PICK i \in DOMAIN s : s[i].stage = "wiring" /\ x = Module(s[i])
    BY <1>2 DEF Wirings
  <2>2. CASE i = 1
    BY <2>1, <2>2
  <2>3. CASE i # 1
    <3>1. x \in Wirings(u)
      BY <2>1, <2>3, <1>1 DEF Wirings
    <3> QED
      BY <3>1
  <2> QED
    BY <2>2, <2>3
<1>3. \A i \in DOMAIN u : i + 1 # 1
  BY <1>1
<1>4. Idles(u, a, c)
  BY <1>1, <1>3 DEF Idles
<1> QED
  BY <1>2, <1>4 DEF u

LEMMA ReplacedWirings ==
    ASSUME NEW s \in Seq(Frames), s # <<>>, NEW f \in Frames, f.copy = s[1].copy,
           s[1].stage = "wiring" => f.stage = "wiring"
    PROVE  LET u == [s EXCEPT ![1] = f] IN
           Wirings(s) \subseteq Wirings(u) /\ (f.stage = "wiring" => Module(f) \in Wirings(u))
<1> DEFINE u == [s EXCEPT ![1] = f]
<1>1. /\ DOMAIN u = DOMAIN s /\ 1 \in DOMAIN s
      /\ u[1] = f /\ \A i \in DOMAIN s : i # 1 => u[i] = s[i]
  BY Replaced
<1> HIDE DEF u
<1>2. ASSUME NEW x \in Wirings(s) PROVE x \in Wirings(u)
  <2>1. PICK i \in DOMAIN s : s[i].stage = "wiring" /\ x = Module(s[i])
    BY <1>2 DEF Wirings
  <2>2. CASE i = 1
    BY <2>1, <2>2, <1>1 DEF Wirings, Module
  <2>3. CASE i # 1
    BY <2>1, <2>3, <1>1 DEF Wirings
  <2> QED
    BY <2>2, <2>3
<1>3. f.stage = "wiring" => Module(f) \in Wirings(u)
  BY <1>1 DEF Wirings
<1> QED
  BY <1>2, <1>3 DEF u

-----------------------------------------------------------------------------
(* What may be loaded.                                                     *)

\* The copy that is tried is one a source has (_candidates).
LEMMA PreferredIsASource ==
    ASSUME SearchPath, NEW m, Candidates(m) # {}
    PROVE  Preferred(m) \in Sources
<1> DEFINE found == Candidates(m)
           date(i) == Revision[path[i]][m]
           newest == {i \in found : \A j \in found : date(j) <= date(i)}
           chosen == IF \E i \in found : date(i) = Undated THEN found ELSE newest
<1>1. /\ DOMAIN path \subseteq {1, 2, 3}
      /\ \A i \in DOMAIN path : path[i] \in Sources
  BY DEF SearchPath, Sources
<1>2. found \subseteq DOMAIN path /\ found # {} /\ \A i \in found : m \in DOMAIN Revision[path[i]]
  BY DEF Candidates, Holds
<1>3. \A i \in found : date(i) \in Nat
  BY <1>1, <1>2, MibBuilderAssumption
<1> HIDE DEF found, date
<1>4. chosen # {} /\ chosen \subseteq DOMAIN path
  <2>1. found \subseteq {1, 2, 3}
    BY <1>1, <1>2
  <2>2. newest # {}
    BY <2>1, <1>2, <1>3
  <2> QED
    BY <2>2, <1>2
<1> HIDE DEF chosen
<1>5. \E i \in chosen : \A j \in chosen : i <= j
  BY <1>1, <1>4
<1>6. Min(chosen) \in chosen
  BY <1>5 DEF Min
<1>7. Preferred(m) = path[Min(chosen)]
  BY DEF Preferred, chosen, found, date
<1> QED
  BY <1>1, <1>4, <1>6, <1>7

\* A call's frame.
LEMMA FrameIsWellFormed ==
    ASSUME mib \in Worlds, NEW where \in Sources \cup {FromCorpus}, NEW m \in Modules,
           NEW stage \in Stages
    PROVE  /\ Frame(where, m, stage) \in Frames
           /\ Frame(where, m, stage).copy = <<where, m>> /\ Frame(where, m, stage).stage = stage
           /\ Module(Frame(where, m, stage)) = m
<1>1. mib.imports[m] \subseteq Modules
  BY MibBuilderAssumption
<1> QED
  BY <1>1 DEF Frame, Frames, Copies, Module

-----------------------------------------------------------------------------
(* The steps of a load.                                                    *)

LEMMA LoadModuleKeeps ==
    ASSUME LInv, LoadModule
    PROVE  LInv'
<1> DEFINE m == asked[1]
<1>1. /\ m \in Modules /\ asked # <<>> /\ raised = Nothing /\ mib \in Worlds
      /\ stack \in Seq(Frames)
      /\ UNCHANGED <<mib, path, compiler, corpus, symbols, seen, queue>>
  BY DEF LoadModule, LInv, CallTypes
<1> HIDE DEF m
<1>2. Idles(stack, mib.augments, FALSE)
  BY <1>1 DEF LInv, Idles
<1>3. SearchPath' /\ Recorded(seen', symbols')
  BY <1>1 DEF LInv, SearchPath
<1>4. CASE /\ asked' \in {<<>>, <<m, TRUE>>}
           /\ raised' \in {Nothing, "notFound", "smiError", "cycle"}
           /\ asked' # <<>> => raised' = Nothing
           /\ compiled' \subseteq Modules
           /\ UNCHANGED <<paths, building, stack>>
  <2>1. TypeOK'
    BY <1>1, <1>4 DEF LInv, TypeOK
  <2>2. CallTypes'
    <3>1. asked' \in {<<>>} \cup (Modules \X BOOLEAN)
      <4>1. <<m, TRUE>> \in Modules \X BOOLEAN
        BY <1>1, Zenon
      <4> QED
        BY <4>1, <1>4
    <3> QED
      BY <3>1, <1>1, <1>4 DEF LInv, CallTypes
  <2>3. Idles(stack, mib.augments, (asked = <<>> /\ raised = Nothing)')
    BY <1>2 DEF Idles
  <2> QED
    BY <2>1, <2>2, <2>3, <1>1, <1>3, <1>4 DEF LInv
<1>5. ASSUME NEW where \in Sources \cup {FromCorpus}, NEW stage \in {"body", "types"},
             stage = "body" <=> where # FromCorpus,
             Push(Frame(where, m, stage)), asked' = <<>>, UNCHANGED <<compiled, raised>>,
             \A i \in DOMAIN stack : stack[i].copy # <<where, m>>,
             \A x \in DOMAIN seen : seen[x] # <<where, m>>,
             paths' = paths \cup (IF stage = "body" THEN {<<where, m>>} ELSE {}),
             building' = building \cup (IF stage = "body" THEN {} ELSE {m})
      PROVE  LInv'
  <2> DEFINE f == Frame(where, m, stage)
  <2>1. f \in Frames /\ f.copy = <<where, m>> /\ f.stage = stage /\ Module(f) = m
    <3>1. stage \in Stages
      BY <1>5 DEF Stages
    <3> HIDE DEF f
    <3> QED
      BY <3>1, <1>1, FrameIsWellFormed DEF f
  <2>2. stack' = <<f>> \o stack
    BY <1>5 DEF Push
  <2> HIDE DEF f
  <2>3. f.stage # "wiring" /\ (f.stage # "body" <=> f.copy[1] = FromCorpus)
    BY <2>1, <1>5
  <2>4. /\ Calls(stack', symbols, seen)
        /\ Bodies(stack') = Bodies(stack) \cup (IF stage = "body" THEN {<<where, m>>} ELSE {})
        /\ Builds(stack') = Builds(stack) \cup (IF stage = "body" THEN {} ELSE {m})
    <3>1. Calls(stack, symbols, seen)
      BY DEF LInv
    <3>2. /\ \A i \in DOMAIN stack : stack[i].copy # f.copy
          /\ \A x \in DOMAIN seen : seen[x] # f.copy
      BY <2>1, <1>5
    <3>3. /\ Calls(<<f>> \o stack, symbols, seen)
          /\ Bodies(<<f>> \o stack) = Bodies(stack) \cup (IF f.stage = "body" THEN {f.copy} ELSE {})
          /\ Builds(<<f>> \o stack) = Builds(stack) \cup (IF f.stage = "body" THEN {} ELSE {Module(f)})
      BY <3>1, <3>2, <2>1, <2>3, <1>1, PushedCalls
    <3> QED
      BY <3>3, <2>1, <2>2
  <2>5. Wirings(stack') = Wirings(stack) /\ Idles(stack', mib.augments, TRUE)
    BY <2>1, <2>2, <2>3, <1>1, <1>2, PushedWirings
  <2>6. (asked = <<>> /\ raised = Nothing)' = TRUE
    BY <1>1, <1>5
  <2>7. TypeOK' /\ CallTypes'
    <3>1. stack' \in Seq(Frames)
      BY <2>1, <2>2, <1>1, Pushed
    <3> QED
      BY <3>1, <1>1, <1>5 DEF LInv, TypeOK, CallTypes
  <2>8. Accounted(stack', symbols, seen, mib)
    BY <2>5 DEF LInv, Accounted
  <2>9. /\ paths' = {seen[x] : x \in DOMAIN seen} \cup Bodies(stack')
        /\ building' = Builds(stack')
    BY <2>4, <1>5 DEF LInv
  <2> QED
    BY <2>4, <2>5, <2>6, <2>7, <2>8, <2>9, <1>1, <1>3 DEF LInv
<1>6. CASE /\ Entry(m) = "seen" /\ asked' = <<>>
           /\ raised' = IF stack # <<>> /\ m \notin DOMAIN symbols THEN "notFound" ELSE Nothing
           /\ UNCHANGED <<compiled, paths, building, stack>>
  BY <1>4, <1>6 DEF LInv, TypeOK
<1>7. CASE /\ Entry(m) = "execute"
           /\ paths' = paths \cup {<<Preferred(m), m>>}
           /\ Push(Frame(Preferred(m), m, "body"))
           /\ asked' = <<>> /\ UNCHANGED <<compiled, building, raised>>
  <2>1. Candidates(m) # {} /\ <<Preferred(m), m>> \notin paths
    BY <1>7 DEF Entry, CorpusEntry
  <2>2. Preferred(m) \in Sources /\ FromCorpus \notin Sources
    BY <2>1, PreferredIsASource DEF LInv, Sources, Dest, FromCorpus
  <2>3. \A x \in DOMAIN seen : seen[x] # <<Preferred(m), m>>
    BY <2>1 DEF LInv
  <2>4. ASSUME NEW i \in DOMAIN stack PROVE stack[i].copy # <<Preferred(m), m>>
    <3>1. CASE stack[i].stage = "body"
      <4>1. stack[i].copy \in Bodies(stack)
        BY <3>1 DEF Bodies
      <4> QED
        BY <4>1, <2>1 DEF LInv
    <3>2. CASE stack[i].stage # "body"
      BY <3>2, <2>2 DEF LInv, Calls, FromWhere
    <3> QED
      BY <3>1, <3>2
  <2> QED
    BY <2>2, <2>3, <2>4, <1>5, <1>7
<1>8. CASE /\ Entry(m) = "build"
           /\ building' = building \cup {m}
           /\ Push(Frame(FromCorpus, m, "types"))
           /\ asked' = <<>> /\ UNCHANGED <<compiled, paths, raised>>
  <2>1. m \notin DOMAIN seen /\ m \notin building
    BY <1>8 DEF Entry, CorpusEntry
  <2>2. FromCorpus \notin Sources
    BY DEF Sources, Dest, FromCorpus
  <2>3. \A x \in DOMAIN seen : seen[x] # <<FromCorpus, m>>
    BY <2>1 DEF LInv, Recorded
  <2>4. ASSUME NEW i \in DOMAIN stack PROVE stack[i].copy # <<FromCorpus, m>>
    <3>1. CASE stack[i].stage # "body"
      <4>1. Module(stack[i]) \in Builds(stack)
        BY <3>1 DEF Builds
      <4> QED
        BY <4>1, <2>1 DEF LInv, Module
    <3>2. CASE stack[i].stage = "body"
      BY <3>2 DEF LInv, Calls, FromWhere
    <3> QED
      BY <3>1, <3>2
  <2> QED
    BY <2>2, <2>3, <2>4, <1>5, <1>8
<1>9. CASE /\ \E written \in Rendered(m) : compiled' = compiled \cup written
           /\ IF Missing(m) \subseteq mib.compilable THEN asked' = <<m, TRUE>> /\ UNCHANGED raised
              ELSE asked' = <<>> /\ raised' = "notFound"
           /\ UNCHANGED <<paths, building, stack>>
  <2>1. mib.compilable \subseteq Modules /\ compiled \subseteq Modules
    BY <1>1, MibBuilderAssumption DEF LInv, TypeOK
  <2>2. compiled' \subseteq Modules
    BY <1>9, <2>1 DEF Rendered
  <2> QED
    BY <2>2, <1>1, <1>4, <1>9
<1>10. CASE /\ Entry(m) \in {"notFound", "smiError", "cycle"}
            /\ asked' = <<>> /\ raised' = Entry(m)
            /\ UNCHANGED <<compiled, paths, building, stack>>
  BY <1>4, <1>10 DEF LInv, TypeOK
<1> QED
  BY <1>6, <1>7, <1>8, <1>9, <1>10 DEF LoadModule, m

\* More symbols take nothing from the calls under way or from what is recorded.
LEMMA ExportsAddSymbols ==
    ASSUME NEW s, NEW exported, NEW recorded, NEW m, NEW c, m \notin DOMAIN exported,
           Calls(s, exported, recorded), Recorded(recorded, exported)
    PROVE  Calls(s, Put(exported, m, c), recorded) /\ Recorded(recorded, Put(exported, m, c))
<1>1. /\ DOMAIN Put(exported, m, c) = DOMAIN exported \cup {m}
      /\ \A x \in DOMAIN exported : Put(exported, m, c)[x] = exported[x]
  BY DEF Put
<1>2. HasSymbols(s, Put(exported, m, c))
  BY <1>1 DEF Calls, HasSymbols
<1>3. Recorded(recorded, Put(exported, m, c))
  BY <1>1 DEF Recorded
<1> QED
  BY <1>2, <1>3 DEF Calls

\* The call on top is one the invariant knows.
LEMMA TopIsWellFormed ==
    ASSUME LInv, stack # <<>>
    PROVE  /\ 1 \in DOMAIN stack /\ stack \in Seq(Frames) /\ Top = stack[1] /\ Top \in Frames
           /\ Top.copy \in Copies /\ Module(Top) \in Modules /\ Top.copy = <<Top.copy[1], Module(Top)>>
           /\ Top.stage # "body" <=> Top.copy[1] = FromCorpus
           /\ Top.stage = "wiring" => Module(Top) \in DOMAIN symbols /\ symbols[Module(Top)] = Top.copy
           /\ \A x \in DOMAIN seen : seen[x] # Top.copy
<1>1. stack \in Seq(Frames)
  BY DEF LInv, CallTypes
<1>2. 1 \in DOMAIN stack /\ stack[1] \in Frames
  BY <1>1, Popped
<1>3. Top.copy \in Copies
  BY <1>2 DEF Top, Frames
<1>4. Module(Top) \in Modules /\ Top.copy = <<Top.copy[1], Module(Top)>>
  BY <1>3 DEF Copies, Module
<1> QED
  BY <1>1, <1>2, <1>3, <1>4 DEF LInv, Calls, FromWhere, HasSymbols, NotRecorded, Top

\* A call that fails.
LEMMA AbandonKeeps ==
    ASSUME LInv, stack # <<>>, asked = <<>>, NEW error \in {"smiError", "cycle"}, Abandon(error),
           UNCHANGED <<mib, path, compiled, compiler, corpus, seen, asked, queue>>,
           \/ symbols' = symbols
           \/ Exported(Top.copy) /\ Module(Top) \in mib.failing /\ Top.stage = "body",
           Top.stage = "wiring" => mib.augments[Module(Top)] # {}
    PROVE  LInv'
<1> DEFINE m == Module(Top)
<1>1. /\ stack \in Seq(Frames) /\ Top = stack[1]
      /\ m \in Modules /\ Top.copy = <<Top.copy[1], m>>
      /\ Top.stage # "body" <=> Top.copy[1] = FromCorpus
      /\ Top.stage = "wiring" => m \in DOMAIN symbols /\ symbols[m] = Top.copy
      /\ \A x \in DOMAIN seen : seen[x] # Top.copy
  BY TopIsWellFormed
<1>2. /\ stack' = Tail(stack)
      /\ raised' \in {"loadError", "smiError", "cycle"}
      /\ building' = IF Top.stage = "body" THEN building ELSE building \ {m}
      /\ paths' = IF Top.stage = "body" THEN paths \ {Top.copy} ELSE paths
  BY DEF Abandon
<1>3. /\ Calls(stack, symbols, seen) /\ Recorded(seen, symbols)
      /\ Accounted(stack, symbols, seen, mib)
      /\ paths = {seen[x] : x \in DOMAIN seen} \cup Bodies(stack)
      /\ building = Builds(stack)
  BY DEF LInv
<1>4. symbols' = symbols \/ (symbols' = Put(symbols, m, Top.copy) /\ m \notin DOMAIN symbols)
  BY <1>1 DEF Exported, Module
<1> HIDE DEF m
<1>5. /\ Calls(Tail(stack), symbols, seen)
      /\ Bodies(Tail(stack)) = IF Top.stage = "body" THEN Bodies(stack) \ {Top.copy} ELSE Bodies(stack)
      /\ Builds(Tail(stack)) = IF Top.stage = "body" THEN Builds(stack) ELSE Builds(stack) \ {m}
  BY <1>1, <1>3, PoppedCalls DEF m
<1>6. Calls(stack', symbols', seen) /\ Recorded(seen, symbols')
  BY <1>2, <1>3, <1>4, <1>5, ExportsAddSymbols
<1>7. /\ Wirings(stack) \subseteq Wirings(Tail(stack)) \cup (IF Top.stage = "wiring" THEN {m} ELSE {})
      /\ Idles(Tail(stack), mib.augments, FALSE)
  <2>1. Idles(stack, mib.augments, asked = <<>> /\ raised = Nothing)
    BY DEF LInv
  <2> QED
    BY <2>1, <1>1, PoppedWirings DEF m
<1>8. Accounted(stack', symbols', seen, mib)
  <2>1. SUFFICES ASSUME NEW x \in DOMAIN symbols' \ (DOMAIN seen \cup OwnModules)
                 PROVE  \/ x \in Wirings(stack')
                        \/ IF symbols'[x][1] = FromCorpus THEN mib.augments[x] # {} ELSE x \in mib.failing
    BY DEF Accounted
  <2>2. CASE x \in DOMAIN symbols
    <3>1. symbols'[x] = symbols[x]
      BY <2>2, <1>4 DEF Put
    <3>2. \/ x \in Wirings(stack)
          \/ IF symbols[x][1] = FromCorpus THEN mib.augments[x] # {} ELSE x \in mib.failing
      BY <2>1, <2>2, <1>3 DEF Accounted
    <3> QED
      BY <3>1, <3>2, <1>1, <1>2, <1>7 DEF m
  <2>3. CASE x \notin DOMAIN symbols
    <3>1. x = m /\ symbols'[x] = Top.copy /\ symbols' # symbols
      BY <2>1, <2>3, <1>4 DEF Put
    <3>2. m \in mib.failing /\ Top.stage = "body"
      BY <3>1 DEF m
    <3> QED
      BY <3>1, <3>2, <1>1
  <2> QED
    BY <2>2, <2>3
<1>9. /\ paths' = {seen[x] : x \in DOMAIN seen} \cup Bodies(stack')
      /\ building' = Builds(stack')
  BY <1>1, <1>2, <1>3, <1>5
<1>10. Idles(stack', mib.augments, (asked = <<>> /\ raised = Nothing)')
  BY <1>2, <1>7 DEF Idles
<1>11. TypeOK' /\ CallTypes' /\ SearchPath'
  <2>1. stack' \in Seq(Frames)
    BY <1>1, <1>2, Popped
  <2>2. DOMAIN symbols' \subseteq Modules \cup OwnModules
    BY <1>1, <1>4 DEF LInv, TypeOK, Put
  <2> QED
    BY <2>1, <2>2, <1>2 DEF LInv, TypeOK, CallTypes, SearchPath
<1> QED
  BY <1>6, <1>8, <1>9, <1>10, <1>11 DEF LInv

\* A call that succeeds.
LEMMA RecordKeeps ==
    ASSUME LInv, stack # <<>>, asked = <<>>, Record,
           UNCHANGED <<mib, path, compiled, compiler, corpus, asked, queue>>,
           \/ symbols' = symbols /\ Top.stage = "wiring"
           \/ Exported(Top.copy) /\ Top.stage = "body"
    PROVE  LInv'
<1> DEFINE m == Module(Top)
<1>1. /\ stack \in Seq(Frames) /\ Top = stack[1] /\ Top.copy \in Copies
      /\ m \in Modules /\ Top.copy = <<Top.copy[1], m>>
      /\ Top.stage # "body" <=> Top.copy[1] = FromCorpus
      /\ Top.stage = "wiring" => m \in DOMAIN symbols /\ symbols[m] = Top.copy
      /\ \A x \in DOMAIN seen : seen[x] # Top.copy
  BY TopIsWellFormed
<1>2. /\ stack' = Tail(stack) /\ raised' = Nothing
      /\ building' = IF Top.stage = "body" THEN building ELSE building \ {m}
      /\ paths' = paths \cup {Top.copy}
      /\ seen' = Put(seen, m, Top.copy)
  BY DEF Record
<1>3. /\ Calls(stack, symbols, seen) /\ Recorded(seen, symbols)
      /\ Accounted(stack, symbols, seen, mib)
      /\ paths = {seen[x] : x \in DOMAIN seen} \cup Bodies(stack)
      /\ building = Builds(stack)
  BY DEF LInv
<1>4. \/ symbols' = symbols /\ Top.stage = "wiring"
      \/ symbols' = Put(symbols, m, Top.copy) /\ m \notin DOMAIN symbols
  BY <1>1 DEF Exported, Module
<1> HIDE DEF m
<1>5. m \notin DOMAIN seen
  BY <1>1, <1>3, <1>4 DEF Recorded
<1>6. /\ Calls(Tail(stack), symbols, seen')
      /\ Bodies(stack) = IF Top.stage = "body" THEN Bodies(Tail(stack)) \cup {Top.copy} ELSE Bodies(Tail(stack))
      /\ Builds(Tail(stack)) = IF Top.stage = "body" THEN Builds(stack) ELSE Builds(stack) \ {m}
  BY <1>1, <1>2, <1>3, PoppedCalls DEF m
<1>7. Recorded(seen, symbols') /\ m \in DOMAIN symbols' /\ symbols'[m] = Top.copy
  <2>1. Recorded(seen, symbols')
    BY <1>3, <1>4, ExportsAddSymbols
  <2>2. m \in DOMAIN symbols' /\ symbols'[m] = Top.copy
    BY <1>1, <1>4 DEF Put
  <2> QED
    BY <2>1, <2>2
<1>8. Recorded(seen', symbols')
  BY <1>1, <1>2, <1>7 DEF Recorded, Put
<1>9. Calls(stack', symbols', seen')
  <2>1. CASE symbols' = symbols
    BY <2>1, <1>2, <1>6
  <2>2. CASE symbols' = Put(symbols, m, Top.copy) /\ m \notin DOMAIN symbols
    <3>1. HasSymbols(Tail(stack), symbols')
      BY <2>2, <1>6 DEF Calls, HasSymbols, Put
    <3> QED
      BY <3>1, <1>2, <1>6 DEF Calls
  <2> QED
    BY <2>1, <2>2, <1>4
<1>10. /\ Wirings(stack) \subseteq Wirings(Tail(stack)) \cup (IF Top.stage = "wiring" THEN {m} ELSE {})
       /\ Idles(Tail(stack), mib.augments, (asked = <<>> /\ raised = Nothing)')
  <2>1. Idles(stack, mib.augments, asked = <<>> /\ raised = Nothing)
    BY DEF LInv
  <2> QED
    BY <2>1, <1>1, PoppedWirings DEF m
<1>11. Accounted(stack', symbols', seen', mib)
  <2>1. SUFFICES ASSUME NEW x \in DOMAIN symbols' \ (DOMAIN seen' \cup OwnModules)
                 PROVE  \/ x \in Wirings(stack')
                        \/ IF symbols'[x][1] = FromCorpus THEN mib.augments[x] # {} ELSE x \in mib.failing
    BY DEF Accounted
  <2>2. x # m /\ x \notin DOMAIN seen
    BY <2>1, <1>2 DEF Put
  <2>3. x \in DOMAIN symbols /\ symbols'[x] = symbols[x]
    BY <2>1, <2>2, <1>4 DEF Put
  <2>4. \/ x \in Wirings(stack)
        \/ IF symbols[x][1] = FromCorpus THEN mib.augments[x] # {} ELSE x \in mib.failing
    BY <2>1, <2>2, <2>3, <1>3 DEF Accounted
  <2> QED
    BY <2>2, <2>3, <2>4, <1>2, <1>10
<1>12. /\ paths' = {seen'[x] : x \in DOMAIN seen'} \cup Bodies(stack')
       /\ building' = Builds(stack')
  <2>1. {seen'[x] : x \in DOMAIN seen'} = {seen[x] : x \in DOMAIN seen} \cup {Top.copy}
    BY <1>2, <1>5 DEF Put
  <2> QED
    BY <2>1, <1>2, <1>3, <1>6
<1>13. TypeOK' /\ CallTypes' /\ SearchPath'
  <2>1. stack' \in Seq(Frames)
    BY <1>1, <1>2, Popped
  <2>2. DOMAIN symbols' \subseteq Modules \cup OwnModules /\ DOMAIN seen' \subseteq Modules
    BY <1>1, <1>2, <1>4 DEF LInv, TypeOK, Put
  <2> QED
    BY <2>1, <2>2, <1>2 DEF LInv, TypeOK, CallTypes, SearchPath
<1> QED
  BY <1>2, <1>8, <1>9, <1>10, <1>11, <1>12, <1>13 DEF LInv

LEMMA ImportNextKeeps ==
    ASSUME LInv, ImportNext
    PROVE  LInv'
<1>1. PICK x \in Top.todo :
         /\ stack' = [stack EXCEPT ![1].todo = @ \ {x}]
         /\ asked' = IF x \in DOMAIN symbols THEN <<>> ELSE <<x, FALSE>>
  BY DEF ImportNext
<1>2. /\ stack # <<>> /\ asked = <<>> /\ raised = Nothing
      /\ UNCHANGED <<mib, path, compiled, compiler, corpus, symbols, seen, paths, building, raised, queue>>
  BY DEF ImportNext, Proceeding
<1>3. /\ stack \in Seq(Frames) /\ 1 \in DOMAIN stack /\ Top = stack[1] /\ Top \in Frames
      /\ Top.stage = "wiring" => Module(Top) \in DOMAIN symbols /\ symbols[Module(Top)] = Top.copy
  BY <1>2, TopIsWellFormed
<1> DEFINE f == [Top EXCEPT !.todo = @ \ {x}]
<1>4. /\ f \in Frames /\ f.copy = Top.copy /\ f.stage = Top.stage /\ Module(f) = Module(Top)
      /\ x \in Modules
  BY <1>1, <1>3 DEF Frames, Module
<1>5. stack' = [stack EXCEPT ![1] = f]
  BY <1>1, <1>3
<1> HIDE DEF f
<1>6. /\ Calls(stack', symbols, seen) /\ Bodies(stack') = Bodies(stack) /\ Builds(stack') = Builds(stack)
  <2>1. Calls(stack, symbols, seen)
    BY DEF LInv
  <2> QED
    BY <2>1, <1>2, <1>3, <1>4, <1>5, ReplacedCalls
<1>7. Wirings(stack) \subseteq Wirings(stack')
  BY <1>2, <1>3, <1>4, <1>5, ReplacedWirings
<1>8. /\ stack' \in Seq(Frames) /\ DOMAIN stack' = DOMAIN stack
      /\ stack'[1] = f /\ \A i \in DOMAIN stack : i # 1 => stack'[i] = stack[i]
  BY <1>2, <1>3, <1>4, <1>5, Replaced
<1>9. Idles(stack', mib.augments, FALSE)
  <2>1. \A i \in DOMAIN stack : stack[i].stage = "wiring" => mib.augments[Module(stack[i])] # {}
    BY <1>1, <1>3 DEF LInv, Idles
  <2> QED
    BY <2>1, <1>3, <1>4, <1>8 DEF Idles
<1>10. Idles(stack', mib.augments, (asked = <<>> /\ raised = Nothing)')
  BY <1>9 DEF Idles
<1>11. Accounted(stack', symbols, seen, mib)
  BY <1>7 DEF LInv, Accounted
<1>12. TypeOK' /\ CallTypes' /\ SearchPath'
  <2>1. <<x, FALSE>> \in Modules \X BOOLEAN
    BY <1>4, Zenon
  <2>2. asked' \in {<<>>} \cup (Modules \X BOOLEAN)
    BY <2>1, <1>1
  <2> QED
    BY <2>2, <1>2, <1>8 DEF LInv, TypeOK, CallTypes, SearchPath
<1> QED
  BY <1>2, <1>6, <1>10, <1>11, <1>12 DEF LInv

LEMMA ExecuteRestKeeps ==
    ASSUME LInv, ExecuteRest
    PROVE  LInv'
<1>1. /\ stack # <<>> /\ asked = <<>> /\ Top.stage = "body"
      /\ UNCHANGED <<mib, path, compiled, compiler, corpus, asked, queue>>
  BY DEF ExecuteRest, Proceeding
<1>2. CASE Exported(Top.copy) /\ Module(Top) \in mib.failing /\ Abandon("smiError") /\ UNCHANGED seen
  BY <1>1, <1>2, AbandonKeeps
<1>3. CASE Exported(Top.copy) /\ Record
  BY <1>1, <1>3, RecordKeeps
<1>4. CASE Abandon("smiError") /\ UNCHANGED <<symbols, seen>>
  BY <1>1, <1>4, AbandonKeeps
<1> QED
  BY <1>2, <1>3, <1>4 DEF ExecuteRest

LEMMA BuildRestKeeps ==
    ASSUME LInv, BuildRest
    PROVE  LInv'
<1>1. /\ stack # <<>> /\ asked = <<>> /\ raised = Nothing /\ Top.todo = {} /\ Top.stage = "types"
      /\ UNCHANGED <<mib, path, compiled, compiler, corpus, seen, asked, queue>>
  BY DEF BuildRest, Proceeding
<1>2. CASE Abandon("smiError") /\ UNCHANGED symbols
  BY <1>1, <1>2, AbandonKeeps
<1>3. CASE /\ Exported(Top.copy)
           /\ stack' = [stack EXCEPT ![1].stage = "wiring", ![1].todo = mib.augments[Module(Top)]]
           /\ UNCHANGED <<building, paths, raised>>
  <2> DEFINE m == Module(Top)
             f == [Top EXCEPT !.stage = "wiring", !.todo = mib.augments[m]]
  <2>1. /\ stack \in Seq(Frames) /\ 1 \in DOMAIN stack /\ Top = stack[1] /\ Top \in Frames
        /\ m \in Modules /\ Top.copy = <<Top.copy[1], m>>
    BY <1>1, TopIsWellFormed
  <2>2. mib.augments[m] \subseteq Modules
    BY <2>1, MibBuilderAssumption DEF LInv, CallTypes
  <2>3. /\ f \in Frames /\ f.copy = Top.copy /\ f.stage = "wiring" /\ Module(f) = m
        /\ f.todo = mib.augments[m]
    BY <2>1, <2>2 DEF Frames, Stages, Module
  <2>4. stack' = [stack EXCEPT ![1] = f]
    BY <2>1, <1>3
  <2>5. m \notin DOMAIN symbols /\ symbols' = Put(symbols, m, Top.copy)
    BY <1>3 DEF Exported, Module
  <2> HIDE DEF f, m
  <2>6. m \in DOMAIN symbols' /\ symbols'[m] = f.copy
    BY <2>3, <2>5 DEF Put
  <2>7. Calls(stack, symbols', seen) /\ Recorded(seen, symbols')
    BY <2>5, ExportsAddSymbols DEF LInv
  <2>8. /\ Calls(stack', symbols', seen) /\ Bodies(stack') = Bodies(stack) /\ Builds(stack') = Builds(stack)
    BY <1>1, <2>1, <2>3, <2>4, <2>6, <2>7, ReplacedCalls
  <2>9. Wirings(stack) \subseteq Wirings(stack') /\ m \in Wirings(stack')
    BY <1>1, <2>1, <2>3, <2>4, ReplacedWirings
  <2>10. /\ stack' \in Seq(Frames) /\ DOMAIN stack' = DOMAIN stack
         /\ stack'[1] = f /\ \A i \in DOMAIN stack : i # 1 => stack'[i] = stack[i]
    BY <1>1, <2>1, <2>3, <2>4, Replaced
  <2>11. (asked = <<>> /\ raised = Nothing)' = TRUE
    BY <1>1, <1>3
  <2>12. Idles(stack', mib.augments, TRUE)
    <3>1. \A i \in DOMAIN stack : i # 1 /\ stack[i].stage = "wiring" => mib.augments[Module(stack[i])] # {}
      BY DEF LInv, Idles
    <3> QED
      BY <3>1, <2>3, <2>10 DEF Idles
  <2>13. Accounted(stack', symbols', seen, mib)
    BY <2>5, <2>9 DEF LInv, Accounted, Put
  <2>14. TypeOK' /\ CallTypes' /\ SearchPath'
    <3>1. DOMAIN symbols' \subseteq Modules \cup OwnModules
      BY <2>1, <2>5 DEF LInv, TypeOK, Put
    <3> QED
      BY <3>1, <2>10, <1>1, <1>3 DEF LInv, TypeOK, CallTypes, SearchPath
  <2> QED
    BY <2>7, <2>8, <2>11, <2>12, <2>13, <2>14, <1>1, <1>3 DEF LInv
<1> QED
  BY <1>2, <1>3 DEF BuildRest

LEMMA WiredKeeps ==
    ASSUME LInv, Wired
    PROVE  LInv'
BY RecordKeeps DEF Wired, Proceeding

LEMMA UnwindKeeps ==
    ASSUME LInv, Unwind
    PROVE  LInv'
<1>1. /\ raised # Nothing /\ asked = <<>>
      /\ UNCHANGED <<mib, path, compiled, compiler, corpus, symbols, seen, asked>>
  BY DEF Unwind, LInv, CallTypes
<1>2. \A i \in DOMAIN stack : stack[i].stage = "wiring" => mib.augments[Module(stack[i])] # {}
  BY <1>1 DEF LInv, Idles
<1>3. CASE raised' = Nothing /\ queue' \in {queue, {}} /\ UNCHANGED <<stack, building, paths>>
  <2>1. Idles(stack, mib.augments, (asked = <<>> /\ raised = Nothing)')
    BY <1>2 DEF Idles
  <2>2. TypeOK' /\ CallTypes' /\ SearchPath'
    BY <1>1, <1>3 DEF LInv, TypeOK, CallTypes, SearchPath
  <2> QED
    BY <2>1, <2>2, <1>1, <1>3 DEF LInv
<1>4. CASE stack # <<>> /\ Abandon(IF raised = "cycle" THEN "cycle" ELSE "smiError") /\ UNCHANGED queue
  <2>1. Top.stage = "wiring" => mib.augments[Module(Top)] # {}
    BY <1>2, <1>4, TopIsWellFormed
  <2>2. CASE raised = "cycle"
    BY <2>1, <2>2, <1>1, <1>4, AbandonKeeps
  <2>3. CASE raised # "cycle"
    BY <2>1, <2>3, <1>1, <1>4, AbandonKeeps
  <2> QED
    BY <2>2, <2>3
<1> QED
  BY <1>3, <1>4 DEF Unwind

LEMMA AskNextKeeps ==
    ASSUME LInv, AskNext
    PROVE  LInv'
<1>1. PICK x \in queue : asked' = <<x, FALSE>> /\ queue' = queue \ {x}
  BY DEF AskNext
<1>2. /\ stack = <<>> /\ raised = Nothing
      /\ UNCHANGED <<mib, path, compiled, compiler, corpus, symbols, seen, paths, building, stack, raised>>
  BY DEF AskNext
<1>3. x \in Modules
  BY <1>1 DEF LInv, TypeOK
<1>4. <<x, FALSE>> \in Modules \X BOOLEAN
  BY <1>3, Zenon
<1>5. TypeOK' /\ CallTypes' /\ SearchPath'
  BY <1>1, <1>2, <1>4 DEF LInv, TypeOK, CallTypes, SearchPath
<1>6. Idles(stack, mib.augments, (asked = <<>> /\ raised = Nothing)')
  BY <1>2 DEF Idles
<1> QED
  BY <1>2, <1>5, <1>6 DEF LInv

LEMMA StepKeeps ==
    ASSUME LInv, Step
    PROVE  LInv'
BY LoadModuleKeeps, ImportNextKeeps, ExecuteRestKeeps, BuildRestKeeps, WiredKeeps, UnwindKeeps,
   AskNextKeeps DEF Step

-----------------------------------------------------------------------------
(* The application's calls.                                                *)

LEMMA LoadModulesKeeps ==
    ASSUME LInv, NEW names \in SUBSET Modules, LoadModules(names)
    PROVE  LInv'
<1>1. queue' = names
      /\ UNCHANGED <<mib, path, compiled, compiler, corpus, symbols, seen, paths, building, stack, asked, raised>>
  BY DEF LoadModules
<1>2. TypeOK' /\ CallTypes' /\ SearchPath'
  BY <1>1 DEF LInv, TypeOK, CallTypes, SearchPath
<1> QED
  BY <1>1, <1>2 DEF LInv

LEMMA UnloadModuleKeeps ==
    ASSUME LInv, NEW m, UnloadModule(m)
    PROVE  LInv'
<1>1. /\ stack = <<>> /\ asked = <<>> /\ raised = Nothing
      /\ symbols' = Without(symbols, {m}) /\ seen' = Without(seen, {m})
      /\ paths' = IF m \in DOMAIN seen THEN paths \ {seen[m]} ELSE paths
      /\ UNCHANGED <<mib, path, compiled, compiler, corpus, building, stack, asked, raised, queue>>
  BY DEF UnloadModule, Idle
<1>2. /\ DOMAIN symbols' = DOMAIN symbols \ {m} /\ DOMAIN seen' = DOMAIN seen \ {m}
      /\ \A x \in DOMAIN symbols' : symbols'[x] = symbols[x]
      /\ \A x \in DOMAIN seen' : seen'[x] = seen[x]
  BY <1>1 DEF Without
<1>3. DOMAIN stack = {}
  BY <1>1
<1>4. Recorded(seen', symbols')
  BY <1>2 DEF LInv, Recorded
<1>5. Calls(stack', symbols', seen')
  BY <1>1, <1>3 DEF Calls, FromWhere, Distinct, NotRecorded, HasSymbols
<1>6. Accounted(stack', symbols', seen', mib)
  BY <1>1, <1>2 DEF LInv, Accounted
<1>7. paths' = {seen'[x] : x \in DOMAIN seen'} \cup Bodies(stack')
  <2>1. Bodies(stack) = {}
    BY <1>3 DEF Bodies
  <2>2. paths = {seen[x] : x \in DOMAIN seen}
    BY <2>1 DEF LInv
  <2>3. \A x, y \in DOMAIN seen : seen[x] = seen[y] => x = y
    BY DEF LInv, Recorded
  <2>4. CASE m \in DOMAIN seen
    <3>1. paths' = paths \ {seen[m]}
      BY <2>4, <1>1
    <3>2. paths \ {seen[m]} = {seen[x] : x \in DOMAIN seen \ {m}}
      BY <2>2, <2>3, <2>4
    <3>3. {seen'[x] : x \in DOMAIN seen'} = {seen[x] : x \in DOMAIN seen \ {m}}
      BY <1>2
    <3> QED
      BY <3>1, <3>2, <3>3, <2>1, <1>1
  <2>5. CASE m \notin DOMAIN seen
    <3>1. DOMAIN seen' = DOMAIN seen /\ paths' = paths
      BY <2>5, <1>1, <1>2
    <3>2. {seen'[x] : x \in DOMAIN seen'} = {seen[x] : x \in DOMAIN seen}
      BY <3>1, <1>2
    <3> QED
      BY <3>1, <3>2, <2>1, <2>2, <1>1
  <2> QED
    BY <2>4, <2>5
<1>8. TypeOK' /\ CallTypes' /\ SearchPath'
  BY <1>1, <1>2 DEF LInv, TypeOK, CallTypes, SearchPath
<1> QED
  BY <1>1, <1>4, <1>5, <1>6, <1>7, <1>8 DEF LInv

LEMMA ExportOwnKeeps ==
    ASSUME LInv, NEW m \in OwnModules, ExportOwn(m)
    PROVE  LInv'
<1>1. /\ m \notin DOMAIN symbols /\ symbols' = Put(symbols, m, <<Application, m>>)
      /\ UNCHANGED <<mib, path, compiled, compiler, corpus, seen, paths, building, stack, asked, raised, queue>>
  BY DEF ExportOwn, Exported
<1>2. Calls(stack, symbols', seen) /\ Recorded(seen, symbols')
  BY <1>1, ExportsAddSymbols DEF LInv
<1>3. Accounted(stack, symbols', seen, mib)
  BY <1>1 DEF LInv, Accounted, Put
<1>4. TypeOK' /\ CallTypes' /\ SearchPath'
  BY <1>1 DEF LInv, TypeOK, CallTypes, SearchPath, Put
<1> QED
  BY <1>1, <1>2, <1>3, <1>4 DEF LInv

\* A source is put at the end of the path.
LEMMA Appended ==
    ASSUME NEW S, NEW a \in S, NEW b \in S, NEW c \in S
    PROVE  Append(<<a>>, b) = <<a, b>> /\ Append(<<a, b>>, c) = <<a, b, c>>
<1>1. <<a>> \in Seq(S) /\ Len(<<a>>) = 1 /\ <<a>>[1] = a
  OBVIOUS
<1>2. <<a, b>> \in Seq(S) /\ Len(<<a, b>>) = 2 /\ <<a, b>>[1] = a /\ <<a, b>>[2] = b
  OBVIOUS
<1>3. /\ <<a, b, c>> \in Seq(S) /\ Len(<<a, b, c>>) = 3
      /\ <<a, b, c>>[1] = a /\ <<a, b, c>>[2] = b /\ <<a, b, c>>[3] = c
  OBVIOUS
<1>4. Append(<<a>>, b) = <<a, b>>
  <2>1. /\ Append(<<a>>, b) \in Seq(S) /\ Len(Append(<<a>>, b)) = 2
        /\ Append(<<a>>, b)[1] = a /\ Append(<<a>>, b)[2] = b
    BY <1>1, AppendProperties
  <2>2. \A i \in 1 .. 2 : Append(<<a>>, b)[i] = <<a, b>>[i]
    BY <2>1, <1>2
  <2> QED
    BY <2>1, <2>2, <1>2, SeqEqual, Zenon
<1>5. Append(<<a, b>>, c) = <<a, b, c>>
  <2>1. /\ Append(<<a, b>>, c) \in Seq(S) /\ Len(Append(<<a, b>>, c)) = 3
        /\ Append(<<a, b>>, c)[1] = a /\ Append(<<a, b>>, c)[2] = b
        /\ Append(<<a, b>>, c)[3] = c
    BY <1>2, AppendProperties
  <2>2. \A i \in 1 .. 3 : Append(<<a, b>>, c)[i] = <<a, b, c>>[i]
    BY <2>1, <1>3
  <2> QED
    BY <2>1, <2>2, <1>3, SeqEqual, Zenon
<1> QED
  BY <1>4, <1>5

LEMMA SettingsKeep ==
    ASSUME LInv, AddMibSources \/ SetMibCompiler \/ SetMibCorpus
    PROVE  LInv'
<1>1. UNCHANGED <<mib, compiled, symbols, seen, paths, building, stack, asked, raised, queue>>
  BY DEF AddMibSources, SetMibCompiler, SetMibCorpus
<1>2. TypeOK'
  BY <1>1 DEF LInv, TypeOK
<1>3. CallTypes'
  BY <1>1 DEF LInv, CallTypes, AddMibSources, SetMibCompiler, SetMibCorpus
<1>4. SearchPath'
  <2>1. CASE AddMibSources
    <3>1. path' = Append(path, "second") /\ compiler' = compiler
          /\ "second" \notin {path[i] : i \in DOMAIN path}
      BY <2>1 DEF AddMibSources
    <3>2. path \in {<<"first">>} \cup (IF compiler THEN {<<"first", Dest>>} ELSE {})
      <4>1. path[2] = "second" /\ 2 \in DOMAIN path => FALSE
        BY <3>1
      <4>2. path[3] = "second" /\ 3 \in DOMAIN path => FALSE
        BY <3>1
      <4> QED
        BY <4>1, <4>2 DEF LInv, SearchPath, Dest
    <3>3. Append(<<"first">>, "second") = <<"first", "second">>
          /\ Append(<<"first", Dest>>, "second") = <<"first", Dest, "second">>
      <4>1. "first" \in Sources /\ "second" \in Sources /\ Dest \in Sources
        BY DEF Sources
      <4> QED
        BY <4>1, Appended, Zenon
    <3> QED
      BY <3>1, <3>2, <3>3 DEF SearchPath
  <2>2. CASE SetMibCompiler
    <3>1. path' = Append(path, Dest) /\ compiler' = TRUE /\ compiler = FALSE
      BY <2>2 DEF SetMibCompiler, LInv, CallTypes
    <3>2. path \in {<<"first">>, <<"first", "second">>}
      BY <3>1 DEF LInv, SearchPath
    <3>3. Append(<<"first">>, Dest) = <<"first", Dest>>
          /\ Append(<<"first", "second">>, Dest) = <<"first", "second", Dest>>
      <4>1. "first" \in Sources /\ "second" \in Sources /\ Dest \in Sources
        BY DEF Sources
      <4> QED
        BY <4>1, Appended, Zenon
    <3> QED
      BY <3>1, <3>2, <3>3 DEF SearchPath
  <2>3. CASE SetMibCorpus
    BY <2>3 DEF SetMibCorpus, LInv, SearchPath
  <2> QED
    BY <2>1, <2>2, <2>3
<1> QED
  BY <1>1, <1>2, <1>3, <1>4 DEF LInv

-----------------------------------------------------------------------------
(* The tree.                                                               *)

\* The builder's own steps add symbols and take none away.
LEMMA StepAddsSymbols ==
    ASSUME Step
    PROVE  DOMAIN symbols \subseteq DOMAIN symbols'
<1>1. ASSUME NEW c, Exported(c) PROVE DOMAIN symbols \subseteq DOMAIN symbols'
  BY <1>1 DEF Exported, Put
<1>2. CASE ExecuteRest
  BY <1>1, <1>2 DEF ExecuteRest
<1>3. CASE BuildRest
  BY <1>1, <1>3 DEF BuildRest
<1>4. CASE LoadModule \/ ImportNext \/ Wired \/ Unwind \/ AskNext
  <2>1. symbols' = symbols
    BY <1>4 DEF LoadModule, ImportNext, Wired, Unwind, AskNext
  <2> QED
    BY <2>1
<1> QED
  BY <1>2, <1>3, <1>4 DEF Step

\* Symbols that are added leave what was indexed where it is.
LEMMA AddingKeepsTree ==
    ASSUME XInv, DOMAIN symbols \subseteq DOMAIN symbols',
           ~moved' => ~moved /\ symbols' = symbols,
           UNCHANGED <<attached, inTree, last, failed, upset>>
    PROVE  XInv'
<1>1. Instances \subseteq Instances' /\ Objects \subseteq Objects'
  BY DEF Instances, Objects
<1>2. ~moved' => ~moved /\ Instances' = Instances /\ Objects' = Objects
  BY DEF Instances, Objects
<1> QED
  BY <1>1, <1>2 DEF XInv

\* Once nothing is in the way of it, the objects and instances loaded are arranged.
LEMMA OperateKeepsTree ==
    ASSUME XInv, Operate
    PROVE  XInv'
<1>1. symbols' = symbols /\ Instances' = Instances /\ Objects' = Objects
  BY DEF Operate, loadVars, Instances, Objects
<1>2. CASE ~moved /\ failed' = FALSE /\ UNCHANGED <<moved, attached, inTree, last, upset>>
  BY <1>1, <1>2 DEF XInv
<1>3. ASSUME ~upset PROVE Stuck = {} /\ last.objects \ inTree = {} /\ Remaining = {}
  <2>1. /\ attached = last.instances /\ inTree = last.objects
        /\ last.objects \subseteq Objects /\ \A i \in last.instances : Parent[i] \in last.objects
    BY <1>3 DEF XInv
  <2> QED
    BY <2>1 DEF Stuck, Detachable, Remaining
<1>4. CASE IndexFails
  <2>1. upset' = (upset \/ Orphans # {})
    BY <1>4 DEF IndexFails
  <2>2. ~upset => Orphans # {}
    BY <1>3, <1>4 DEF IndexFails
  <2>3. upset'
    BY <2>1, <2>2
  <2> QED
    BY <2>3 DEF XInv
<1>5. CASE IndexSucceeds
  <2>1. /\ Orphans = {} /\ attached' = Remaining \cup Instances
        /\ inTree' = (inTree \ last.objects) \cup Objects
        /\ last'.instances = Instances /\ last'.objects = Objects
        /\ failed' = FALSE /\ upset' = upset
    BY <1>5 DEF IndexSucceeds
  <2>2. \A i \in Instances : Parent[i] \in Objects
    BY <2>1 DEF Orphans
  <2>3. ~upset => attached' = Instances /\ inTree' = Objects
    BY <2>1, <1>3 DEF XInv
  <2> QED
    BY <2>1, <2>2, <2>3, <1>1 DEF XInv
<1> QED
  BY <1>2, <1>4, <1>5 DEF Operate

\* A module that is not indexed may be unloaded.
LEMMA UnloadKeepsTree ==
    ASSUME XInv, NEW m, Unload(m)
    PROVE  XInv'
<1>1. /\ DOMAIN symbols' = DOMAIN symbols \ {m}
      /\ moved' = TRUE /\ attached' = {i \in attached : Parent[i] # m}
      /\ upset' = (upset \/ m \in last.instances \cup last.objects)
      /\ UNCHANGED <<inTree, last, failed>>
  BY DEF Unload, UnloadModule, Without
<1>2. SUFFICES ASSUME ~upset' PROVE XInv'
  BY DEF XInv
<1>3. ~upset /\ m \notin last.instances /\ m \notin last.objects
  BY <1>1, <1>2
<1>4. attached' = attached
  BY <1>1, <1>3 DEF XInv
<1>5. last.instances \subseteq Instances' /\ last.objects \subseteq Objects'
  BY <1>1, <1>3 DEF XInv, Instances, Objects
<1> QED
  BY <1>1, <1>3, <1>4, <1>5 DEF XInv

-----------------------------------------------------------------------------
(* The theorems.                                                           *)

LEMMA NextKeeps ==
    ASSUME IInv, [Next]_vars
    PROVE  IInv'
<1>1. CASE Loading
  <2>1. LInv'
    BY <1>1, StepKeeps DEF IInv, Loading
  <2>2. XInv'
    <3>1. ~moved' => ~moved /\ symbols' = symbols
      BY <1>1, Zenon DEF Loading
    <3> QED
      BY <3>1, <1>1, StepAddsSymbols, AddingKeepsTree DEF IInv, Loading
  <2> QED
    BY <2>1, <2>2 DEF IInv
<1>2. CASE Asking
  <2>1. UNCHANGED <<symbols, indexVars>>
    BY <1>2 DEF Asking, LoadModules, AddMibSources, SetMibCompiler, SetMibCorpus
  <2>2. XInv'
    BY <2>1 DEF IInv, XInv, indexVars, Instances, Objects
  <2>3. ASSUME NEW m \in Modules, LoadModules({m}) PROVE LInv'
    BY <2>3, LoadModulesKeeps DEF IInv
  <2>4. CASE LoadModules(Listed)
    <3>1. Listed \in SUBSET Modules
      BY DEF Listed
    <3> QED
      BY <3>1, <2>2, <2>4, LoadModulesKeeps DEF IInv
  <2>5. CASE AddMibSources \/ SetMibCompiler \/ SetMibCorpus
    BY <2>2, <2>5, SettingsKeep DEF IInv
  <2> QED
    BY <1>2, <2>2, <2>3, <2>4, <2>5 DEF IInv, Asking
<1>3. CASE Exporting
  <2>1. PICK m \in OwnModules : ExportOwn(m)
    BY <1>3 DEF Exporting
  <2>2. LInv'
    BY <2>1, ExportOwnKeeps DEF IInv
  <2>3. DOMAIN symbols \subseteq DOMAIN symbols'
    BY <2>1 DEF ExportOwn, Exported, Put
  <2>4. XInv'
    BY <2>3, <1>3, AddingKeepsTree DEF IInv, Exporting
  <2> QED
    BY <2>2, <2>4 DEF IInv
<1>4. CASE Operate
  <2>1. LInv'
    BY <1>4 DEF IInv, Operate, loadVars, LInv, TypeOK, CallTypes, SearchPath
  <2> QED
    BY <2>1, <1>4, OperateKeepsTree DEF IInv
<1>5. ASSUME NEW m \in DOMAIN symbols, Unload(m) PROVE IInv'
  BY <1>5, UnloadModuleKeeps, UnloadKeepsTree DEF IInv, Unload
<1>6. CASE UNCHANGED vars
  <2>1. LInv'
    BY <1>6 DEF IInv, vars, loadVars, LInv, TypeOK, CallTypes, SearchPath
  <2>2. XInv'
    BY <1>6 DEF IInv, vars, loadVars, indexVars, XInv, Instances, Objects
  <2> QED
    BY <2>1, <2>2 DEF IInv
<1> QED
  BY <1>1, <1>2, <1>3, <1>4, <1>5, <1>6 DEF Next

LEMMA InitHolds ==
    ASSUME Init
    PROVE  IInv
<1>1. /\ DOMAIN symbols = {} /\ DOMAIN seen = {} /\ queue = {} /\ compiled = {}
      /\ stack = <<>> /\ asked = <<>> /\ raised = Nothing /\ paths = {} /\ building = {}
      /\ mib \in Worlds /\ path = <<"first">> /\ compiler = FALSE
  BY DEF Init, LoadInit, EmptyMap
<1>2. DOMAIN stack = {}
  BY <1>1
<1>3. Bodies(stack) = {} /\ Builds(stack) = {}
  BY <1>2 DEF Bodies, Builds
<1>4. TypeOK /\ CallTypes /\ SearchPath
  <2>1. TypeOK
    BY <1>1 DEF TypeOK
  <2>2. <<>> \in Seq(Frames)
    BY EmptySeq
  <2>3. CallTypes
    BY <2>2, <1>1 DEF CallTypes
  <2>4. SearchPath
    BY <1>1 DEF SearchPath
  <2> QED
    BY <2>1, <2>3, <2>4
<1>5. Calls(stack, symbols, seen) /\ Idles(stack, mib.augments, asked = <<>> /\ raised = Nothing)
  BY <1>2 DEF Calls, FromWhere, Distinct, NotRecorded, HasSymbols, Idles
<1>6. Recorded(seen, symbols) /\ Accounted(stack, symbols, seen, mib)
  BY <1>1 DEF Recorded, Accounted
<1>7. LInv
  BY <1>1, <1>3, <1>4, <1>5, <1>6 DEF LInv
<1>8. XInv
  BY DEF Init, XInv
<1> QED
  BY <1>7, <1>8 DEF IInv

THEOREM LoadsAreInductive == Spec => []IInv
<1>1. Init => IInv
  BY InitHolds
<1>2. IInv /\ [Next]_vars => IInv'
  BY NextKeeps
<1> QED
  BY <1>1, <1>2, PTL DEF Spec

\* Whatever modules import one another, whichever of them fail, and wherever they come
\* from, a module is loaded as a whole from the copy it is recorded to come from or not
\* at all, and what is under way is what the builder keeps books of (loadModule,
\* _loadModuleFromCorpus, exportSymbols, unloadModules).
THEOREM ModulesAreLoadedWhole == Spec => []LoadsAreWhole
<1>1. IInv => LoadsAreWhole
  <2> SUFFICES ASSUME IInv PROVE LoadsAreWhole
    OBVIOUS
  <2>1. LInv
    BY DEF IInv
  <2>2. RecordedCopyIsLoaded
    BY <2>1 DEF LInv, Recorded, RecordedCopyIsLoaded
  <2>3. LoadsAreTracked
    BY <2>1 DEF LInv, Calls, Distinct, Bodies, Builds, LoadsAreTracked
  <2>4. NothingHalfLoaded
    <3> SUFFICES ASSUME Idle, NEW m \in DOMAIN symbols \ (DOMAIN seen \cup OwnModules)
                 PROVE  IF symbols[m][1] = FromCorpus THEN mib.augments[m] # {} ELSE m \in mib.failing
      BY DEF NothingHalfLoaded
    <3>1. DOMAIN stack = {}
      BY DEF Idle
    <3>2. Wirings(stack) = {}
      BY <3>1 DEF Wirings
    <3> QED
      BY <3>2, <2>1 DEF LInv, Accounted
  <2> QED
    BY <2>1, <2>2, <2>3, <2>4 DEF LInv, LoadsAreWhole
<1> QED
  BY <1>1, LoadsAreInductive, PTL

\* As long as nothing indexed is unloaded and no operation meets instances without their
\* objects, an operation finds the objects and instances of exactly the modules loaded
\* (__indexMib), whatever order they came in.
THEOREM TreeIsThatOfTheModules == Spec => []ServesWhatIsLoaded
<1>1. IInv => ServesWhatIsLoaded
  BY DEF IInv, XInv, ServesWhatIsLoaded
<1> QED
  BY <1>1, LoadsAreInductive, PTL
=============================================================================
