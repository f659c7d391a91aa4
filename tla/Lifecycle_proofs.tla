-------------------------- MODULE Lifecycle_proofs --------------------------
(***************************************************************************)
(* Nothing is used after it was freed, freed twice or lost but where the   *)
(* code loses it: for any number of handles and of failures.               *)
(*                                                                         *)
(* The library goes through the calls of an operation one by one, so the   *)
(* first part says how a list of calls splits into others.  The second has *)
(* the inductive invariant, and what keeps it: a call on a handle a value  *)
(* owns, a handle that comes, a value that takes it, becomes another or    *)
(* goes.  Every operation is made of these, which the third part shows.    *)
(***************************************************************************)
EXTENDS Lifecycle, FiniteSetTheorems, WellFoundedInduction, SequenceTheorems, TLAPS

(***************************************************************************)
(* Induction over an interval, from the least element of a set.            *)
(***************************************************************************)
LEMMA Induction ==
    ASSUME NEW n \in Nat, NEW S, 0 \in S, \A k \in 0..(n - 1) : k \in S => k + 1 \in S
    PROVE  \A k \in 0..n : k \in S
<1> DEFINE bad == {k \in 0..n : k \notin S}
<1>1. SUFFICES ASSUME bad # {} PROVE FALSE
  OBVIOUS
<1>2. IsWellFoundedOn(OpToRel(<, Nat), Nat)
  BY NatLessThanWellFounded
<1>3. bad \subseteq Nat
  OBVIOUS
<1>4. PICK x \in bad : \A y \in bad : ~ (<<y, x>> \in OpToRel(<, Nat))
  BY <1>1, <1>2, <1>3, WFMin
<1>5. \A y \in bad : ~ (y < x)
  BY <1>3, <1>4 DEF OpToRel
<1>6. x \in 0..n /\ x \notin S
  OBVIOUS
<1>7. x - 1 \in 0..(n - 1) /\ (x - 1) + 1 = x
  BY <1>6
<1>8. x - 1 \in S
  BY <1>5, <1>7
<1> QED
  BY <1>6, <1>7, <1>8

(***************************************************************************)
(* One call after another: there is a function that goes through them.     *)
(***************************************************************************)
Goes(f, s, calls, n) ==
    f = [i \in 0..n |-> IF i = 0 THEN s ELSE Called(f[i - 1], calls[i])]

LEMMA GoesOn ==
    ASSUME NEW s, NEW calls, NEW n \in Nat
    PROVE  \E f : Goes(f, s, calls, n)
<1> DEFINE S == {k \in 0..n : \E f : Goes(f, s, calls, k)}
<1>1. 0 \in S
  <2> DEFINE f == [i \in 0..0 |-> s]
  <2>1. Goes(f, s, calls, 0)
    BY DEF Goes
  <2> QED
    BY <2>1
<1>2. ASSUME NEW k \in 0..(n - 1), k \in S PROVE k + 1 \in S
  <2>1. PICK f : Goes(f, s, calls, k)
    BY <1>2
  <2> DEFINE g == [i \in 0..(k + 1) |-> IF i = k + 1 THEN Called(f[k], calls[k + 1]) ELSE f[i]]
  <2>2. f = [i \in 0..k |-> IF i = 0 THEN s ELSE Called(f[i - 1], calls[i])]
    BY <2>1 DEF Goes
  <2>3. ASSUME NEW i \in 0..(k + 1)
        PROVE  g[i] = IF i = 0 THEN s ELSE Called(g[i - 1], calls[i])
    <3>1. CASE i = k + 1
      BY <3>1
    <3>2. CASE i # k + 1
      <4>1. i \in 0..k /\ g[i] = f[i] /\ (i # 0 => i - 1 \in 0..(k + 1) /\ i - 1 # k + 1)
        BY <3>2
      <4>2. i # 0 => g[i - 1] = f[i - 1]
        BY <4>1
      <4> QED
        BY <2>2, <4>1, <4>2, Zenon
    <3> QED
      BY <3>1, <3>2
  <2> HIDE DEF g
  <2>4. g = [i \in 0..(k + 1) |-> g[i]]
    BY DEF g
  <2>5. Goes(g, s, calls, k + 1)
    BY <2>3, <2>4, Zenon DEF Goes
  <2> QED
    BY <2>5
<1> HIDE DEF S
<1>3. n \in S
  BY <1>1, <1>2, Induction
<1> QED
  BY <1>3 DEF S

LEMMA CallsGo ==
    ASSUME NEW s, NEW T, NEW calls \in Seq(T)
    PROVE  \E f : /\ f[0] = s /\ Calls(s, calls) = f[Len(calls)]
                  /\ \A i \in 1..Len(calls) : f[i] = Called(f[i - 1], calls[i])
<1> DEFINE n == Len(calls)
           f == CHOOSE g : Goes(g, s, calls, n)
<1>1. Goes(f, s, calls, n) /\ n \in Nat
  <2>1. n \in Nat
    OBVIOUS
  <2>2. \E g : Goes(g, s, calls, n)
    BY <2>1, GoesOn
  <2> QED
    BY <2>1, <2>2, Zenon
<1>2. Calls(s, calls) = f[n]
  BY Zenon DEF Calls, Goes
<1> HIDE DEF f
<1>3. f[0] = s /\ \A i \in 1..n : f[i] = Called(f[i - 1], calls[i])
  BY <1>1 DEF Goes
<1> QED
  BY <1>2, <1>3

\* Two functions that go through the same calls are the same.
LEMMA CallsSame ==
    ASSUME NEW n \in Nat, NEW f, NEW g, f[0] = g[0],
           \A i \in 1..n : f[i - 1] = g[i - 1] => f[i] = g[i]
    PROVE  f[n] = g[n]
<1> DEFINE S == {k \in 0..n : f[k] = g[k]}
<1>1. 0 \in S
  OBVIOUS
<1>2. ASSUME NEW k \in 0..(n - 1), k \in S PROVE k + 1 \in S
  <2>1. k + 1 \in 1..n /\ (k + 1) - 1 = k
    OBVIOUS
  <2> QED
    BY <1>2, <2>1
<1> HIDE DEF S
<1>3. n \in S
  BY <1>1, <1>2, Induction
<1> QED
  BY <1>3 DEF S

LEMMA CallsOne ==
    ASSUME NEW s, NEW c
    PROVE  Calls(s, <<>>) = s /\ Calls(s, <<c>>) = Called(s, c)
<1>1. <<>> \in Seq({c}) /\ <<c>> \in Seq({c}) /\ Len(<<>>) = 0 /\ Len(<<c>>) = 1 /\ <<c>>[1] = c
  OBVIOUS
<1>2. Calls(s, <<>>) = s
  BY <1>1, CallsGo
<1> DEFINE q == <<c>>
<1>5. q \in Seq({c}) /\ Len(q) = 1 /\ q[1] = c
  OBVIOUS
<1> HIDE DEF q
<1>3. PICK f : /\ f[0] = s /\ Calls(s, q) = f[Len(q)]
               /\ \A i \in 1..Len(q) : f[i] = Called(f[i - 1], q[i])
  <2>1. \A d \in Seq({c}) :
           \E f : /\ f[0] = s /\ Calls(s, d) = f[Len(d)]
                  /\ \A i \in 1..Len(d) : f[i] = Called(f[i - 1], d[i])
    BY CallsGo
  <2> QED
    BY <1>5, <2>1, Zenon
<1>4. f[1] = Called(f[0], c)
  BY <1>5, <1>3
<1> QED
  BY <1>5, <1>2, <1>3, <1>4 DEF q

LEMMA CallsSplit ==
    ASSUME NEW s, NEW T, NEW a \in Seq(T), NEW b \in Seq(T)
    PROVE  Calls(s, a \o b) = Calls(Calls(s, a), b)
<1> DEFINE m == Len(a)
           n == Len(b)
           c == a \o b
<1>1. /\ c \in Seq(T) /\ Len(c) = m + n /\ m \in Nat /\ n \in Nat
      /\ \A i \in 1..m : c[i] = a[i]
      /\ \A i \in 1..n : c[m + i] = b[i]
  OBVIOUS
<1> HIDE DEF c
<1>2. PICK f : /\ f[0] = s /\ Calls(s, c) = f[Len(c)]
               /\ \A i \in 1..Len(c) : f[i] = Called(f[i - 1], c[i])
  <2>1. \A d \in Seq(T) :
           \E f : /\ f[0] = s /\ Calls(s, d) = f[Len(d)]
                  /\ \A i \in 1..Len(d) : f[i] = Called(f[i - 1], d[i])
    BY CallsGo
  <2> QED
    BY <1>1, <2>1, Zenon
<1>3. PICK g : /\ g[0] = s /\ Calls(s, a) = g[m]
               /\ \A i \in 1..m : g[i] = Called(g[i - 1], a[i])
  BY CallsGo
<1>4. PICK h : /\ h[0] = g[m] /\ Calls(g[m], b) = h[n]
               /\ \A i \in 1..n : h[i] = Called(h[i - 1], b[i])
  BY CallsGo
<1> HIDE DEF m, n
<1>5. f[m] = g[m]
  <2>1. \A i \in 1..m : i \in 1..(m + n)
    BY <1>1
  <2>2. \A i \in 1..m : f[i - 1] = g[i - 1] => f[i] = g[i]
    BY <1>1, <1>2, <1>3, <2>1, Zenon
  <2> QED
    BY <1>1, <1>2, <1>3, <2>2, CallsSame
<1>6. f[m + n] = h[n]
  <2> DEFINE e == [i \in 0..n |-> f[m + i]]
  <2>1. e[0] = h[0] /\ e[n] = f[m + n]
    BY <1>1, <1>4, <1>5
  <2>2. ASSUME NEW i \in 1..n, e[i - 1] = h[i - 1] PROVE e[i] = h[i]
    <3>1. /\ i \in 0..n /\ i - 1 \in 0..n /\ m + (i - 1) = (m + i) - 1 /\ m + i \in 1..(m + n)
      BY <1>1
    <3>2. e[i] = f[m + i] /\ e[i - 1] = f[(m + i) - 1]
      BY <3>1
    <3> HIDE DEF e
    <3> QED
      BY <1>1, <1>2, <1>4, <2>2, <3>1, <3>2, Zenon
  <2> HIDE DEF e
  <2>3. e[n] = h[n]
    BY <1>1, <2>1, <2>2, CallsSame
  <2> QED
    BY <2>1, <2>3
<1>7. Calls(s, c) = Calls(Calls(s, a), b)
  BY <1>1, <1>2, <1>3, <1>4, <1>6
<1> QED
  BY <1>7 DEF c

HandleKinds ==
    {"config", "config_iter", "array", "schema", "enumeration", "evolution", "query", "subarray",
     "group", "string", "vfs", "fh", "fragment_info"}

ValueTypes ==
    {"Context", "Config", "ConfigIterator", "ArrayOpener", "ArrayReopener", "Array", "Schema",
     "Enumeration", "SchemaEvolution", "Query", "SubarrayBuilder", "Subarray", "Group", "VFS",
     "VFSHandle", "FragmentInfoList"}

Entries == [kind : HandleKinds, live : BOOLEAN, open : BOOLEAN, of : SUBSET Nat]

Libraries == [context : {"live", "freed"}, handle : Seq(Entries), misused : BOOLEAN]

Kinds == {"config", "config_iter"}

(***************************************************************************)
(* The inductive invariant of a library s, the values vs, the leaked       *)
(* handles lost, and un, which says whether something was left unclosed.   *)
(***************************************************************************)

\* The handles of a value, each its own.
HandlesOf(v) == ToSet(v.handles)

Shaped(v) ==
    /\ v \in [type : ValueTypes, handles : Seq(Nat), borrows : SUBSET Nat]
    /\ \A i, j \in DOMAIN v.handles : v.handles[i] = v.handles[j] => i = j
    /\ v.type \notin {"Context", "Query", "SubarrayBuilder"} => Len(v.handles) = 1
    /\ v.type = "Query" => Len(v.handles) = 2
    /\ v.type = "SubarrayBuilder" => Len(v.handles) = 3
    /\ v.type \notin {"ConfigIterator", "Subarray"} => v.borrows = {}

\* A value's handles are live; what they refer to is borrowed; only a file, and what
\* closes itself when it goes, is open.
Holds(s, v) ==
    /\ \A h \in HandlesOf(v) : /\ h \in DOMAIN s.handle /\ s.handle[h].live
                               /\ s.handle[h].of \subseteq v.borrows
                               /\ v.type \in Contextless => s.handle[h].kind \in Kinds
                               /\ s.handle[h].open => \/ s.handle[h].kind = "fh"
                                                      \/ Closes(v) /\ h = v.handles[1]

\* What is borrowed belongs to a Config or a Query.
Lent(vs, v) ==
    \A b \in v.borrows : \E w \in vs : w.type \in {"Config", "Query"} /\ b \in HandlesOf(w)

Held(s, vs, lost, un) ==
    /\ s \in Libraries /\ ~s.misused
    /\ lost \subseteq DOMAIN s.handle
    /\ \A v \in vs : Shaped(v) /\ Holds(s, v) /\ Lent(vs, v) /\ HandlesOf(v) \cap lost = {}
    /\ \A v, w \in vs : v # w => HandlesOf(v) \cap HandlesOf(w) = {}
    /\ \A h \in DOMAIN s.handle :
          /\ s.handle[h].live => h \in lost \/ \E v \in vs : h \in HandlesOf(v)
          /\ ~s.handle[h].live /\ s.handle[h].open /\ ~un => s.handle[h].kind = "fh"

\* The context goes with the last value that holds it.
ContextKept(s, vs) == s.context = "freed" <=> \A v \in vs : ~HoldsContext(v)

Unwound ==
    /\ thread \in {"running", "unwinding", "aborted"}
    /\ failures \in Nat /\ unclosed \in BOOLEAN
    /\ thread = "unwinding" => failures >= 1
    /\ thread = "aborted" => failures >= 2

LifecycleInv ==
    /\ Held(library, values, leaked, unclosed)
    /\ ContextKept(library, values)
    /\ Unwound
-----------------------------------------------------------------------------
(***************************************************************************)
(* What a call does.                                                       *)
(***************************************************************************)
LEMMA HandleOf ==
    ASSUME NEW s \in Libraries
    PROVE  /\ s.handle \in Seq(Entries) /\ Len(s.handle) \in Nat /\ DOMAIN s.handle = 1..Len(s.handle)
           /\ s.context \in {"live", "freed"} /\ s.misused \in BOOLEAN
           /\ \A h \in DOMAIN s.handle : s.handle[h] \in Entries
  BY DEF Libraries

\* t is s with other handles, as many of them.
Like(s, t) ==
    /\ t \in Libraries /\ DOMAIN t.handle = DOMAIN s.handle
    /\ \A h \in DOMAIN s.handle : /\ t.handle[h].kind = s.handle[h].kind
                                  /\ t.handle[h].of = s.handle[h].of

\* Another entry for a handle.
WithEntry(s, h, e) == [s EXCEPT !.handle = [s.handle EXCEPT ![h] = e]]

LEMMA EntryReplaced ==
    ASSUME NEW s \in Libraries, NEW h \in DOMAIN s.handle, NEW e \in Entries
    PROVE  /\ WithEntry(s, h, e) \in Libraries
           /\ DOMAIN WithEntry(s, h, e).handle = DOMAIN s.handle
           /\ WithEntry(s, h, e).context = s.context /\ WithEntry(s, h, e).misused = s.misused
           /\ \A g \in DOMAIN s.handle :
                 WithEntry(s, h, e).handle[g] = IF g = h THEN e ELSE s.handle[g]
<1> DEFINE q == [s.handle EXCEPT ![h] = e]
           u == WithEntry(s, h, e)
<1>1. q \in Seq(Entries) /\ DOMAIN q = DOMAIN s.handle
      /\ \A g \in DOMAIN s.handle : q[g] = IF g = h THEN e ELSE s.handle[g]
  BY HandleOf, ExceptSeq
<1> HIDE DEF q
<1>2. u = [s EXCEPT !.handle = q]
  BY DEF WithEntry, q
<1>3. u.handle = q /\ u.context = s.context /\ u.misused = s.misused /\ u \in Libraries
  BY <1>1, <1>2 DEF Libraries
<1> QED
  BY <1>1, <1>3

LEMMA CalledUse ==
    ASSUME NEW s \in Libraries, NEW h \in DOMAIN s.handle, NEW op, op # "free",
           NEW t, t = Called(s, On(op, h))
    PROVE  /\ Like(s, t) /\ t.context = s.context
           /\ \A g \in DOMAIN s.handle :
                 /\ t.handle[g].live = s.handle[g].live
                 /\ t.handle[g].open => s.handle[g].open \/ (g = h /\ op = "open")
           /\ op = "close" => ~t.handle[h].open
           /\ op \notin {"open", "close"} => \A g \in DOMAIN s.handle : t.handle[g].open = s.handle[g].open
           /\ t.misused => \/ s.misused \/ ~s.handle[h].live
                           \/ \E q \in s.handle[h].of : ~s.handle[q].live
                           \/ s.context = "freed" /\ s.handle[h].kind \notin Kinds
<1> DEFINE c == On(op, h)
           u == CASE op = "open"  -> [s EXCEPT !.handle[h].open = TRUE]
                  [] op = "close" -> [s EXCEPT !.handle[h].open = FALSE]
                  [] OTHER        -> s
           gone == \/ ~s.handle[h].live
                   \/ \E q \in s.handle[h].of : ~s.handle[q].live
                   \/ s.context = "freed" /\ s.handle[h].kind \notin Kinds
<1>1. h # 0 /\ c.op = op /\ c.handle = h
  BY HandleOf DEF On
<1>2. t = [u EXCEPT !.misused = @ \/ gone]
  BY <1>1 DEF Called, Kinds
<1> HIDE DEF gone
<1>3. /\ u \in Libraries /\ DOMAIN u.handle = DOMAIN s.handle /\ u.context = s.context
      /\ u.misused = s.misused
      /\ \A g \in DOMAIN s.handle :
            /\ u.handle[g].live = s.handle[g].live
            /\ u.handle[g].kind = s.handle[g].kind /\ u.handle[g].of = s.handle[g].of
            /\ u.handle[g].open => s.handle[g].open \/ (g = h /\ op = "open")
      /\ op = "close" => ~u.handle[h].open
      /\ op \notin {"open", "close"} => u = s
  <2>1. CASE op = "open"
    <3> DEFINE e == [s.handle[h] EXCEPT !.open = TRUE]
    <3>1. /\ e \in Entries /\ e.live = s.handle[h].live /\ e.kind = s.handle[h].kind
          /\ e.of = s.handle[h].of /\ e.open = TRUE
      BY HandleOf DEF Entries
    <3>2. u = WithEntry(s, h, e)
      BY <2>1 DEF WithEntry
    <3> HIDE DEF e, u
    <3>3. /\ u \in Libraries /\ DOMAIN u.handle = DOMAIN s.handle /\ u.context = s.context
          /\ u.misused = s.misused
          /\ \A g \in DOMAIN s.handle : u.handle[g] = IF g = h THEN e ELSE s.handle[g]
      BY <3>1, <3>2, EntryReplaced
    <3> QED
      BY <2>1, <3>1, <3>3
  <2>2. CASE op = "close"
    <3> DEFINE e == [s.handle[h] EXCEPT !.open = FALSE]
    <3>1. /\ e \in Entries /\ e.live = s.handle[h].live /\ e.kind = s.handle[h].kind
          /\ e.of = s.handle[h].of /\ e.open = FALSE
      BY HandleOf DEF Entries
    <3>2. u = WithEntry(s, h, e)
      BY <2>2 DEF WithEntry
    <3> HIDE DEF e, u
    <3>3. /\ u \in Libraries /\ DOMAIN u.handle = DOMAIN s.handle /\ u.context = s.context
          /\ u.misused = s.misused
          /\ \A g \in DOMAIN s.handle : u.handle[g] = IF g = h THEN e ELSE s.handle[g]
      BY <3>1, <3>2, EntryReplaced
    <3> QED
      BY <2>2, <3>1, <3>3
  <2>3. CASE op \notin {"open", "close"}
    BY <2>3
  <2> QED
    BY <2>1, <2>2, <2>3
<1> HIDE DEF u
<1>4. /\ t \in Libraries /\ t.handle = u.handle /\ t.context = u.context
      /\ t.misused = (u.misused \/ gone)
  <2>1. gone \in BOOLEAN
    BY DEF gone
  <2> QED
    BY <1>2, <1>3, <2>1 DEF Libraries
<1> QED
  BY <1>3, <1>4 DEF Like, gone

LEMMA CalledFree ==
    ASSUME NEW s \in Libraries, NEW h \in DOMAIN s.handle,
           NEW t, t = Called(s, On("free", h))
    PROVE  /\ Like(s, t) /\ t.context = s.context
           /\ \A g \in DOMAIN s.handle : /\ t.handle[g].live = (s.handle[g].live /\ g # h)
                                         /\ t.handle[g].open = s.handle[g].open
           /\ t.misused => s.misused \/ ~s.handle[h].live
<1> DEFINE c == On("free", h)
           u == [s EXCEPT !.handle[h].live = FALSE]
           gone == ~s.handle[h].live
<1>1. h # 0 /\ c.op = "free" /\ c.handle = h
  BY HandleOf DEF On
<1>2. t = [u EXCEPT !.misused = @ \/ gone]
  BY <1>1 DEF Called
<1>3. /\ u \in Libraries /\ DOMAIN u.handle = DOMAIN s.handle /\ u.context = s.context
      /\ u.misused = s.misused
      /\ \A g \in DOMAIN s.handle :
            /\ u.handle[g].live = (s.handle[g].live /\ g # h)
            /\ u.handle[g].kind = s.handle[g].kind /\ u.handle[g].of = s.handle[g].of
            /\ u.handle[g].open = s.handle[g].open
  <2> DEFINE e == [s.handle[h] EXCEPT !.live = FALSE]
  <2>1. /\ e \in Entries /\ e.live = FALSE /\ e.kind = s.handle[h].kind
        /\ e.of = s.handle[h].of /\ e.open = s.handle[h].open
    BY HandleOf DEF Entries
  <2>2. u = WithEntry(s, h, e)
    BY DEF WithEntry
  <2>3. \A g \in DOMAIN s.handle : s.handle[g].live \in BOOLEAN
    BY HandleOf DEF Entries
  <2> HIDE DEF e, u
  <2>4. /\ u \in Libraries /\ DOMAIN u.handle = DOMAIN s.handle /\ u.context = s.context
        /\ u.misused = s.misused
        /\ \A g \in DOMAIN s.handle : u.handle[g] = IF g = h THEN e ELSE s.handle[g]
    BY <2>1, <2>2, EntryReplaced
  <2> QED
    BY <2>1, <2>3, <2>4
<1> HIDE DEF u
<1>4. /\ t \in Libraries /\ t.handle = u.handle /\ t.context = u.context
      /\ t.misused = (u.misused \/ gone)
  BY <1>2, <1>3 DEF Libraries
<1> QED
  BY <1>3, <1>4 DEF Like

\* Freeing the context touches no handle.
LEMMA CalledFreeContext ==
    ASSUME NEW s \in Libraries, NEW t, t = Called(s, On("free", 0))
    PROVE  t \in Libraries /\ t.handle = s.handle /\ t.context = "freed" /\ t.misused = s.misused
<1>1. t = [[s EXCEPT !.context = "freed"] EXCEPT !.misused = @ \/ FALSE]
  BY DEF Called, On
<1> QED
  BY <1>1 DEF Libraries

-----------------------------------------------------------------------------
(***************************************************************************)
(* What calls, new handles and drops make of what the values hold.         *)
(***************************************************************************)
LEMMA Handles ==
    ASSUME NEW v, Shaped(v)
    PROVE  /\ HandlesOf(v) = {v.handles[i] : i \in 1..Len(v.handles)} /\ Len(v.handles) \in Nat
           /\ DOMAIN v.handles = 1..Len(v.handles) /\ HandlesOf(v) \subseteq Nat
           /\ v.handles \in Seq(Nat) /\ v.borrows \subseteq Nat
<1>1. v.handles \in Seq(Nat) /\ v.borrows \subseteq Nat
  BY DEF Shaped
<1> QED
  BY <1>1 DEF HandlesOf, ToSet

\* A live call on a handle of a value.
Reaches(s, v, c) ==
    /\ c.handle \in HandlesOf(v) /\ c = On(c.op, c.handle) /\ c.op # "free"
    /\ c.op = "open" => s.handle[c.handle].kind = "fh" \/ (Closes(v) /\ c.handle = v.handles[1])
    /\ s.context = "live" \/ v.type \in Contextless

LEMMA UseKeeps ==
    ASSUME NEW s, NEW vs, NEW lost, NEW un, Held(s, vs, lost, un),
           NEW v \in vs, NEW c, Reaches(s, v, c), NEW t, t = Called(s, c)
    PROVE  /\ Held(t, vs, lost, un) /\ t.context = s.context /\ Like(s, t)
           /\ c.op = "close" => ~t.handle[c.handle].open
           /\ c.op \notin {"open", "close"} =>
                 \A g \in DOMAIN s.handle : t.handle[g].open = s.handle[g].open
<1> DEFINE h == c.handle
<1>1. s \in Libraries /\ Holds(s, v) /\ h \in HandlesOf(v) /\ h \in DOMAIN s.handle /\ s.handle[h].live
  BY DEF Held, Holds, Reaches
<1>2. ~ \E q \in s.handle[h].of : ~s.handle[q].live
  <2>1. SUFFICES ASSUME NEW q \in s.handle[h].of PROVE s.handle[q].live
    OBVIOUS
  <2>2. q \in v.borrows
    BY <1>1 DEF Holds
  <2>3. PICK w \in vs : q \in HandlesOf(w)
    BY <2>2 DEF Held, Lent
  <2> QED
    BY <2>3 DEF Held, Holds
<1>3. ~ (s.context = "freed" /\ s.handle[h].kind \notin Kinds)
  BY <1>1 DEF Holds, Reaches
<1>4. c.op # "free" /\ t = Called(s, On(c.op, h))
  BY DEF Reaches
<1>5. /\ Like(s, t) /\ t.context = s.context
      /\ \A g \in DOMAIN s.handle :
            /\ t.handle[g].live = s.handle[g].live
            /\ t.handle[g].open => s.handle[g].open \/ (g = h /\ c.op = "open")
      /\ c.op = "close" => ~t.handle[h].open
      /\ c.op \notin {"open", "close"} =>
            \A g \in DOMAIN s.handle : t.handle[g].open = s.handle[g].open
      /\ ~t.misused
  <2>1. ~s.misused
    BY DEF Held
  <2> QED
    BY <1>1, <1>2, <1>3, <1>4, <2>1, CalledUse
<1>6. c.op = "open" => s.handle[h].kind = "fh" \/ (Closes(v) /\ h = v.handles[1])
  BY DEF Reaches
<1>7. ASSUME NEW w \in vs PROVE Holds(t, w)
  <2>1. Holds(s, w) /\ (w # v => h \notin HandlesOf(w))
    BY <1>1 DEF Held
  <2> QED
    BY <1>5, <1>6, <2>1 DEF Holds, Like
<1>8. ASSUME NEW g \in DOMAIN t.handle, ~t.handle[g].live, t.handle[g].open, ~un
      PROVE  t.handle[g].kind = "fh"
  <2>1. g \in DOMAIN s.handle /\ ~s.handle[g].live /\ t.handle[g].kind = s.handle[g].kind
    BY <1>5, <1>8 DEF Like
  <2>2. g # h
    BY <1>1, <2>1
  <2> QED
    BY <1>5, <1>8, <2>1, <2>2 DEF Held
<1>9. Held(t, vs, lost, un)
  BY <1>5, <1>7, <1>8 DEF Held, Like
<1> QED
  BY <1>5, <1>9

\* Several calls, none of which opens or frees.
LEMMA UsesKeep ==
    ASSUME NEW s, NEW vs, NEW lost, NEW un, Held(s, vs, lost, un), NEW T, NEW calls \in Seq(T),
           \A i \in 1..Len(calls) : \E v \in vs : Reaches(s, v, calls[i]) /\ calls[i].op # "open"
    PROVE  /\ Held(Calls(s, calls), vs, lost, un) /\ Calls(s, calls).context = s.context
           /\ Like(s, Calls(s, calls))
<1>1. PICK f : /\ f[0] = s /\ Calls(s, calls) = f[Len(calls)]
               /\ \A i \in 1..Len(calls) : f[i] = Called(f[i - 1], calls[i])
  BY CallsGo
<1>2. PICK n \in Nat : n = Len(calls)
  OBVIOUS
<1> DEFINE S == {k \in 0..n : Held(f[k], vs, lost, un) /\ f[k].context = s.context /\ Like(s, f[k])}
<1>3. 0 \in S
  BY <1>1, <1>2 DEF Like, Held
<1>4. ASSUME NEW k \in 0..(n - 1), k \in S PROVE k + 1 \in S
  <2>1. k + 1 \in 1..n /\ k + 1 \in 0..n /\ (k + 1) - 1 = k
    BY <1>2
  <2>2. Held(f[k], vs, lost, un) /\ f[k].context = s.context /\ Like(s, f[k])
    BY <1>4
  <2>3. f[k + 1] = Called(f[k], calls[k + 1])
    BY <1>1, <1>2, <2>1
  <2>4. PICK v \in vs : Reaches(s, v, calls[k + 1]) /\ calls[k + 1].op # "open"
    BY <1>2, <2>1
  <2>5. Reaches(f[k], v, calls[k + 1])
    BY <2>2, <2>4 DEF Reaches
  <2>6. Held(f[k + 1], vs, lost, un) /\ f[k + 1].context = f[k].context /\ Like(f[k], f[k + 1])
    BY <2>2, <2>3, <2>5, UseKeeps
  <2> QED
    BY <2>1, <2>2, <2>6 DEF Like
<1> HIDE DEF S
<1>5. n \in S
  <2>1. \A k \in 0..(n - 1) : k \in S => k + 1 \in S
    BY <1>4
  <2>2. \A k \in 0..n : k \in S
    BY <1>3, <2>1, Induction
  <2> QED
    BY <2>2
<1> QED
  BY <1>1, <1>2, <1>5 DEF S

\* Nothing borrows from v.
Unlent(vs, v) == \A w \in vs : w.borrows \cap HandlesOf(v) = {}

Frees(v) == [i \in DOMAIN v.handles |-> On("free", v.handles[i])]

\* The handles of a value go one after another.
LEMMA FreesGo ==
    ASSUME NEW s \in Libraries, ~s.misused, NEW v, Shaped(v),
           \A h \in HandlesOf(v) : h \in DOMAIN s.handle /\ s.handle[h].live,
           NEW t, t = Calls(s, Frees(v))
    PROVE  /\ Like(s, t) /\ t.context = s.context /\ ~t.misused
           /\ \A g \in DOMAIN s.handle :
                 /\ t.handle[g].live = (s.handle[g].live /\ g \notin HandlesOf(v))
                 /\ t.handle[g].open = s.handle[g].open
<1> DEFINE calls == Frees(v)
           T == {On("free", h) : h \in Nat}
<1>1. PICK n \in Nat : n = Len(v.handles) /\ DOMAIN v.handles = 1..n
  BY Handles
<1>2. calls \in Seq(T) /\ Len(calls) = n /\ \A i \in 1..n : calls[i] = On("free", v.handles[i])
  <2>1. \A i \in 1..n : v.handles[i] \in Nat
    BY <1>1, Handles
  <2>2. calls = [i \in 1..n |-> On("free", v.handles[i])]
    BY <1>1 DEF Frees
  <2>3. calls \in [1..n -> T]
    BY <2>1, <2>2
  <2>4. calls \in Seq(T)
    BY <2>3, SeqDef
  <2> HIDE DEF calls
  <2> QED
    BY <2>2, <2>4, LenProperties
<1> HIDE DEF calls, T
<1>3. PICK f : /\ f[0] = s /\ Calls(s, calls) = f[Len(calls)]
               /\ \A i \in 1..Len(calls) : f[i] = Called(f[i - 1], calls[i])
  <2>1. \A c \in Seq(T) : \E f : /\ f[0] = s /\ Calls(s, c) = f[Len(c)]
                                 /\ \A i \in 1..Len(c) : f[i] = Called(f[i - 1], c[i])
    BY CallsGo
  <2> QED
    BY <1>2, <2>1, Zenon
<1> DEFINE Freed(k, g) == \E j \in 1..k : g = v.handles[j]
           S == {k \in 0..n : /\ Like(s, f[k]) /\ f[k].context = s.context /\ ~f[k].misused
                              /\ \A g \in DOMAIN s.handle :
                                    /\ f[k].handle[g].live = (s.handle[g].live /\ ~Freed(k, g))
                                    /\ f[k].handle[g].open = s.handle[g].open}
<1>4. 0 \in S
  <2>1. \A g \in DOMAIN s.handle : s.handle[g].live \in BOOLEAN
    BY HandleOf DEF Entries
  <2> QED
    BY <1>3, <2>1 DEF Like
<1>5. ASSUME NEW k \in 0..(n - 1), k \in S PROVE k + 1 \in S
  <2>1. k + 1 \in 1..n /\ k + 1 \in 0..n /\ (k + 1) - 1 = k /\ k \in 0..n
    OBVIOUS
  <2>2. PICK h : h = v.handles[k + 1]
    OBVIOUS
  <2>3. f[k + 1] = Called(f[k], On("free", h))
    BY <1>2, <1>3, <2>1, <2>2
  <2>4. h \in HandlesOf(v)
    BY <1>1, <2>1, <2>2, Handles
  <2>5. /\ Like(s, f[k]) /\ f[k].context = s.context /\ ~f[k].misused
        /\ \A g \in DOMAIN s.handle : /\ f[k].handle[g].live = (s.handle[g].live /\ ~Freed(k, g))
                                      /\ f[k].handle[g].open = s.handle[g].open
    BY <1>5
  <2>6. ~Freed(k, h)
    <3>1. \A j \in 1..k : j \in 1..n /\ j # k + 1
      BY <2>1
    <3>2. \A i, j \in 1..n : v.handles[i] = v.handles[j] => i = j
      BY <1>1 DEF Shaped
    <3> QED
      BY <2>1, <2>2, <3>1, <3>2
  <2>7. f[k].handle[h].live /\ h \in DOMAIN f[k].handle /\ f[k] \in Libraries
    BY <2>4, <2>5, <2>6 DEF Like
  <2>8. /\ Like(f[k], f[k + 1]) /\ f[k + 1].context = f[k].context
        /\ \A g \in DOMAIN f[k].handle :
              /\ f[k + 1].handle[g].live = (f[k].handle[g].live /\ g # h)
              /\ f[k + 1].handle[g].open = f[k].handle[g].open
        /\ f[k + 1].misused => f[k].misused \/ ~f[k].handle[h].live
    BY <2>3, <2>7, CalledFree
  <2>9. \A g : Freed(k + 1, g) <=> Freed(k, g) \/ g = h
    <3>1. \A j : j \in 1..(k + 1) <=> j \in 1..k \/ j = k + 1
      BY <2>1
    <3> QED
      BY <2>2, <3>1
  <2> HIDE DEF Freed
  <2>10. Like(s, f[k + 1]) /\ f[k + 1].context = s.context /\ ~f[k + 1].misused
    BY <2>5, <2>7, <2>8 DEF Like
  <2>11. ASSUME NEW g \in DOMAIN s.handle
         PROVE  /\ f[k + 1].handle[g].live = (s.handle[g].live /\ ~Freed(k + 1, g))
                /\ f[k + 1].handle[g].open = s.handle[g].open
    BY <2>5, <2>8, <2>9 DEF Like
  <2> QED
    BY <2>1, <2>10, <2>11
<1> HIDE DEF S
<1>6. n \in S
  <2>1. \A k \in 0..(n - 1) : k \in S => k + 1 \in S
    BY <1>5
  <2>2. \A k \in 0..n : k \in S
    BY <1>4, <2>1, Induction
  <2> QED
    BY <2>2
<1>7. \A g : Freed(n, g) <=> g \in HandlesOf(v)
  BY <1>1, Handles
<1>8. t = f[n]
  BY <1>2, <1>3 DEF calls
<1> HIDE DEF Freed
<1> QED
  BY <1>6, <1>7, <1>8 DEF S

\* A value goes from which nothing borrows: its handles are freed.
LEMMA DropKeeps ==
    ASSUME NEW s, NEW vs, NEW lost, NEW un \in BOOLEAN, Held(s, vs, lost, un),
           NEW v \in vs, Unlent(vs, v), NEW now \in BOOLEAN, un => now,
           \A h \in HandlesOf(v) : s.handle[h].open => now \/ s.handle[h].kind = "fh",
           NEW t, t = Calls(s, Frees(v))
    PROVE  Held(t, vs \ {v}, lost, now) /\ t.context = s.context /\ Like(s, t)
<1>1. s \in Libraries /\ ~s.misused /\ Shaped(v)
      /\ \A h \in HandlesOf(v) : h \in DOMAIN s.handle /\ s.handle[h].live
  BY DEF Held, Holds
<1>2. /\ Like(s, t) /\ t.context = s.context /\ ~t.misused
      /\ \A g \in DOMAIN s.handle :
            /\ t.handle[g].live = (s.handle[g].live /\ g \notin HandlesOf(v))
            /\ t.handle[g].open = s.handle[g].open
  BY <1>1, FreesGo
<1>3. ASSUME NEW w \in vs \ {v} PROVE Holds(t, w) /\ Lent(vs \ {v}, w)
  <2>1. Holds(s, w) /\ Lent(vs, w) /\ HandlesOf(v) \cap HandlesOf(w) = {}
    BY DEF Held
  <2>2. Holds(t, w)
    <3>1. SUFFICES ASSUME NEW h \in HandlesOf(w)
                   PROVE  /\ h \in DOMAIN t.handle /\ t.handle[h].live
                          /\ t.handle[h].of \subseteq w.borrows
                          /\ w.type \in Contextless => t.handle[h].kind \in Kinds
                          /\ t.handle[h].open => \/ t.handle[h].kind = "fh"
                                                 \/ Closes(w) /\ h = w.handles[1]
      BY DEF Holds
    <3>2. /\ h \in DOMAIN s.handle /\ s.handle[h].live /\ s.handle[h].of \subseteq w.borrows
          /\ w.type \in Contextless => s.handle[h].kind \in Kinds
          /\ s.handle[h].open => \/ s.handle[h].kind = "fh"
                                 \/ Closes(w) /\ h = w.handles[1]
      BY <2>1 DEF Holds
    <3>3. h \notin HandlesOf(v)
      BY <2>1
    <3>4. /\ t.handle[h].live /\ t.handle[h].open = s.handle[h].open
          /\ t.handle[h].kind = s.handle[h].kind /\ t.handle[h].of = s.handle[h].of
          /\ h \in DOMAIN t.handle
      BY <1>2, <3>2, <3>3 DEF Like
    <3> QED
      BY <3>2, <3>4
  <2>3. Lent(vs \ {v}, w)
    <3>1. SUFFICES ASSUME NEW b \in w.borrows
                   PROVE  \E u \in vs \ {v} : u.type \in {"Config", "Query"} /\ b \in HandlesOf(u)
      BY DEF Lent
    <3>2. PICK u \in vs : u.type \in {"Config", "Query"} /\ b \in HandlesOf(u)
      BY <2>1 DEF Lent
    <3>3. u # v
      BY <3>2 DEF Unlent
    <3> QED
      BY <3>2, <3>3
  <2> QED
    BY <2>2, <2>3
<1>4. ASSUME NEW h \in DOMAIN t.handle
      PROVE  /\ t.handle[h].live => h \in lost \/ \E w \in vs \ {v} : h \in HandlesOf(w)
             /\ ~t.handle[h].live /\ t.handle[h].open /\ ~now => t.handle[h].kind = "fh"
  <2>1. /\ h \in DOMAIN s.handle /\ t.handle[h].kind = s.handle[h].kind
        /\ t.handle[h].live = (s.handle[h].live /\ h \notin HandlesOf(v))
        /\ t.handle[h].open = s.handle[h].open
    BY <1>2 DEF Like
  <2>2. /\ s.handle[h].live => h \in lost \/ \E w \in vs : h \in HandlesOf(w)
        /\ ~s.handle[h].live /\ s.handle[h].open /\ ~un => s.handle[h].kind = "fh"
    BY <2>1 DEF Held
  <2>3. CASE h \in HandlesOf(v)
    BY <2>1, <2>3
  <2>4. CASE h \notin HandlesOf(v)
    BY <2>1, <2>2, <2>4
  <2> QED
    BY <2>3, <2>4
<1> QED
  BY <1>2, <1>3, <1>4 DEF Held, Like

\* The library gives out a handle: at first nobody owns it.
Given(s, kind, of) ==
    [s EXCEPT !.handle = Append(@, [kind |-> kind, live |-> TRUE, open |-> FALSE, of |-> of])]

Following(s) == Len(s.handle) + 1

LEMMA GivenKeeps ==
    ASSUME NEW s, NEW vs, NEW lost, NEW un, Held(s, vs, lost, un),
           NEW kind \in HandleKinds, NEW of \in SUBSET Nat,
           NEW t, t = Given(s, kind, of), NEW n, n = Following(s)
    PROVE  /\ Held(t, vs, lost \cup {n}, un) /\ t.context = s.context
           /\ n \in DOMAIN t.handle /\ n \notin DOMAIN s.handle /\ n \in Nat
           /\ t.handle[n].live /\ ~t.handle[n].open
           /\ t.handle[n].kind = kind /\ t.handle[n].of = of
           /\ \A h \in DOMAIN s.handle : h \in DOMAIN t.handle /\ t.handle[h] = s.handle[h]
<1> DEFINE e == [kind |-> kind, live |-> TRUE, open |-> FALSE, of |-> of]
           q == Append(s.handle, e)
<1>1. s \in Libraries /\ ~s.misused /\ lost \subseteq DOMAIN s.handle
  BY DEF Held
<1>2. e \in Entries /\ e.live /\ ~e.open /\ e.kind = kind /\ e.of = of
  BY DEF Entries
<1> HIDE DEF e
<1>3. /\ q \in Seq(Entries) /\ n \in Nat \ {0} /\ DOMAIN s.handle = 1..(n - 1) /\ DOMAIN q = 1..n
      /\ q[n] = e /\ \A h \in 1..(n - 1) : q[h] = s.handle[h]
  BY <1>1, <1>2, HandleOf, AppendProperties DEF Following
<1> HIDE DEF q
<1>4. t = [s EXCEPT !.handle = q]
  BY DEF Given, q, e
<1>5. t \in Libraries /\ t.handle = q /\ t.context = s.context /\ t.misused = s.misused
  BY <1>1, <1>3, <1>4 DEF Libraries
<1>6. n \in DOMAIN t.handle /\ n \notin DOMAIN s.handle /\ t.handle[n] = e
  BY <1>3, <1>5
<1>7. \A h \in DOMAIN s.handle : h \in DOMAIN t.handle /\ t.handle[h] = s.handle[h]
  BY <1>3, <1>5
<1>8. \A h \in DOMAIN t.handle : h = n \/ h \in DOMAIN s.handle
  BY <1>3, <1>5
<1>9. ASSUME NEW v \in vs PROVE Holds(t, v) /\ n \notin HandlesOf(v)
  <2>1. Holds(s, v)
    BY DEF Held
  <2> QED
    BY <1>6, <1>7, <2>1 DEF Holds
<1>10. ASSUME NEW h \in DOMAIN t.handle
       PROVE  /\ t.handle[h].live => h \in lost \cup {n} \/ \E v \in vs : h \in HandlesOf(v)
              /\ ~t.handle[h].live /\ t.handle[h].open /\ ~un => t.handle[h].kind = "fh"
  <2>1. CASE h = n
    BY <1>2, <1>6, <2>1
  <2>2. CASE h \in DOMAIN s.handle
    BY <1>7, <2>2 DEF Held
  <2> QED
    BY <1>8, <2>1, <2>2
<1>11. lost \cup {n} \subseteq DOMAIN t.handle
  BY <1>1, <1>6, <1>7
<1>12. Held(t, vs, lost \cup {n}, un)
  BY <1>1, <1>5, <1>9, <1>10, <1>11 DEF Held
<1> QED
  BY <1>2, <1>3, <1>5, <1>6, <1>7, <1>12

\* A value takes handles that nobody owns.
LEMMA AdoptKeeps ==
    ASSUME NEW s, NEW vs, NEW lost, NEW un, Held(s, vs, lost, un),
           NEW w, Shaped(w), Holds(s, w), Lent(vs, w), HandlesOf(w) \subseteq lost
    PROVE  Held(s, vs \cup {w}, lost \ HandlesOf(w), un)
<1>1. ASSUME NEW v \in vs \cup {w}
      PROVE  /\ Shaped(v) /\ Holds(s, v) /\ Lent(vs \cup {w}, v)
             /\ HandlesOf(v) \cap (lost \ HandlesOf(w)) = {}
  <2>1. Shaped(v) /\ Holds(s, v) /\ Lent(vs, v)
    BY DEF Held
  <2>2. Lent(vs \cup {w}, v)
    BY <2>1 DEF Lent
  <2>3. HandlesOf(v) \cap (lost \ HandlesOf(w)) = {}
    BY DEF Held
  <2> QED
    BY <2>1, <2>2, <2>3
<1>2. \A v \in vs : HandlesOf(v) \cap HandlesOf(w) = {}
  BY DEF Held
<1>3. \A u, v \in vs \cup {w} : u # v => HandlesOf(u) \cap HandlesOf(v) = {}
  BY <1>2 DEF Held
<1>4. ASSUME NEW h \in DOMAIN s.handle, s.handle[h].live
      PROVE  h \in lost \ HandlesOf(w) \/ \E v \in vs \cup {w} : h \in HandlesOf(v)
  BY <1>4 DEF Held
<1> QED
  BY <1>1, <1>3, <1>4 DEF Held

\* A value from which nothing borrows becomes another.
LEMMA BecomeKeeps ==
    ASSUME NEW s, NEW vs, NEW lost, NEW un, Held(s, vs, lost, un), NEW v \in vs, Unlent(vs, v),
           NEW w, Shaped(w), Holds(s, w), w.borrows = {},
           HandlesOf(w) \subseteq HandlesOf(v) \cup lost,
           NEW rest, rest = (lost \cup HandlesOf(v)) \ HandlesOf(w)
    PROVE  Held(s, (vs \ {v}) \cup {w}, rest, un)
<1> DEFINE ws == (vs \ {v}) \cup {w}
<1>1. ASSUME NEW u \in ws
      PROVE  Shaped(u) /\ Holds(s, u) /\ Lent(ws, u) /\ HandlesOf(u) \cap rest = {}
  <2>1. CASE u = w
    BY <2>1 DEF Lent
  <2>2. CASE u \in vs \ {v}
    <3>1. Shaped(u) /\ Holds(s, u) /\ Lent(vs, u) /\ HandlesOf(u) \cap lost = {}
          /\ HandlesOf(u) \cap HandlesOf(v) = {}
      BY <2>2 DEF Held
    <3>2. Lent(ws, u)
      <4>1. SUFFICES ASSUME NEW b \in u.borrows
                     PROVE  \E x \in ws : x.type \in {"Config", "Query"} /\ b \in HandlesOf(x)
        BY DEF Lent
      <4>2. PICK x \in vs : x.type \in {"Config", "Query"} /\ b \in HandlesOf(x)
        BY <3>1 DEF Lent
      <4>3. x # v
        BY <2>2, <4>2 DEF Unlent
      <4> QED
        BY <4>2, <4>3
    <3> QED
      BY <3>1, <3>2
  <2> QED
    BY <2>1, <2>2
<1>2. ASSUME NEW u \in vs \ {v} PROVE HandlesOf(u) \cap HandlesOf(w) = {}
  BY DEF Held
<1>3. \A u, x \in ws : u # x => HandlesOf(u) \cap HandlesOf(x) = {}
  BY <1>2 DEF Held
<1>4. ASSUME NEW h \in DOMAIN s.handle, s.handle[h].live
      PROVE  h \in rest \/ \E u \in ws : h \in HandlesOf(u)
  BY <1>4 DEF Held
<1>5. rest \subseteq DOMAIN s.handle
  BY DEF Held, Holds
<1> HIDE DEF ws
<1>6. Held(s, ws, rest, un)
  BY <1>1, <1>3, <1>4, <1>5 DEF Held
<1> QED
  BY <1>6 DEF ws

\* A handle that nobody owns is freed.
LEMMA FreeLostKeeps ==
    ASSUME NEW s, NEW vs, NEW lost, NEW un, Held(s, vs, lost, un),
           NEW h \in lost, s.handle[h].live, s.handle[h].open => s.handle[h].kind = "fh",
           NEW t, t = Called(s, On("free", h))
    PROVE  Held(t, vs, lost \ {h}, un) /\ t.context = s.context
<1>1. s \in Libraries /\ ~s.misused /\ h \in DOMAIN s.handle
  BY DEF Held
<1>2. /\ Like(s, t) /\ t.context = s.context /\ ~t.misused
      /\ \A g \in DOMAIN s.handle : /\ t.handle[g].live = (s.handle[g].live /\ g # h)
                                    /\ t.handle[g].open = s.handle[g].open
  BY <1>1, CalledFree
<1>3. ASSUME NEW v \in vs PROVE Holds(t, v)
  <2>1. Holds(s, v) /\ h \notin HandlesOf(v)
    BY DEF Held
  <2>2. \A g \in HandlesOf(v) :
           /\ g \in DOMAIN t.handle /\ t.handle[g].live
           /\ t.handle[g].kind = s.handle[g].kind /\ t.handle[g].of = s.handle[g].of
           /\ t.handle[g].open = s.handle[g].open
    BY <1>2, <2>1 DEF Holds, Like
  <2> QED
    BY <2>1, <2>2 DEF Holds
<1>4. ASSUME NEW g \in DOMAIN t.handle
      PROVE  /\ t.handle[g].live => g \in lost \ {h} \/ \E v \in vs : g \in HandlesOf(v)
             /\ ~t.handle[g].live /\ t.handle[g].open /\ ~un => t.handle[g].kind = "fh"
  <2>1. g \in DOMAIN s.handle /\ t.handle[g].kind = s.handle[g].kind
    BY <1>2 DEF Like
  <2> QED
    BY <1>2, <2>1 DEF Held
<1> QED
  BY <1>2, <1>3, <1>4 DEF Held, Like

\* What is borrowed belongs to a Config or a Query.
LEMMA UnlentByType ==
    ASSUME NEW s, NEW vs, NEW lost, NEW un, Held(s, vs, lost, un),
           NEW v \in vs, v.type \notin {"Config", "Query"}
    PROVE  Unlent(vs, v)
<1>1. SUFFICES ASSUME NEW w \in vs, NEW b \in w.borrows, b \in HandlesOf(v) PROVE FALSE
  BY DEF Unlent
<1>2. PICK u \in vs : u.type \in {"Config", "Query"} /\ b \in HandlesOf(u)
  BY DEF Held, Lent
<1> QED
  BY <1>1, <1>2 DEF Held

-----------------------------------------------------------------------------
(***************************************************************************)
(* Dropping a value.                                                       *)
(***************************************************************************)
OpNames ==
    {"free", "open", "close", "is_open", "get", "set", "next", "metadata", "evolve", "ranges",
     "finalize", "member", "delete", "vfs", "read", "write", "sync"}

Ops == [op : OpNames, handle : Nat]

LEMMA OnIsOp == \A op \in OpNames, h \in Nat : On(op, h) \in Ops
  BY DEF On, Ops

LEMMA FieldCallsAre ==
    ASSUME NEW v, Shaped(v)
    PROVE  /\ Frees(v) \in Seq(Ops) /\ FieldCalls(v) \in Seq(Ops)
           /\ FieldCalls(v) = (IF LastContext(v) /\ library.context = "live"
                               THEN <<On("free", 0)>> ELSE <<>>) \o Frees(v)
<1>1. PICK n \in Nat : n = Len(v.handles) /\ DOMAIN v.handles = 1..n
  BY Handles
<1>2. \A i \in 1..n : On("free", v.handles[i]) \in Ops
  <2>1. \A i \in 1..n : v.handles[i] \in Nat
    BY <1>1, Handles
  <2> QED
    BY <2>1, OnIsOp DEF OpNames
<1>3. Frees(v) \in [1..n -> Ops]
  BY <1>1, <1>2 DEF Frees
<1>4. Frees(v) \in Seq(Ops)
  BY <1>3, SeqDef
<1>5. On("free", 0) \in Ops
  BY OnIsOp DEF OpNames
<1>6. (IF LastContext(v) /\ library.context = "live" THEN <<On("free", 0)>> ELSE <<>>) \in Seq(Ops)
  BY <1>5
<1>7. FieldCalls(v) = (IF LastContext(v) /\ library.context = "live"
                       THEN <<On("free", 0)>> ELSE <<>>) \o Frees(v)
  BY DEF FieldCalls, Frees
<1> QED
  BY <1>4, <1>6, <1>7, ConcatProperties

\* One call on a handle of a value that is not lost with it.
LEMMA CallKeeps ==
    ASSUME NEW s, NEW vs, NEW lost, NEW un, Held(s, vs, lost, un), NEW v \in vs,
           NEW h \in HandlesOf(v), NEW op, op # "free",
           op = "open" => s.handle[h].kind = "fh" \/ (Closes(v) /\ h = v.handles[1]),
           s.context = "live" \/ v.type \in Contextless,
           NEW t, t = Called(s, On(op, h))
    PROVE  /\ Held(t, vs, lost, un) /\ t.context = s.context /\ Like(s, t)
           /\ op = "close" => ~t.handle[h].open
           /\ op \notin {"open", "close"} => \A g \in DOMAIN s.handle : t.handle[g].open = s.handle[g].open
<1>1. On(op, h).op = op /\ On(op, h).handle = h
  BY DEF On
<1>2. Reaches(s, v, On(op, h))
  BY <1>1 DEF Reaches
<1> DEFINE c == On(op, h)
<1>3. c.op = op /\ c.handle = h /\ Reaches(s, v, c) /\ t = Called(s, c)
  BY <1>1, <1>2
<1> HIDE DEF c
<1>4. PICK d : d = c
  OBVIOUS
<1> QED
  BY <1>3, <1>4, UseKeeps

\* The first handle of what closes itself.
LEMMA FirstHandle ==
    ASSUME NEW v, Shaped(v), v.type # "Context"
    PROVE  v.handles[1] \in HandlesOf(v) /\ v.handles[1] \in Nat /\ 1 \in DOMAIN v.handles
<1>1. 1 \in 1..Len(v.handles)
  <2>1. PICK n \in Nat : n = Len(v.handles)
    BY Handles
  <2>2. n = 1 \/ n = 2 \/ n = 3
    BY <2>1 DEF Shaped
  <2> QED
    BY <2>1, <2>2, Handles
<1> QED
  BY <1>1, Handles

Closing(s, h) == <<On("is_open", h)>> \o (IF s.handle[h].open THEN <<On("close", h)>> ELSE <<>>)

LEMMA ClosingKeeps ==
    ASSUME NEW s, NEW vs, NEW lost, NEW un, Held(s, vs, lost, un), NEW v \in vs, Closes(v),
           s.context = "live", NEW h, h = v.handles[1],
           NEW t, t = Calls(s, Closing(s, h))
    PROVE  /\ Held(t, vs, lost, un) /\ t.context = s.context /\ Closing(s, h) \in Seq(Ops)
           /\ \A g \in HandlesOf(v) : t.handle[g].open => t.handle[g].kind = "fh"
<1> DEFINE a == <<On("is_open", h)>>
           b == IF s.handle[h].open THEN <<On("close", h)>> ELSE <<>>
           u == Called(s, On("is_open", h))
<1>1. Shaped(v) /\ v.type # "Context"
  BY DEF Held, Closes
<1>2. h \in HandlesOf(v) /\ h \in Nat
  BY <1>1, FirstHandle
<1>3. a \in Seq(Ops) /\ b \in Seq(Ops)
  <2>1. On("is_open", h) \in Ops /\ On("close", h) \in Ops
    BY <1>2, OnIsOp DEF OpNames
  <2> QED
    BY <2>1
<1>4. Calls(s, a) = u
  BY CallsOne
<1>5. PICK w : w = u
  OBVIOUS
<1>6. /\ Held(w, vs, lost, un) /\ w.context = s.context /\ Like(s, w)
      /\ \A g \in DOMAIN s.handle : w.handle[g].open = s.handle[g].open
  BY <1>2, <1>5, CallKeeps
<1>7. t = Calls(w, b)
  <2>1. Closing(s, h) = a \o b
    BY DEF Closing
  <2> HIDE DEF a, b, u
  <2> QED
    BY <1>3, <1>4, <1>5, <2>1, CallsSplit
<1>8. h \in DOMAIN s.handle
  BY <1>2 DEF Held, Holds
<1>9. Held(t, vs, lost, un) /\ t.context = s.context /\ ~t.handle[h].open
  <2>1. CASE s.handle[h].open
    <3>1. t = Called(w, On("close", h))
      BY <1>7, <2>1, CallsOne
    <3>2. Held(t, vs, lost, un) /\ t.context = w.context /\ ~t.handle[h].open
      BY <1>2, <1>6, <3>1, CallKeeps
    <3> QED
      BY <1>6, <3>2
  <2>2. CASE ~s.handle[h].open
    <3>1. t = w
      BY <1>7, <2>2, CallsOne
    <3> QED
      BY <1>6, <1>8, <2>2, <3>1
  <2> QED
    BY <2>1, <2>2
<1>10. \A g \in HandlesOf(v) : t.handle[g].open => t.handle[g].kind = "fh"
  <2>1. Holds(t, v)
    BY <1>9 DEF Held
  <2> QED
    BY <1>9, <2>1 DEF Holds
<1>11. Closing(s, h) \in Seq(Ops)
  BY <1>3, ConcatProperties DEF Closing
<1> QED
  BY <1>9, <1>10, <1>11

\* The fields of a value go; the last one that holds it takes the context along.
LEMMA FieldsKeep ==
    ASSUME NEW s, NEW un \in BOOLEAN, Held(s, values, leaked, un), ContextKept(s, values),
           s.context = library.context, NEW v \in values, Unlent(values, v),
           NEW now \in BOOLEAN, un => now,
           \A h \in HandlesOf(v) : s.handle[h].open => now \/ s.handle[h].kind = "fh",
           NEW t, t = Calls(s, FieldCalls(v))
    PROVE  Held(t, values \ {v}, leaked, now) /\ ContextKept(t, values \ {v})
<1> DEFINE last == LastContext(v) /\ library.context = "live"
           a == IF last THEN <<On("free", 0)>> ELSE <<>>
<1>1. Shaped(v) /\ s \in Libraries /\ s.context \in {"live", "freed"}
  BY DEF Held, Libraries
<1>2. a \in Seq(Ops) /\ Frees(v) \in Seq(Ops) /\ FieldCalls(v) = a \o Frees(v)
  <2>1. On("free", 0) \in Ops
    BY OnIsOp DEF OpNames
  <2> QED
    BY <1>1, <2>1, FieldCallsAre
<1>3. PICK u : u = Calls(s, a)
  OBVIOUS
<1>4. t = Calls(u, Frees(v))
  <2> HIDE DEF a
  <2> QED
    BY <1>2, <1>3, CallsSplit
<1>5. /\ Held(u, values, leaked, un) /\ u.handle = s.handle
      /\ u.context = IF last THEN "freed" ELSE s.context
  <2>1. CASE last
    <3>1. u = Called(s, On("free", 0))
      BY <1>3, <2>1, CallsOne
    <3>2. u \in Libraries /\ u.handle = s.handle /\ u.context = "freed" /\ u.misused = s.misused
      BY <1>1, <3>1, CalledFreeContext
    <3>3. Held(u, values, leaked, un)
      BY <3>2 DEF Held, Holds
    <3> QED
      BY <2>1, <3>2, <3>3
  <2>2. CASE ~last
    <3>1. u = s
      BY <1>3, <2>2, CallsOne
    <3> QED
      BY <2>2, <3>1
  <2> QED
    BY <2>1, <2>2
<1>6. \A h \in HandlesOf(v) : u.handle[h].open => now \/ u.handle[h].kind = "fh"
  BY <1>5
<1>7. Held(t, values \ {v}, leaked, now) /\ t.context = u.context
  BY <1>4, <1>5, <1>6, DropKeeps
<1>8. ContextKept(t, values \ {v})
  <2>1. CASE last
    <3>1. t.context = "freed" /\ \A w \in values \ {v} : ~HoldsContext(w)
      BY <1>5, <1>7, <2>1 DEF LastContext
    <3> QED
      BY <3>1 DEF ContextKept
  <2>2. CASE ~last
    <3>1. t.context = s.context
      BY <1>5, <1>7, <2>2
    <3>2. CASE HoldsContext(v)
      <4>1. s.context = "live"
        BY <1>1, <3>2 DEF ContextKept
      <4>2. \E w \in values \ {v} : HoldsContext(w)
        BY <2>2, <3>2, <4>1 DEF LastContext
      <4> QED
        BY <3>1, <4>1, <4>2 DEF ContextKept
    <3>3. CASE ~HoldsContext(v)
      BY <3>1, <3>3 DEF ContextKept
    <3> QED
      BY <3>2, <3>3
  <2> QED
    BY <2>1, <2>2
<1> QED
  BY <1>7, <1>8

LEMMA ContextOf ==
    ASSUME NEW s \in Libraries, NEW vs, ContextKept(s, vs), NEW v \in vs
    PROVE  s.context = "live" \/ v.type \in Contextless
  BY DEF Libraries, ContextKept, HoldsContext

\* A value goes, closed first if it closes itself.
LEMMA DropCallsKeep ==
    ASSUME Held(library, values, leaked, unclosed), ContextKept(library, values),
           unclosed \in BOOLEAN, NEW v \in values, Unlent(values, v),
           NEW t, t = Calls(library, DropCalls(v))
    PROVE  /\ Held(t, values \ {v}, leaked, unclosed) /\ ContextKept(t, values \ {v})
           /\ DropCalls(v) \in Seq(Ops)
<1>1. Shaped(v) /\ library \in Libraries /\ Holds(library, v)
  BY DEF Held
<1>2. FieldCalls(v) \in Seq(Ops)
  BY <1>1, FieldCallsAre
<1>3. CASE Closes(v)
  <2>1. PICK h : h = v.handles[1]
    OBVIOUS
  <2>2. DropCalls(v) = Closing(library, h) \o FieldCalls(v)
    BY <1>3, <2>1 DEF DropCalls, CloseCalls, Closing
  <2>3. library.context = "live"
    BY <1>1, <1>3, ContextOf DEF Closes, Contextless
  <2>4. PICK u : u = Calls(library, Closing(library, h))
    OBVIOUS
  <2>5. /\ Held(u, values, leaked, unclosed) /\ u.context = library.context
        /\ Closing(library, h) \in Seq(Ops)
        /\ \A g \in HandlesOf(v) : u.handle[g].open => u.handle[g].kind = "fh"
    BY <1>3, <2>1, <2>3, <2>4, ClosingKeeps
  <2>6. t = Calls(u, FieldCalls(v))
    BY <1>2, <2>2, <2>4, <2>5, CallsSplit
  <2>7. ContextKept(u, values)
    BY <2>5 DEF ContextKept
  <2>8. Held(t, values \ {v}, leaked, unclosed) /\ ContextKept(t, values \ {v})
    BY <2>5, <2>6, <2>7, FieldsKeep
  <2> QED
    BY <1>2, <2>2, <2>5, <2>8, ConcatProperties
<1>4. CASE ~Closes(v)
  <2>1. DropCalls(v) = FieldCalls(v)
    BY <1>2, <1>4 DEF DropCalls
  <2>2. \A g \in HandlesOf(v) : library.handle[g].open => library.handle[g].kind = "fh"
    BY <1>1, <1>4 DEF Holds
  <2>3. Held(t, values \ {v}, leaked, unclosed) /\ ContextKept(t, values \ {v})
    BY <2>1, <2>2, FieldsKeep
  <2> QED
    BY <1>2, <2>1, <2>3
<1> QED
  BY <1>3, <1>4

\* The drop panics, and leaves open what was open.
LEMMA PanickedDropKeeps ==
    ASSUME Held(library, values, leaked, unclosed), ContextKept(library, values),
           unclosed \in BOOLEAN, NEW v \in values, Closes(v), Unlent(values, v),
           NEW t, t = Calls(library, <<On("is_open", v.handles[1])>> \o FieldCalls(v)),
           NEW now, now = (unclosed \/ library.handle[v.handles[1]].open)
    PROVE  Held(t, values \ {v}, leaked, now) /\ ContextKept(t, values \ {v}) /\ now \in BOOLEAN
<1>1. Shaped(v) /\ library \in Libraries /\ Holds(library, v) /\ v.type # "Context"
  BY DEF Held, Closes
<1>2. FieldCalls(v) \in Seq(Ops)
  BY <1>1, FieldCallsAre
<1>3. PICK h : h = v.handles[1] /\ h \in HandlesOf(v) /\ h \in Nat
  BY <1>1, FirstHandle
<1>4. h \in DOMAIN library.handle
  BY <1>1, <1>3 DEF Holds
<1>5. library.handle[h].open \in BOOLEAN
  BY <1>1, <1>4, HandleOf DEF Entries
<1>6. now \in BOOLEAN /\ (unclosed => now)
  BY <1>3, <1>5
<1>7. library.context = "live"
  BY <1>1, ContextOf DEF Closes, Contextless
<1>8. PICK u : u = Called(library, On("is_open", h))
  OBVIOUS
<1>9. /\ Held(u, values, leaked, unclosed) /\ u.context = library.context /\ Like(library, u)
      /\ \A g \in DOMAIN library.handle : u.handle[g].open = library.handle[g].open
  BY <1>3, <1>7, <1>8, CallKeeps
<1>10. t = Calls(u, FieldCalls(v))
  <2> DEFINE a == <<On("is_open", h)>>
  <2>1. a \in Seq(Ops) /\ Calls(library, a) = u
    <3>1. On("is_open", h) \in Ops
      BY <1>3, OnIsOp DEF OpNames
    <3> QED
      BY <1>8, <3>1, CallsOne
  <2>2. t = Calls(library, a \o FieldCalls(v))
    BY <1>3
  <2> HIDE DEF a
  <2> QED
    BY <1>2, <2>1, <2>2, CallsSplit
<1>11. \A g \in HandlesOf(v) : u.handle[g].open => now \/ u.handle[g].kind = "fh"
  <2>1. SUFFICES ASSUME NEW g \in HandlesOf(v), u.handle[g].open, u.handle[g].kind # "fh" PROVE now
    OBVIOUS
  <2>2. g = h
    BY <1>3, <1>9, <2>1 DEF Held, Holds
  <2> QED
    BY <1>3, <1>4, <1>9, <2>1, <2>2
<1>12. ContextKept(u, values)
  BY <1>9 DEF ContextKept
<1> QED
  BY <1>6, <1>9, <1>10, <1>11, <1>12, FieldsKeep
-----------------------------------------------------------------------------
(***************************************************************************)
(* What the operations are made of.                                        *)
(***************************************************************************)
LEMMA FailsKeeps ==
    ASSUME LifecycleInv, thread = "running", CallFailed
    PROVE  LifecycleInv'
<1>1. UNCHANGED <<library, values, leaked, unclosed>> /\ failures' = failures + 1
      /\ thread' \in {"running", "unwinding"}
  BY DEF CallFailed, CallFails
<1>2. Unwound'
  BY <1>1 DEF LifecycleInv, Unwound
<1>3. Held(library', values', leaked', unclosed') /\ ContextKept(library', values')
  BY <1>1 DEF LifecycleInv
<1> QED
  BY <1>2, <1>3 DEF LifecycleInv

LEMMA LeaksKeeps ==
    ASSUME LifecycleInv, thread = "running", NEW kind \in HandleKinds, Leaks(kind)
    PROVE  LifecycleInv'
<1>1. /\ library' = Given(library, kind, {}) /\ values' = values
      /\ leaked' = leaked \cup {Following(library)} /\ unclosed' = unclosed
      /\ failures' = failures + 1 /\ thread' \in {"running", "unwinding"}
  BY DEF Leaks, CallFails, Allocated, AllocatedFrom, NewHandle, Given, Following
<1>2. Held(library', values', leaked', unclosed') /\ library'.context = library.context
  <2>1. Held(library, values, leaked, unclosed)
    BY DEF LifecycleInv
  <2> QED
    BY <1>1, <2>1, GivenKeeps
<1>3. ContextKept(library', values')
  BY <1>1, <1>2 DEF LifecycleInv, ContextKept
<1>4. Unwound'
  BY <1>1 DEF LifecycleInv, Unwound
<1> QED
  BY <1>2, <1>3, <1>4 DEF LifecycleInv

LEMMA FailsDroppingKeeps ==
    ASSUME LifecycleInv, thread = "running", NEW v \in values, Unlent(values, v), FailsDropping(v)
    PROVE  LifecycleInv'
<1>1. /\ Held(library, values, leaked, unclosed) /\ ContextKept(library, values)
      /\ unclosed \in BOOLEAN /\ failures \in Nat
  BY DEF LifecycleInv, Unwound
<1>2. values' = values \ {v} /\ leaked' = leaked
  BY DEF FailsDropping
<1>3. CASE /\ library' = Calls(library, DropCalls(v)) /\ failures' = failures + 1
           /\ thread' \in {"running", "unwinding"} /\ unclosed' = unclosed
  <2>1. Held(library', values', leaked', unclosed') /\ ContextKept(library', values')
    BY <1>1, <1>2, <1>3, DropCallsKeep
  <2>2. Unwound'
    BY <1>1, <1>3 DEF Unwound
  <2> QED
    BY <2>1, <2>2 DEF LifecycleInv
<1>4. CASE /\ Closes(v)
           /\ library' = Calls(library, <<On("is_open", v.handles[1])>> \o FieldCalls(v))
           /\ unclosed' = (unclosed \/ library.handle[v.handles[1]].open)
           /\ failures' = failures + 2 /\ thread' \in {"unwinding", "aborted"}
  <2>1. Held(library', values', leaked', unclosed') /\ ContextKept(library', values')
        /\ unclosed' \in BOOLEAN
    BY <1>1, <1>2, <1>4, PanickedDropKeeps
  <2>2. Unwound'
    BY <1>1, <1>4, <2>1 DEF Unwound
  <2> QED
    BY <2>1, <2>2 DEF LifecycleInv
<1> QED
  BY <1>3, <1>4 DEF FailsDropping

LEMMA DropValueKeeps ==
    ASSUME LifecycleInv, DropValue
    PROVE  LifecycleInv'
<1>1. /\ Held(library, values, leaked, unclosed) /\ ContextKept(library, values)
      /\ unclosed \in BOOLEAN /\ failures \in Nat
  BY DEF LifecycleInv, Unwound
<1>2. PICK v \in values : /\ Movable(v) /\ thread # "aborted" /\ values' = values \ {v}
                          /\ DropQuietly(v) \/ DropPanics(v)
  BY DEF DropValue
<1>3. Unlent(values, v) /\ leaked' = leaked
  BY <1>2 DEF DropValue, Movable, Unlent, HandlesOf
<1>4. CASE DropQuietly(v)
  <2>1. library' = Calls(library, DropCalls(v)) /\ UNCHANGED <<thread, unclosed, failures>>
    BY <1>4 DEF DropQuietly
  <2>2. Held(library', values', leaked', unclosed') /\ ContextKept(library', values')
    BY <1>1, <1>2, <1>3, <2>1, DropCallsKeep
  <2>3. Unwound'
    BY <2>1 DEF Unwound, LifecycleInv
  <2> QED
    BY <2>2, <2>3 DEF LifecycleInv
<1>5. CASE DropPanics(v)
  <2>1. /\ Closes(v)
        /\ library' = Calls(library, <<On("is_open", v.handles[1])>> \o FieldCalls(v))
        /\ unclosed' = (unclosed \/ library.handle[v.handles[1]].open)
        /\ failures' = failures + 1
        /\ thread' = IF thread = "unwinding" THEN "aborted" ELSE "unwinding"
    BY <1>5 DEF DropPanics
  <2>2. Held(library', values', leaked', unclosed') /\ ContextKept(library', values')
        /\ unclosed' \in BOOLEAN
    BY <1>1, <1>2, <1>3, <2>1, PanickedDropKeeps
  <2>3. Unwound'
    BY <2>1, <2>2 DEF Unwound, LifecycleInv
  <2> QED
    BY <2>2, <2>3 DEF LifecycleInv
<1> QED
  BY <1>2, <1>4, <1>5

\* A call on a value changes none of what is held, but may open a file.
LEMMA UsesKeeps ==
    ASSUME LifecycleInv, NEW v \in values, v.type # "Context", NEW op, Uses(v, op),
           op \notin {"free", "open"}
    PROVE  LifecycleInv'
<1>1. Held(library, values, leaked, unclosed) /\ ContextKept(library, values)
      /\ Shaped(v) /\ library \in Libraries
  BY DEF LifecycleInv, Held
<1>2. /\ library' = Called(library, On(op, v.handles[1]))
      /\ UNCHANGED <<values, thread, leaked, unclosed, failures>>
  BY CallsOne DEF Uses
<1>3. v.handles[1] \in HandlesOf(v)
  BY <1>1, FirstHandle
<1>4. library.context = "live" \/ v.type \in Contextless
  BY <1>1, ContextOf
<1>5. Held(library', values, leaked, unclosed) /\ library'.context = library.context
  BY <1>1, <1>2, <1>3, <1>4, CallKeeps
<1>6. ContextKept(library', values) /\ Unwound'
  BY <1>1, <1>2, <1>5 DEF ContextKept, Unwound, LifecycleInv
<1> QED
  BY <1>2, <1>5, <1>6 DEF LifecycleInv

LEMMA SingleHandle ==
    ASSUME NEW type \in ValueTypes, type \notin {"Query", "SubarrayBuilder"}, NEW h \in Nat,
           NEW borrows \in SUBSET Nat, type \notin {"ConfigIterator", "Subarray"} => borrows = {},
           NEW w, w = Value(type, <<h>>, borrows)
    PROVE  /\ Shaped(w) /\ HandlesOf(w) = {h} /\ w.type = type /\ w.borrows = borrows
           /\ w.handles = <<h>>
<1>1. w.type = type /\ w.borrows = borrows /\ w.handles = <<h>>
  BY DEF Value
<1>2. Shaped(w)
  BY <1>1 DEF Shaped, Value
<1>3. HandlesOf(w) = {h}
  BY <1>1 DEF HandlesOf, ToSet
<1> QED
  BY <1>1, <1>2, <1>3

\* What a value with one handle may be, and what it may borrow.
Fits(type, kind, borrows) ==
    /\ kind \in HandleKinds
    /\ type \in ValueTypes /\ type \notin {"Query", "SubarrayBuilder"}
    /\ borrows = {} \/ type \in {"ConfigIterator", "Subarray"}
    /\ type \in Contextless => kind \in Kinds

Borrowable(vs, of, borrows) ==
    /\ of \subseteq borrows /\ borrows \subseteq Nat
    /\ \A b \in borrows : \E u \in vs : u.type \in {"Config", "Query"} /\ b \in HandlesOf(u)

\* The new handle gets its owner.
LEMMA GivenOwner ==
    ASSUME NEW s, NEW vs, NEW lost, NEW un, Held(s, vs, lost, un),
           NEW kind, NEW of, NEW borrows, NEW type,
           Fits(type, kind, borrows), Borrowable(vs, of, borrows),
           NEW n, n = Following(s), NEW t, t = Given(s, kind, of),
           NEW w, w = Value(type, <<n>>, borrows)
    PROVE  /\ Held(t, vs \cup {w}, lost, un) /\ t.context = s.context /\ w \notin vs
           /\ n \in Nat /\ HandlesOf(w) = {n} /\ w.type = type /\ w.borrows = borrows
           /\ w.handles = <<n>> /\ ~t.handle[n].open /\ t.handle[n].kind = kind
<1>1. of \in SUBSET Nat /\ borrows \in SUBSET Nat /\ of \subseteq borrows
  BY DEF Borrowable
<1>a. kind \in HandleKinds /\ (type \in Contextless => kind \in Kinds)
  BY DEF Fits
<1>b. /\ type \in ValueTypes /\ type \notin {"Query", "SubarrayBuilder"}
      /\ type \notin {"ConfigIterator", "Subarray"} => borrows = {}
  BY DEF Fits
<1>2. /\ Held(t, vs, lost \cup {n}, un) /\ t.context = s.context
      /\ n \in DOMAIN t.handle /\ n \notin DOMAIN s.handle /\ n \in Nat
      /\ t.handle[n].live /\ ~t.handle[n].open
      /\ t.handle[n].kind = kind /\ t.handle[n].of = of
  BY <1>1, <1>a, GivenKeeps
<1>3. Shaped(w) /\ HandlesOf(w) = {n} /\ w.type = type /\ w.borrows = borrows /\ w.handles = <<n>>
  BY <1>1, <1>b, <1>2, SingleHandle
<1>4. Holds(t, w)
  BY <1>1, <1>a, <1>2, <1>3 DEF Holds
<1>5. Lent(vs, w)
  BY <1>3 DEF Lent, Borrowable
<1>6. (lost \cup {n}) \ HandlesOf(w) = lost /\ w \notin vs
  BY <1>2, <1>3 DEF Held, Holds
<1>7. HandlesOf(w) \subseteq lost \cup {n}
  BY <1>3
<1>8. Held(t, vs \cup {w}, (lost \cup {n}) \ HandlesOf(w), un)
  BY <1>2, <1>3, <1>4, <1>5, <1>7, AdoptKeeps
<1> QED
  BY <1>2, <1>3, <1>6, <1>8

LEMMA OnHas ==
    ASSUME NEW op, NEW h
    PROVE  On(op, h).op = op /\ On(op, h).handle = h
  BY DEF On

LEMMA GetsAre ==
    ASSUME NEW q \in Seq(Nat), NEW calls, calls = [i \in DOMAIN q |-> On("get", q[i])]
    PROVE  /\ calls \in Seq(Ops) /\ Len(calls) = Len(q)
           /\ \A i \in 1..Len(q) : calls[i] = On("get", q[i])
<1>1. PICK m \in Nat : m = Len(q) /\ DOMAIN q = 1..m
  OBVIOUS
<1>2. \A i \in 1..m : q[i] \in Nat
  BY <1>1
<1>3. \A i \in 1..m : On("get", q[i]) \in Ops
  BY <1>2, OnIsOp DEF OpNames
<1>4. calls = [i \in 1..m |-> On("get", q[i])]
  BY <1>1
<1>5. calls \in [1..m -> Ops]
  BY <1>3, <1>4
<1>6. calls \in Seq(Ops)
  BY <1>5, SeqDef
<1>7. Len(calls) = m
  BY <1>5, <1>6, LenProperties
<1> QED
  BY <1>1, <1>4, <1>6, <1>7

\* A call, perhaps on a value, gives out a handle, which gets its owner.
LEMMA CreatesKeeps ==
    ASSUME LifecycleInv, NEW v, v \in values \/ v.handles = <<>>,
           NEW type \in ValueTypes, type \notin {"Context", "Query", "SubarrayBuilder"},
           NEW kind \in HandleKinds, NEW borrows,
           \/ borrows = {} /\ kind \notin Referring
           \/ /\ v \in values /\ v.type \in {"Config", "Query"} /\ borrows = HandlesOf(v)
              /\ type \in {"ConfigIterator", "Subarray"},
           IF type \in Contextless THEN kind \in Kinds ELSE HasContext,
           Creates(v, type, kind, borrows)
    PROVE  LifecycleInv'
<1>1. Held(library, values, leaked, unclosed) /\ ContextKept(library, values)
      /\ library \in Libraries /\ \A u \in values : Shaped(u)
  BY DEF LifecycleInv, Held
<1>2. PICK of : of = IF kind \in Referring THEN ToSet(v.handles) ELSE {}
  OBVIOUS
<1>3. PICK n : n = Following(library)
  OBVIOUS
<1>4. PICK t : t = Given(library, kind, of)
  OBVIOUS
<1>5. PICK calls : calls = [i \in DOMAIN v.handles |-> On("get", v.handles[i])]
  OBVIOUS
<1>6. /\ library' = Calls(t, calls) /\ values' = values \cup {Value(type, <<n>>, borrows)}
      /\ UNCHANGED <<thread, leaked, unclosed, failures>>
  BY <1>2, <1>3, <1>4, <1>5 DEF Creates, AllocatedFrom, NewHandle, Given, Following
<1>7. borrows \in SUBSET Nat /\ of \in SUBSET Nat /\ of \subseteq borrows
      /\ (borrows = {} \/ type \in {"ConfigIterator", "Subarray"})
  <2>1. CASE borrows = {} /\ kind \notin Referring
    BY <1>2, <2>1
  <2>2. CASE v \in values /\ borrows = HandlesOf(v) /\ type \in {"ConfigIterator", "Subarray"}
    BY <1>1, <1>2, <2>2, Handles DEF HandlesOf
  <2> QED
    BY <2>1, <2>2
<1>9. PICK w : w = Value(type, <<n>>, borrows)
  OBVIOUS
<1>10. \A b \in borrows : \E u \in values : u.type \in {"Config", "Query"} /\ b \in HandlesOf(u)
  OBVIOUS
<1>13. /\ Held(t, values \cup {w}, leaked, unclosed) /\ t.context = library.context
       /\ w.type = type
  <2>1. Held(library, values, leaked, unclosed)
    BY <1>1
  <2>2. Fits(type, kind, borrows) /\ Borrowable(values, of, borrows)
    BY <1>7, <1>10 DEF Fits, Borrowable
  <2> QED
    BY <1>3, <1>4, <1>9, <2>1, <2>2, GivenOwner
<1>14. Held(library', values \cup {w}, leaked, unclosed) /\ library'.context = t.context
  <2>1. v.handles \in Seq(Nat)
    <3>1. CASE v \in values
      BY <1>1, <3>1, Handles
    <3>2. CASE v.handles = <<>>
      BY <3>2
    <3> QED
      BY <3>1, <3>2
  <2>2. \A i \in 1..Len(v.handles) : v \in values /\ v.handles[i] \in HandlesOf(v)
    <3>1. CASE v \in values
      BY <1>1, <3>1, Handles
    <3>2. CASE v.handles = <<>>
      BY <3>2
    <3> QED
      BY <3>1, <3>2
  <2>6. /\ calls \in Seq(Ops) /\ Len(calls) = Len(v.handles)
        /\ \A i \in 1..Len(v.handles) : calls[i] = On("get", v.handles[i])
    BY <1>5, <2>1, GetsAre
  <2>7. ASSUME NEW i \in 1..Len(calls)
        PROVE  \E u \in values \cup {w} : Reaches(t, u, calls[i]) /\ calls[i].op # "open"
    <3>1. v \in values /\ v.handles[i] \in HandlesOf(v) /\ calls[i] = On("get", v.handles[i])
      BY <2>2, <2>6
    <3>2. t.context = "live" \/ v.type \in Contextless
      BY <1>1, <1>13, <3>1, ContextOf
    <3>3. calls[i].op = "get" /\ calls[i].handle = v.handles[i]
      BY <3>1, OnHas
    <3>4. calls[i] = On(calls[i].op, calls[i].handle)
      BY <3>1, <3>3
    <3>5. Reaches(t, v, calls[i])
      BY <3>1, <3>2, <3>3, <3>4 DEF Reaches
    <3> QED
      BY <3>1, <3>3, <3>5
  <2> QED
    BY <1>6, <1>13, <2>6, <2>7, UsesKeep
<1>15. ContextKept(library', values \cup {w})
  <2>1. library'.context = library.context
    BY <1>13, <1>14
  <2>2. CASE type \in Contextless
    BY <1>1, <1>13, <2>1, <2>2 DEF ContextKept, HoldsContext
  <2>3. CASE HasContext
    BY <1>1, <2>1, <2>3 DEF ContextKept, HasContext
  <2> QED
    BY <2>2, <2>3
<1>16. Unwound'
  BY <1>6 DEF LifecycleInv, Unwound
<1> QED
  BY <1>6, <1>9, <1>14, <1>15, <1>16 DEF LifecycleInv

LEMMA FreshCreatesKeeps ==
    ASSUME LifecycleInv, NEW type \in ValueTypes, type \notin {"Context", "Query", "SubarrayBuilder"},
           NEW kind \in HandleKinds \ Referring,
           IF type \in Contextless THEN kind \in Kinds ELSE HasContext,
           Creates(Value("", <<>>, {}), type, kind, {})
    PROVE  LifecycleInv'
<1>1. PICK v : v = Value("", <<>>, {})
  BY Zenon
<1>2. v.handles = <<>> /\ Creates(v, type, kind, {})
  BY <1>1, Zenon DEF Value
<1>3. IF type \in Contextless THEN kind \in Kinds ELSE HasContext
  BY Zenon
<1>4. LifecycleInv /\ kind \in HandleKinds /\ kind \notin Referring /\ type \in ValueTypes
      /\ type \notin {"Context", "Query", "SubarrayBuilder"}
  BY Zenon
<1> QED
  BY ONLY <1>2, <1>3, <1>4, CreatesKeeps

\* A value becomes another one, with handles of its own and handles that nobody owned.
LEMMA BecomesKeeps ==
    ASSUME LifecycleInv, NEW v \in values, HoldsContext(v), Unlent(values, v),
           NEW t, NEW lost, Held(t, values, lost, unclosed), t.context = library.context,
           NEW w, Shaped(w), Holds(t, w), w.borrows = {}, HoldsContext(w),
           HandlesOf(w) \subseteq HandlesOf(v) \cup lost,
           NEW rest, rest = (lost \cup HandlesOf(v)) \ HandlesOf(w),
           NEW ws, ws = (values \ {v}) \cup {w}
    PROVE  Held(t, ws, rest, unclosed) /\ ContextKept(t, ws)
<1>1. Held(t, ws, rest, unclosed)
  BY BecomeKeeps
<1>2. ContextKept(library, values)
  BY DEF LifecycleInv
<1> QED
  BY <1>1, <1>2 DEF ContextKept
-----------------------------------------------------------------------------
(***************************************************************************)
(* The steps.                                                              *)
(***************************************************************************)
LEMMA ConfigStep == LifecycleInv /\ ConfigNext => LifecycleInv'
<1> SUFFICES ASSUME LifecycleInv, ConfigNext PROVE LifecycleInv'
  OBVIOUS
<1>1. CASE config_new
  <2>1. thread = "running" /\ (CallFailed \/ Creates(Value("", <<>>, {}), "Config", "config", {}))
    BY <1>1, Zenon DEF config_new, Room
  <2>2. CASE CallFailed
    BY <2>1, <2>2, FailsKeeps, Zenon
  <2>3. CASE Creates(Value("", <<>>, {}), "Config", "config", {})
    <3>1. /\ "Config" \in ValueTypes /\ "Config" \in Contextless /\ "config" \in Kinds
          /\ "config" \in HandleKinds \ Referring
          /\ "Config" \notin {"Context", "Query", "SubarrayBuilder"}
      BY DEF ValueTypes, Contextless, Kinds, HandleKinds, Referring
    <3> QED
      BY <2>3, <3>1, FreshCreatesKeeps, Zenon
  <2> QED
    BY <2>1, <2>2, <2>3, Zenon
<1>2. CASE config_iter
  <2>1. PICK v \in values :
           /\ v.type = "Config" /\ thread = "running"
           /\ CallFailed \/ Creates(v, "ConfigIterator", "config_iter", HandlesOf(v))
    BY <1>2 DEF config_iter, Of, HandlesOf
  <2>2. CASE CallFailed
    BY <2>1, <2>2, FailsKeeps
  <2>3. CASE Creates(v, "ConfigIterator", "config_iter", HandlesOf(v))
    BY <2>1, <2>3, CreatesKeeps DEF ValueTypes, Contextless, Kinds, HandleKinds, Referring
  <2> QED
    BY <2>1, <2>2, <2>3
<1>3. CASE config_set
  <2>1. PICK v \in values : v.type = "Config" /\ thread = "running" /\ (CallFailed \/ Uses(v, "set"))
    BY <1>3 DEF config_set, Of
  <2> QED
    BY <2>1, FailsKeeps, UsesKeeps
<1>4. CASE config_next
  <2>1. PICK v \in values : v.type = "ConfigIterator" /\ Uses(v, "next")
    BY <1>4 DEF config_next, Of
  <2> QED
    BY <2>1, UsesKeeps
<1>5. CASE get_config
  <2>1. PICK v \in values : thread = "running" /\ (CallFailed \/ Creates(v, "Config", "config", {}))
    BY <1>5 DEF get_config, Of
  <2>2. CASE CallFailed
    BY <2>1, <2>2, FailsKeeps
  <2>3. CASE Creates(v, "Config", "config", {})
    BY <2>1, <2>3, CreatesKeeps DEF ValueTypes, Contextless, Kinds, HandleKinds, Referring
  <2> QED
    BY <2>1, <2>2, <2>3
<1> QED
  BY <1>1, <1>2, <1>3, <1>4, <1>5 DEF ConfigNext

LEMMA ArrayStep == LifecycleInv /\ ArrayNext => LifecycleInv'
<1> SUFFICES ASSUME LifecycleInv, ArrayNext PROVE LifecycleInv'
  OBVIOUS
<1>a. /\ Held(library, values, leaked, unclosed) /\ ContextKept(library, values)
      /\ library \in Libraries /\ \A v \in values : Shaped(v) /\ Holds(library, v)
  BY DEF LifecycleInv, Held
<1>b. {"ArrayOpener", "Schema", "SchemaEvolution", "Enumeration"} \subseteq
         ValueTypes \ (Contextless \cup {"Context", "Query", "SubarrayBuilder"})
      /\ {"array", "schema", "evolution", "enumeration"} \subseteq HandleKinds \ Referring
  BY DEF ValueTypes, Contextless, HandleKinds, Referring
<1>1. CASE opener_new
  <2>1. /\ thread = "running" /\ HasContext
        /\ CallFailed \/ Creates(Value("", <<>>, {}), "ArrayOpener", "array", {})
    BY <1>1, Zenon DEF opener_new, Room
  <2>2. CASE CallFailed
    BY <2>1, <2>2, FailsKeeps, Zenon
  <2>3. CASE Creates(Value("", <<>>, {}), "ArrayOpener", "array", {})
    <3>1. /\ "ArrayOpener" \in ValueTypes /\ "array" \in HandleKinds \ Referring
          /\ "ArrayOpener" \notin {"Context", "Query", "SubarrayBuilder"}
          /\ "ArrayOpener" \notin Contextless
      BY <1>b
    <3> QED
      BY <2>1, <2>3, <3>1, FreshCreatesKeeps, Zenon
  <2> QED
    BY <2>1, <2>2, <2>3, Zenon
<1>2. CASE opener_set
  <2>1. PICK v \in values : /\ v.type \in {"ArrayOpener", "ArrayReopener"} /\ thread = "running"
                            /\ FailsDropping(v) \/ Uses(v, "set")
    BY <1>2 DEF opener_set, Of
  <2>2. Unlent(values, v)
    BY <1>a, <2>1, UnlentByType
  <2> QED
    BY <2>1, <2>2, FailsDroppingKeeps, UsesKeeps
<1>3. CASE opener_open
  <2>1. PICK v \in values :
           /\ v.type \in {"ArrayOpener", "ArrayReopener"} /\ thread = "running"
           /\ \/ FailsDropping(v)
              \/ Becomes(v, "Array", v.handles, Calls(library, <<On("open", v.handles[1])>>))
    BY <1>3 DEF opener_open, Of
  <2>2. Unlent(values, v)
    BY <1>a, <2>1, UnlentByType
  <2>3. CASE FailsDropping(v)
    BY <2>1, <2>2, <2>3, FailsDroppingKeeps
  <2>4. CASE Becomes(v, "Array", v.handles, Calls(library, <<On("open", v.handles[1])>>))
    <3>1. PICK w : w = Value("Array", v.handles, {})
      OBVIOUS
    <3>2. /\ values' = (values \ {v}) \cup {w} /\ library' = Called(library, On("open", v.handles[1]))
          /\ UNCHANGED <<thread, leaked, unclosed, failures>>
      BY <2>4, <3>1, CallsOne DEF Becomes
    <3>3. Closes(v) /\ HoldsContext(v) /\ v.type # "Context" /\ v.borrows = {} /\ Shaped(v)
      BY <1>a, <2>1 DEF Closes, HoldsContext, Contextless, Shaped
    <3>4. v.handles[1] \in HandlesOf(v)
      BY <3>3, FirstHandle
    <3>5. library.context = "live"
      BY <1>a, <3>3, ContextOf DEF HoldsContext
    <3>6. Held(library', values, leaked, unclosed) /\ library'.context = library.context
      BY <1>a, <3>2, <3>3, <3>4, <3>5, CallKeeps
    <3>7. w.type = "Array" /\ w.handles = v.handles /\ w.borrows = {} /\ HandlesOf(w) = HandlesOf(v)
      BY <3>1 DEF Value, HandlesOf
    <3>8. Shaped(w)
      <4>1. Len(v.handles) = 1
        BY <2>1, <3>3 DEF Shaped
      <4> QED
        BY <3>1, <3>3, <3>7, <4>1, Handles DEF Shaped, Value, ValueTypes
    <3>9. Holds(library', w) /\ HoldsContext(w)
      <4>1. Holds(library', v)
        BY <3>6 DEF Held
      <4> QED
        BY <3>3, <3>7, <4>1 DEF Holds, Closes, HoldsContext, Contextless
    <3>10. leaked = (leaked \cup HandlesOf(v)) \ HandlesOf(w)
      BY <1>a, <3>7 DEF Held
    <3>11. Held(library', values', leaked, unclosed) /\ ContextKept(library', values')
      BY <2>2, <3>2, <3>3, <3>6, <3>7, <3>8, <3>9, <3>10, BecomesKeeps
    <3> QED
      BY <3>2, <3>11 DEF LifecycleInv, Unwound
  <2> QED
    BY <2>1, <2>3, <2>4
<1>4. CASE array_reopen
  <2>1. PICK v \in values : v.type = "Array" /\ Becomes(v, "ArrayReopener", v.handles, library)
    BY <1>4 DEF array_reopen, Of
  <2>2. Unlent(values, v)
    BY <1>a, <2>1, UnlentByType
  <2>3. PICK w : w = Value("ArrayReopener", v.handles, {})
    OBVIOUS
  <2>4. /\ values' = (values \ {v}) \cup {w} /\ library' = library
        /\ UNCHANGED <<thread, leaked, unclosed, failures>>
    BY <2>1, <2>3 DEF Becomes
  <2>5. /\ w.type = "ArrayReopener" /\ w.handles = v.handles /\ w.borrows = {}
        /\ HandlesOf(w) = HandlesOf(v)
    BY <2>3 DEF Value, HandlesOf
  <2>6. Shaped(w)
    BY <1>a, <2>1, <2>3, <2>5, Handles DEF Shaped, Value, ValueTypes
  <2>7. Holds(library, w) /\ HoldsContext(w) /\ HoldsContext(v)
    <3>1. Holds(library, v) /\ v.borrows = {}
      BY <1>a, <2>1 DEF Shaped
    <3> QED
      BY <2>1, <2>5, <3>1 DEF Holds, Closes, HoldsContext, Contextless
  <2>8. leaked = (leaked \cup HandlesOf(v)) \ HandlesOf(w)
    BY <1>a, <2>5 DEF Held
  <2>9. Held(library, values', leaked, unclosed) /\ ContextKept(library, values')
    BY <1>a, <2>2, <2>4, <2>5, <2>6, <2>7, <2>8, BecomesKeeps
  <2> QED
    BY <2>4, <2>9 DEF LifecycleInv, Unwound
<1>5. CASE array_metadata
  <2>1. PICK v \in values : v.type = "Array" /\ thread = "running" /\ (CallFailed \/ Uses(v, "metadata"))
    BY <1>5 DEF array_metadata, Of
  <2> QED
    BY <2>1, FailsKeeps, UsesKeeps
<1>6. CASE array_schema
  <2>1. PICK v \in values : /\ v.type = "Array" /\ thread = "running"
                            /\ CallFailed \/ Creates(v, "Schema", "schema", {})
    BY <1>6 DEF array_schema, Of
  <2>2. HasContext
    BY <2>1 DEF HasContext, HoldsContext, Contextless
  <2> QED
    BY <1>b, <2>1, <2>2, FailsKeeps, CreatesKeeps
<1>7. CASE get_enumeration
  <2>1. PICK v \in values : /\ v.type = "Array" /\ thread = "running"
                            /\ CallFailed \/ Creates(v, "Enumeration", "enumeration", {})
    BY <1>7 DEF get_enumeration, Of
  <2>2. HasContext
    BY <2>1 DEF HasContext, HoldsContext, Contextless
  <2> QED
    BY <1>b, <2>1, <2>2, FailsKeeps, CreatesKeeps
<1>8. CASE schema_builder_new
  <2>1. /\ thread = "running" /\ HasContext
        /\ CallFailed \/ Leaks("schema") \/ Creates(Value("", <<>>, {}), "Schema", "schema", {})
    BY <1>8, Zenon DEF schema_builder_new, Room
  <2>2. CASE CallFailed
    BY <2>1, <2>2, FailsKeeps, Zenon
  <2>3. CASE Leaks("schema")
    <3>1. "schema" \in HandleKinds
      BY <1>b
    <3> QED
      BY <2>1, <2>3, <3>1, LeaksKeeps, Zenon
  <2>4. CASE Creates(Value("", <<>>, {}), "Schema", "schema", {})
    <3>1. /\ "Schema" \in ValueTypes /\ "schema" \in HandleKinds \ Referring
          /\ "Schema" \notin {"Context", "Query", "SubarrayBuilder"}
          /\ "Schema" \notin Contextless
      BY <1>b
    <3> QED
      BY <2>1, <2>4, <3>1, FreshCreatesKeeps, Zenon
  <2> QED
    BY <2>1, <2>2, <2>3, <2>4, Zenon
<1>9. CASE evolution_new
  <2>1. /\ thread = "running" /\ HasContext
        /\ CallFailed \/ Creates(Value("", <<>>, {}), "SchemaEvolution", "evolution", {})
    BY <1>9, Zenon DEF evolution_new, Room
  <2>2. CASE CallFailed
    BY <2>1, <2>2, FailsKeeps, Zenon
  <2>3. CASE Creates(Value("", <<>>, {}), "SchemaEvolution", "evolution", {})
    <3>1. /\ "SchemaEvolution" \in ValueTypes /\ "evolution" \in HandleKinds \ Referring
          /\ "SchemaEvolution" \notin {"Context", "Query", "SubarrayBuilder"}
          /\ "SchemaEvolution" \notin Contextless
      BY <1>b
    <3> QED
      BY <2>1, <2>3, <3>1, FreshCreatesKeeps, Zenon
  <2> QED
    BY <2>1, <2>2, <2>3, Zenon
<1>10. CASE evolution_set
  <2>1. PICK v \in values : /\ v.type = "SchemaEvolution" /\ thread = "running"
                            /\ FailsDropping(v) \/ Uses(v, "set")
    BY <1>10 DEF evolution_set, Of
  <2>2. Unlent(values, v)
    BY <1>a, <2>1, UnlentByType
  <2> QED
    BY <2>1, <2>2, FailsDroppingKeeps, UsesKeeps
<1>11. CASE evolve
  <2>1. PICK v \in values :
           /\ v.type = "SchemaEvolution" /\ thread = "running"
           /\ \/ FailsDropping(v)
              \/ /\ values' = values \ {v}
                 /\ library' = Calls(library, <<On("evolve", v.handles[1])>> \o DropCalls(v))
                 /\ UNCHANGED <<thread, leaked, unclosed, failures>>
    BY <1>11 DEF evolve, Of
  <2>2. Unlent(values, v)
    BY <1>a, <2>1, UnlentByType
  <2>3. CASE FailsDropping(v)
    BY <2>1, <2>2, <2>3, FailsDroppingKeeps
  <2>4. CASE /\ values' = values \ {v}
             /\ library' = Calls(library, <<On("evolve", v.handles[1])>> \o DropCalls(v))
             /\ UNCHANGED <<thread, leaked, unclosed, failures>>
    <3>1. PICK h : h = v.handles[1] /\ h \in HandlesOf(v) /\ h \in Nat
      BY <1>a, <2>1, FirstHandle
    <3>2. FieldCalls(v) \in Seq(Ops) /\ DropCalls(v) = FieldCalls(v)
      BY <1>a, <2>1, FieldCallsAre DEF DropCalls, Closes
    <3>3. library.context = "live"
      BY <1>a, <2>1, ContextOf DEF Contextless
    <3>4. PICK u : u = Called(library, On("evolve", h))
      OBVIOUS
    <3>5. /\ Held(u, values, leaked, unclosed) /\ u.context = library.context /\ Like(library, u)
          /\ \A g \in DOMAIN library.handle : u.handle[g].open = library.handle[g].open
      BY <1>a, <3>1, <3>3, <3>4, CallKeeps
    <3>6. library' = Calls(u, FieldCalls(v))
      <4> DEFINE a == <<On("evolve", h)>>
      <4>1. On("evolve", h) \in Ops
        BY <3>1, OnIsOp DEF OpNames
      <4>2. a \in Seq(Ops) /\ Calls(library, a) = u
        BY <3>4, <4>1, CallsOne
      <4>3. library' = Calls(library, a \o FieldCalls(v))
        BY <2>4, <3>1, <3>2
      <4> HIDE DEF a
      <4> QED
        BY <3>2, <4>2, <4>3, CallsSplit
    <3>7. \A g \in HandlesOf(v) : u.handle[g].open => u.handle[g].kind = "fh"
      <4>1. Holds(u, v)
        BY <3>5 DEF Held
      <4> QED
        BY <2>1, <4>1 DEF Holds, Closes
    <3>8. ContextKept(u, values) /\ unclosed \in BOOLEAN
      BY <3>5 DEF ContextKept, LifecycleInv, Unwound
    <3>9. Held(library', values', leaked, unclosed) /\ ContextKept(library', values')
      BY <2>2, <2>4, <3>5, <3>6, <3>7, <3>8, FieldsKeep
    <3> QED
      BY <2>4, <3>9 DEF LifecycleInv, Unwound
  <2> QED
    BY <2>1, <2>3, <2>4
<1> QED
  BY <1>1, <1>2, <1>3, <1>4, <1>5, <1>6, <1>7, <1>8, <1>9, <1>10, <1>11 DEF ArrayNext

LEMMA CallsTwo ==
    ASSUME NEW s, NEW c \in Ops, NEW d \in Ops
    PROVE  Calls(s, <<c, d>>) = Called(Called(s, c), d)
<1> DEFINE q == <<c, d>>
<1>1. q \in Seq(Ops) /\ Len(q) = 2 /\ q[1] = c /\ q[2] = d
  OBVIOUS
<1> HIDE DEF q
<1>2. PICK f : /\ f[0] = s /\ Calls(s, q) = f[Len(q)]
               /\ \A i \in 1..Len(q) : f[i] = Called(f[i - 1], q[i])
  <2>1. \A e \in Seq(Ops) :
           \E f : /\ f[0] = s /\ Calls(s, e) = f[Len(e)]
                  /\ \A i \in 1..Len(e) : f[i] = Called(f[i - 1], e[i])
    BY CallsGo
  <2> QED
    BY <1>1, <2>1, Zenon
<1>3. f[1] = Called(f[0], c) /\ f[2] = Called(f[1], d)
  BY <1>1, <1>2
<1> QED
  BY <1>1, <1>2, <1>3 DEF q

\* An array gets its query, and a query the subarray it builds.
LEMMA GrowsKeeps ==
    ASSUME LifecycleInv, NEW v \in values, Unlent(values, v), NEW kind \in HandleKinds, NEW type,
           \/ v.type = "Array" /\ type = "Query"
           \/ v.type = "Query" /\ type = "SubarrayBuilder",
           Becomes(v, type, Append(v.handles, NewHandle), Allocated(kind))
    PROVE  LifecycleInv'
<1>1. /\ Held(library, values, leaked, unclosed) /\ library \in Libraries
      /\ Shaped(v) /\ Holds(library, v) /\ HandlesOf(v) \cap leaked = {}
      /\ leaked \subseteq DOMAIN library.handle
  BY DEF LifecycleInv, Held
<1>2. PICK n : n = Following(library)
  OBVIOUS
<1>3. PICK w : w = Value(type, Append(v.handles, n), {})
  OBVIOUS
<1>4. PICK t : t = Given(library, kind, {})
  OBVIOUS
<1>5. /\ values' = (values \ {v}) \cup {w} /\ library' = t
      /\ UNCHANGED <<thread, leaked, unclosed, failures>>
  BY <1>2, <1>3, <1>4 DEF Becomes, Allocated, AllocatedFrom, NewHandle, Following, Given
<1>6. /\ Held(t, values, leaked \cup {n}, unclosed) /\ t.context = library.context
      /\ n \in DOMAIN t.handle /\ n \notin DOMAIN library.handle /\ n \in Nat
      /\ t.handle[n].live /\ ~t.handle[n].open /\ t.handle[n].of = {}
  BY <1>1, <1>2, <1>4, GivenKeeps
<1>7. n \notin HandlesOf(v)
  BY <1>1, <1>6 DEF Holds
<1>8. PICK m \in Nat : /\ m = Len(v.handles) /\ DOMAIN v.handles = 1..m /\ m \in {1, 2}
                       /\ v.type = "Array" => m = 1
                       /\ v.type = "Query" => m = 2
  BY <1>1, Handles DEF Shaped
<1>9. PICK q : q = Append(v.handles, n)
  OBVIOUS
<1>10. /\ q \in Seq(Nat) /\ Len(q) = m + 1 /\ DOMAIN q = 1..(m + 1) /\ q[m + 1] = n
       /\ \A i \in 1..m : q[i] = v.handles[i]
  BY <1>1, <1>6, <1>8, <1>9, Handles, AppendProperties
<1>11. w.type = type /\ w.handles = q /\ w.borrows = {}
  BY <1>3, <1>9 DEF Value
<1>12. HandlesOf(w) = HandlesOf(v) \cup {n}
  <2>1. HandlesOf(w) = {q[i] : i \in 1..(m + 1)}
    BY <1>10, <1>11 DEF HandlesOf, ToSet
  <2>2. HandlesOf(v) = {v.handles[i] : i \in 1..m}
    BY <1>1, <1>8, Handles
  <2>3. \A i : i \in 1..(m + 1) <=> i \in 1..m \/ i = m + 1
    OBVIOUS
  <2> QED
    BY <1>10, <2>1, <2>2, <2>3
<1>13. Shaped(w)
  <2>1. w \in [type : ValueTypes, handles : Seq(Nat), borrows : SUBSET Nat]
    BY <1>3, <1>9, <1>10 DEF Value, ValueTypes
  <2>2. \A i, j \in DOMAIN q : q[i] = q[j] => i = j
    <3>1. SUFFICES ASSUME NEW i \in 1..(m + 1), NEW j \in 1..(m + 1), q[i] = q[j] PROVE i = j
      BY <1>10
    <3>2. \A k \in 1..m : v.handles[k] \in HandlesOf(v)
      BY <1>1, <1>8, Handles
    <3>3. CASE i \in 1..m /\ j \in 1..m
      <4>1. v.handles[i] = v.handles[j] /\ i \in DOMAIN v.handles /\ j \in DOMAIN v.handles
        BY <1>8, <1>10, <3>1, <3>3
      <4> QED
        BY <1>1, <4>1 DEF Shaped
    <3>4. CASE i = m + 1 /\ j = m + 1
      BY <3>4
    <3>5. CASE i \in 1..m /\ j = m + 1
      BY <1>7, <1>10, <3>1, <3>2, <3>5
    <3>6. CASE i = m + 1 /\ j \in 1..m
      BY <1>7, <1>10, <3>1, <3>2, <3>6
    <3> QED
      BY <3>3, <3>4, <3>5, <3>6
  <2>3. Len(w.handles) = m + 1
    BY <1>10, <1>11
  <2>4. /\ w.type \in {"Query", "SubarrayBuilder"}
        /\ w.type = "Query" => Len(w.handles) = 2
        /\ w.type = "SubarrayBuilder" => Len(w.handles) = 3
    <3>1. /\ w.type = type /\ m \in Nat
          /\ v.type = "Array" => m = 1
          /\ v.type = "Query" => m = 2
      BY <1>8, <1>11
    <3>2. \/ v.type = "Array" /\ type = "Query"
          \/ v.type = "Query" /\ type = "SubarrayBuilder"
      OBVIOUS
    <3> QED
      BY ONLY <2>3, <3>1, <3>2
  <2> QED
    BY <1>11, <2>1, <2>2, <2>4 DEF Shaped
<1>14. w.handles[1] = v.handles[1]
  BY <1>8, <1>10, <1>11
<1>15. Holds(t, w) /\ HoldsContext(w) /\ HoldsContext(v)
  <2>1. Holds(t, v) /\ v.borrows = {}
    BY <1>1, <1>6 DEF Held, Shaped
  <2> QED
    BY <1>6, <1>11, <1>12, <1>14, <2>1 DEF Holds, Closes, HoldsContext, Contextless
<1>16. leaked = ((leaked \cup {n}) \cup HandlesOf(v)) \ HandlesOf(w)
  BY <1>1, <1>6, <1>12
<1>17. HandlesOf(w) \subseteq HandlesOf(v) \cup (leaked \cup {n})
  BY <1>12
<1>18. Held(library', values', leaked, unclosed) /\ ContextKept(library', values')
  BY <1>5, <1>6, <1>11, <1>13, <1>15, <1>16, <1>17, BecomesKeeps
<1> QED
  BY <1>5, <1>18 DEF LifecycleInv, Unwound

\* The subarray of a builder goes, and the query of an array.
LEMMA ReducesKeeps ==
    ASSUME LifecycleInv, NEW v \in values, Unlent(values, v), NEW op \in OpNames \ {"free", "open"},
           NEW type, NEW m \in Nat, m = Len(v.handles) - 1,
           \/ v.type = "Query" /\ type = "Array"
           \/ v.type = "SubarrayBuilder" /\ type = "Query",
           NEW q \in Seq(Nat), Len(q) = m, \A i \in 1..m : q[i] = v.handles[i],
           NEW h, h = v.handles[m + 1],
           Becomes(v, type, q, Calls(library, <<On(op, v.handles[2]), On("free", h)>>))
    PROVE  LifecycleInv'
<1>1. /\ Held(library, values, leaked, unclosed) /\ library \in Libraries
      /\ ContextKept(library, values) /\ Shaped(v)
      /\ HandlesOf(v) \cap leaked = {}
  BY DEF LifecycleInv, Held
<1>2. PICK w : w = Value(type, q, {})
  OBVIOUS
<1>3. /\ m \in {1, 2} /\ DOMAIN v.handles = 1..(m + 1) /\ Len(v.handles) = m + 1
      /\ v.type = "Query" => m = 1
      /\ v.type = "SubarrayBuilder" => m = 2
  BY <1>1, Handles DEF Shaped
<1>4. v.handles[2] \in HandlesOf(v) /\ h \in HandlesOf(v)
      /\ \A i \in 1..m : v.handles[i] \in HandlesOf(v)
  <2>1. 2 \in 1..(m + 1) /\ m + 1 \in 1..(m + 1) /\ \A i \in 1..m : i \in 1..(m + 1)
    BY <1>3
  <2> QED
    BY <1>1, <1>3, <2>1, Handles
<1>5. PICK u : u = Called(library, On(op, v.handles[2]))
  OBVIOUS
<1>6. /\ values' = (values \ {v}) \cup {w} /\ library' = Called(u, On("free", h))
      /\ UNCHANGED <<thread, leaked, unclosed, failures>>
  <2>1. On(op, v.handles[2]) \in Ops /\ On("free", h) \in Ops
    <3>1. v.handles[2] \in Nat /\ h \in Nat
      BY <1>1, <1>4, Handles
    <3> QED
      BY <3>1, OnIsOp DEF OpNames
  <2> QED
    BY <1>2, <1>5, <2>1, CallsTwo DEF Becomes
<1>7. library.context = "live"
  BY <1>1, ContextOf DEF Contextless
<1>8. Held(u, values, leaked, unclosed) /\ u.context = library.context
  BY <1>1, <1>4, <1>5, <1>7, CallKeeps
<1>9. w.type = type /\ w.handles = q /\ w.borrows = {} /\ DOMAIN q = 1..m
  BY <1>2 DEF Value
<1>10. \A i, j \in 1..(m + 1) : v.handles[i] = v.handles[j] => i = j
  BY <1>1, <1>3 DEF Shaped
<1>11. HandlesOf(w) = HandlesOf(v) \ {h} /\ h # v.handles[1]
  <2>1. HandlesOf(w) = {q[i] : i \in 1..m}
    BY <1>9 DEF HandlesOf, ToSet
  <2>2. HandlesOf(v) = {v.handles[i] : i \in 1..(m + 1)}
    BY <1>1, <1>3, Handles
  <2>3. \A i : i \in 1..(m + 1) <=> i \in 1..m \/ i = m + 1
    OBVIOUS
  <2>4. m + 1 \notin 1..m /\ 1 \in 1..m
    BY <1>3
  <2>5. \A i \in 1..m : v.handles[i] # h
    BY <1>10, <2>3, <2>4
  <2> QED
    BY <2>1, <2>2, <2>3, <2>4, <2>5
<1>12. Shaped(w)
  <2>1. w \in [type : ValueTypes, handles : Seq(Nat), borrows : SUBSET Nat]
    BY <1>2 DEF Value, ValueTypes
  <2>2. \A i, j \in DOMAIN q : q[i] = q[j] => i = j
    <3>1. \A i \in 1..m : i \in 1..(m + 1)
      OBVIOUS
    <3> QED
      BY <1>9, <1>10, <3>1
  <2> QED
    BY <1>3, <1>9, <2>1, <2>2 DEF Shaped
<1>13. w.handles[1] = v.handles[1]
  BY <1>3, <1>9
<1>14. Holds(u, w) /\ HoldsContext(w) /\ HoldsContext(v)
  <2>1. Holds(u, v) /\ v.borrows = {}
    BY <1>1, <1>8 DEF Held, Shaped
  <2> QED
    BY <1>9, <1>11, <1>13, <2>1 DEF Holds, Closes, HoldsContext, Contextless
<1>15. leaked \cup {h} = (leaked \cup HandlesOf(v)) \ HandlesOf(w)
  BY <1>1, <1>4, <1>11
<1>16. HandlesOf(w) \subseteq HandlesOf(v) \cup leaked
  BY <1>11
<1>17. Held(u, values', leaked \cup {h}, unclosed) /\ ContextKept(u, values')
  <2>1. LifecycleInv /\ Unlent(values, v)
    OBVIOUS
  <2>2. w.borrows = {} /\ values' = (values \ {v}) \cup {w}
    BY <1>6, <1>9
  <2> QED
    BY ONLY <1>8, <1>12, <1>14, <1>15, <1>16, <2>1, <2>2, BecomesKeeps
<1>18. u.handle[h].live /\ (u.handle[h].open => u.handle[h].kind = "fh")
  <2>1. Holds(u, v)
    BY <1>8 DEF Held
  <2> QED
    BY <1>4, <1>11, <2>1 DEF Holds
<1>19. Held(library', values', leaked, unclosed) /\ library'.context = u.context
  <2>1. PICK lost : lost = leaked \cup {h}
    OBVIOUS
  <2>2. lost \ {h} = leaked
    BY <1>1, <1>4, <2>1
  <2>3. Held(library', values', lost \ {h}, unclosed) /\ library'.context = u.context
    <3>1. /\ u.handle[h].live
          /\ u.handle[h].open => u.handle[h].kind = "fh"
      BY <1>18
    <3>2. Held(u, values', lost, unclosed) /\ library' = Called(u, On("free", h)) /\ h \in lost
      BY <1>6, <1>17, <2>1
    <3> QED
      BY ONLY <3>1, <3>2, FreeLostKeeps, Z3
  <2> QED
    BY <2>2, <2>3
<1>20. ContextKept(library', values')
  BY <1>17, <1>19 DEF ContextKept
<1> QED
  BY <1>6, <1>19, <1>20 DEF LifecycleInv, Unwound

LEMMA QueryStep == LifecycleInv /\ QueryNext => LifecycleInv'
<1> SUFFICES ASSUME LifecycleInv, QueryNext PROVE LifecycleInv'
  OBVIOUS
<1>a. /\ Held(library, values, leaked, unclosed) /\ \A v \in values : Shaped(v)
      /\ \A v \in values : Movable(v) => Unlent(values, v)
  BY DEF LifecycleInv, Held, Movable, Unlent, HandlesOf
<1>1. CASE builder_new
  <2>1. PICK v \in values :
           /\ v.type = "Array" /\ thread = "running" /\ Movable(v)
           /\ \/ FailsDropping(v)
              \/ Becomes(v, "Query", Append(v.handles, NewHandle), Allocated("query"))
    BY <1>1 DEF builder_new, Of
  <2>2. CASE FailsDropping(v)
    BY <1>a, <2>1, <2>2, FailsDroppingKeeps
  <2>3. CASE Becomes(v, "Query", Append(v.handles, NewHandle), Allocated("query"))
    BY <1>a, <2>1, <2>3, GrowsKeeps DEF HandleKinds
  <2> QED
    BY <2>1, <2>2, <2>3
<1>2. CASE query_set
  <2>1. PICK v \in values : /\ v.type \in {"Query", "SubarrayBuilder"} /\ thread = "running"
                            /\ Movable(v) /\ (FailsDropping(v) \/ Uses(v, "set"))
    BY <1>2 DEF query_set, Of
  <2> QED
    BY <1>a, <2>1, FailsDroppingKeeps, UsesKeeps
<1>3. CASE query_subarray
  <2>1. PICK v \in values :
           /\ v.type = "Query" /\ thread = "running"
           /\ CallFailed \/ Leaks("subarray") \/ Creates(v, "Subarray", "subarray", HandlesOf(v))
    BY <1>3 DEF query_subarray, Of, HandlesOf
  <2>2. CASE CallFailed
    BY <2>1, <2>2, FailsKeeps
  <2>3. CASE Leaks("subarray")
    BY <2>1, <2>3, LeaksKeeps DEF HandleKinds
  <2>4. CASE Creates(v, "Subarray", "subarray", HandlesOf(v))
    <3>1. HasContext
      BY <2>1 DEF HasContext, HoldsContext, Contextless
    <3> QED
      BY <2>1, <2>4, <3>1, CreatesKeeps DEF ValueTypes, HandleKinds, Contextless
  <2> QED
    BY <2>1, <2>2, <2>3, <2>4
<1>4. CASE subarray_ranges
  <2>1. PICK v \in values : v.type = "Subarray" /\ thread = "running" /\ (CallFailed \/ Uses(v, "ranges"))
    BY <1>4 DEF subarray_ranges, Of
  <2> QED
    BY <2>1, FailsKeeps, UsesKeeps
<1>5. CASE start_subarray
  <2>1. PICK v \in values :
           /\ v.type = "Query" /\ thread = "running" /\ Movable(v)
           /\ \/ FailsDropping(v)
              \/ Becomes(v, "SubarrayBuilder", Append(v.handles, NewHandle), Allocated("subarray"))
    BY <1>5 DEF start_subarray, Of
  <2>2. CASE FailsDropping(v)
    BY <1>a, <2>1, <2>2, FailsDroppingKeeps
  <2>3. CASE Becomes(v, "SubarrayBuilder", Append(v.handles, NewHandle), Allocated("subarray"))
    BY <1>a, <2>1, <2>3, GrowsKeeps DEF HandleKinds
  <2> QED
    BY <2>1, <2>2, <2>3
<1>6. CASE finish_subarray
  <2>1. PICK v \in values :
           /\ v.type = "SubarrayBuilder" /\ thread = "running"
           /\ \/ FailsDropping(v)
              \/ Becomes(v, "Query", Front(v.handles),
                         Calls(library, <<On("set", v.handles[2]), On("free", Last(v.handles))>>))
    BY <1>6 DEF finish_subarray, Of
  <2>2. Unlent(values, v)
    BY <1>a, <2>1, UnlentByType
  <2>3. CASE FailsDropping(v)
    BY <2>1, <2>2, <2>3, FailsDroppingKeeps
  <2>4. CASE Becomes(v, "Query", Front(v.handles),
                     Calls(library, <<On("set", v.handles[2]), On("free", Last(v.handles))>>))
    <3>1. PICK q : q = Front(v.handles)
      OBVIOUS
    <3>2. /\ q \in Seq(Nat) /\ Len(q) = 2 /\ \A i \in 1..2 : q[i] = v.handles[i]
      <4>1. v.handles \in Seq(Nat) /\ Len(v.handles) = 3
        BY <1>a, <2>1, Handles DEF Shaped
      <4> QED
        BY <3>1, <4>1 DEF Front
    <3>3. Last(v.handles) = v.handles[2 + 1] /\ 2 = Len(v.handles) - 1
      BY <1>a, <2>1 DEF Shaped, Last
    <3>4. "set" \in OpNames \ {"free", "open"}
      BY DEF OpNames
    <3>5. Becomes(v, "Query", q,
                  Calls(library, <<On("set", v.handles[2]), On("free", v.handles[2 + 1])>>))
      BY <2>4, <3>1, <3>3
    <3> QED
      BY <2>1, <2>2, <3>2, <3>3, <3>4, <3>5, ReducesKeeps
  <2> QED
    BY <2>1, <2>3, <2>4
<1>7. CASE finalize
  <2>1. PICK v \in values :
           /\ v.type = "Query" /\ thread = "running" /\ Movable(v)
           /\ \/ FailsDropping(v)
              \/ Becomes(v, "Array", <<v.handles[1]>>,
                         Calls(library, <<On("finalize", v.handles[2]), On("free", v.handles[2])>>))
    BY <1>7 DEF finalize, Of
  <2>2. CASE FailsDropping(v)
    BY <1>a, <2>1, <2>2, FailsDroppingKeeps
  <2>3. CASE Becomes(v, "Array", <<v.handles[1]>>,
                     Calls(library, <<On("finalize", v.handles[2]), On("free", v.handles[2])>>))
    <3>1. PICK q : q = <<v.handles[1]>>
      OBVIOUS
    <3>2. v.handles \in Seq(Nat) /\ Len(v.handles) = 2
      BY <1>a, <2>1, Handles DEF Shaped
    <3>3. q \in Seq(Nat) /\ Len(q) = 1 /\ \A i \in 1..1 : q[i] = v.handles[i]
      BY <3>1, <3>2
    <3>4. "finalize" \in OpNames \ {"free", "open"} /\ 1 = Len(v.handles) - 1
      BY <3>2 DEF OpNames
    <3>5. Becomes(v, "Array", q,
                  Calls(library, <<On("finalize", v.handles[2]), On("free", v.handles[1 + 1])>>))
      BY <2>3, <3>1
    <3> QED
      BY <1>a, <2>1, <3>3, <3>4, <3>5, ReducesKeeps
  <2> QED
    BY <2>1, <2>2, <2>3
<1> QED
  BY <1>1, <1>2, <1>3, <1>4, <1>5, <1>6, <1>7 DEF QueryNext

LEMMA GroupOpens ==
    ASSUME LifecycleInv, group_open
    PROVE  LifecycleInv'
<1>1. /\ Held(library, values, leaked, unclosed) /\ ContextKept(library, values)
      /\ library \in Libraries /\ unclosed \in BOOLEAN /\ failures \in Nat
  BY DEF LifecycleInv, Held, Unwound
<1>2. PICK n : n = Following(library) /\ n = NewHandle
  BY DEF Following, NewHandle
<1>3. PICK w : w = Value("Group", <<n>>, {})
  OBVIOUS
<1>4. PICK t : t = Given(library, "group", {}) /\ t = Allocated("group")
  BY DEF Given, Allocated, AllocatedFrom
<1>5. /\ Held(t, values \cup {w}, leaked, unclosed) /\ t.context = library.context
      /\ w \notin values /\ n \in Nat /\ HandlesOf(w) = {n} /\ w.type = "Group"
      /\ w.borrows = {} /\ w.handles = <<n>> /\ ~t.handle[n].open
  <2>1. Fits("Group", "group", {}) /\ Borrowable(values, {}, {})
    BY DEF Fits, Borrowable, HandleKinds, ValueTypes, Contextless
  <2>2. /\ Held(library, values, leaked, unclosed) /\ n = Following(library)
        /\ t = Given(library, "group", {}) /\ w = Value("Group", <<n>>, {})
    BY <1>1, <1>2, <1>3, <1>4
  <2> QED
    BY ONLY <2>1, <2>2, GivenOwner
<1>6. thread = "running" /\ HasContext /\ library.context = "live"
  <2>1. thread = "running" /\ HasContext
    BY DEF group_open, Room
  <2> QED
    BY <1>1, <2>1, ContextOf DEF HasContext, HoldsContext
<1>7. PICK vs : vs = values \cup {w} /\ w \in vs /\ vs \ {w} = values
  BY <1>5
<1>8. Closes(w) /\ w.handles[1] = n /\ n \in HandlesOf(w)
  BY <1>5 DEF Closes
<1>9. PICK o : o = Called(t, On("open", n))
  OBVIOUS
<1>10. Held(o, vs, leaked, unclosed) /\ o.context = "live"
  BY <1>5, <1>6, <1>7, <1>8, <1>9, CallKeeps
<1>11. On("open", n) \in Ops /\ On("free", n) \in Ops /\ On("is_open", n) \in Ops
  BY <1>5, OnIsOp DEF OpNames
<1>12. CASE CallFailed
  BY <1>6, <1>12, FailsKeeps
<1>13. CASE Leaks("group")
  BY <1>6, <1>13, LeaksKeeps DEF HandleKinds
<1>14. ASSUME NEW opened \in BOOLEAN,
              CallFails(Calls(t, (IF opened THEN <<On("open", n)>> ELSE <<>>) \o <<On("free", n)>>)),
              unclosed' = (unclosed \/ opened), UNCHANGED leaked
       PROVE  LifecycleInv'
  <2>1. /\ library' = Calls(t, (IF opened THEN <<On("open", n)>> ELSE <<>>) \o <<On("free", n)>>)
        /\ values' = values /\ failures' = failures + 1 /\ thread' \in {"running", "unwinding"}
    BY <1>14 DEF CallFails
  <2>2. PICK u : u = IF opened THEN o ELSE t
    OBVIOUS
  <2>3. library' = Called(u, On("free", n))
    <3>1. CASE opened
      <4>a. PICK a, b : a = <<On("open", n)>> /\ b = <<On("free", n)>>
        OBVIOUS
      <4>1. a \in Seq(Ops) /\ b \in Seq(Ops)
        BY <1>11, <4>a
      <4>2. library' = Calls(t, a \o b)
        BY <2>1, <3>1, <4>a
      <4>3. Calls(t, a) = o /\ Calls(o, b) = Called(o, On("free", n))
        BY <1>9, <4>a, CallsOne
      <4>4. Calls(t, a \o b) = Calls(Calls(t, a), b)
        BY <4>1, CallsSplit
      <4> QED
        BY <2>2, <3>1, <4>2, <4>3, <4>4
    <3>2. CASE ~opened
      <4>1. <<>> \o <<On("free", n)>> = <<On("free", n)>>
        OBVIOUS
      <4> QED
        BY <2>1, <2>2, <3>2, <4>1, CallsOne
    <3> QED
      BY <3>1, <3>2
  <2>4. Held(u, vs, leaked, unclosed) /\ u.context = "live"
    BY <1>5, <1>6, <1>7, <1>10, <2>2
  <2>5. Frees(w) = <<On("free", n)>>
    BY <1>5 DEF Frees
  <2>6. library' = Calls(u, Frees(w))
    BY <2>3, <2>5, CallsOne
  <2>7. Unlent(vs, w)
    BY <1>5, <1>7, <2>4, UnlentByType
  <2>8. PICK now \in BOOLEAN : now = unclosed'
    BY <1>1, <1>14
  <2>9. /\ unclosed => now
        /\ \A h \in HandlesOf(w) : u.handle[h].open => now \/ u.handle[h].kind = "fh"
    BY <1>5, <1>14, <2>2, <2>8
  <2>10. Held(library', vs \ {w}, leaked, now) /\ library'.context = u.context
    BY <1>1, <1>7, <2>4, <2>6, <2>7, <2>9, DropKeeps
  <2>11. Held(library', values', leaked', unclosed') /\ ContextKept(library', values')
    BY <1>1, <1>6, <1>7, <1>14, <2>1, <2>4, <2>8, <2>10 DEF ContextKept
  <2>12. Unwound'
    BY <1>1, <2>1, <2>8 DEF Unwound
  <2> QED
    BY <2>11, <2>12 DEF LifecycleInv
<1>15. CASE /\ library' = Calls(t, <<On("open", n), On("is_open", n)>>)
            /\ values' = values \cup {w}
            /\ UNCHANGED <<thread, leaked, unclosed, failures>>
  <2>1. library' = Called(o, On("is_open", n))
    BY <1>9, <1>11, <1>15, CallsTwo
  <2>2. Held(library', vs, leaked, unclosed) /\ library'.context = o.context
    BY <1>7, <1>8, <1>10, <2>1, CallKeeps
  <2>3. ContextKept(library', values')
    BY <1>5, <1>10, <1>15, <2>2 DEF ContextKept, HoldsContext, Contextless
  <2> QED
    BY <1>7, <1>15, <2>2, <2>3 DEF LifecycleInv, Unwound
<1> QED
  BY <1>2, <1>3, <1>4, <1>12, <1>13, <1>14, <1>15 DEF group_open

LEMMA GroupDeleted ==
    ASSUME LifecycleInv, delete_group
    PROVE  LifecycleInv'
<1>1. /\ Held(library, values, leaked, unclosed) /\ ContextKept(library, values)
      /\ library \in Libraries /\ unclosed \in BOOLEAN
  BY DEF LifecycleInv, Held, Unwound
<1>2. PICK v \in values :
         /\ v.type = "Group" /\ thread = "running"
         /\ \/ FailsDropping(v)
            \/ /\ values' = values \ {v}
               /\ \E closed \in BOOLEAN :
                     LET h == v.handles[1]
                         after == Calls(library, IF closed THEN <<On("delete", h), On("close", h)>>
                                                 ELSE <<On("delete", h)>>)
                     IN  library' = Calls(after, Closing(after, h) \o FieldCalls(v))
               /\ UNCHANGED <<thread, leaked, unclosed, failures>>
  BY DEF delete_group, Of, Closing
<1>3. Unlent(values, v)
  BY <1>1, <1>2, UnlentByType
<1>4. CASE FailsDropping(v)
  BY <1>2, <1>3, <1>4, FailsDroppingKeeps
<1>5. CASE ~FailsDropping(v)
  <2>1. values' = values \ {v} /\ UNCHANGED <<thread, leaked, unclosed, failures>>
    BY <1>2, <1>5
  <2>2. Shaped(v) /\ Closes(v)
    BY <1>1, <1>2 DEF Held, Closes
  <2>3. PICK h : h = v.handles[1] /\ h \in HandlesOf(v) /\ h \in Nat
    BY <1>2, <2>2, FirstHandle
  <2>a. PICK closed \in BOOLEAN : \E after :
           /\ after = Calls(library, IF closed THEN <<On("delete", h), On("close", h)>>
                                     ELSE <<On("delete", h)>>)
           /\ library' = Calls(after, Closing(after, h) \o FieldCalls(v))
    BY <1>2, <1>5, <2>3
  <2>4. PICK after :
           /\ after = Calls(library, IF closed THEN <<On("delete", h), On("close", h)>>
                                     ELSE <<On("delete", h)>>)
           /\ library' = Calls(after, Closing(after, h) \o FieldCalls(v))
    BY <2>a
  <2>5. library.context = "live"
    BY <1>1, <1>2, ContextOf DEF Contextless
  <2>6. PICK d : d = Called(library, On("delete", h))
    OBVIOUS
  <2>7. Held(d, values, leaked, unclosed) /\ d.context = "live"
    BY <1>1, <2>3, <2>5, <2>6, CallKeeps
  <2>8. Held(after, values, leaked, unclosed) /\ after.context = "live"
    <3>1. CASE closed
      <4>1. On("delete", h) \in Ops /\ On("close", h) \in Ops
        BY <2>3, OnIsOp DEF OpNames
      <4>2. after = Called(d, On("close", h))
        BY <2>4, <2>6, <3>1, <4>1, CallsTwo
      <4>3. Held(after, values, leaked, unclosed) /\ after.context = d.context
        BY <2>3, <2>7, <4>2, CallKeeps
      <4> QED
        BY <2>7, <4>3
    <3>2. CASE ~closed
      <4>1. after = d
        BY <2>4, <2>6, <3>2, CallsOne
      <4> QED
        BY <2>7, <4>1
    <3> QED
      BY <3>1, <3>2
  <2>9. PICK u : u = Calls(after, Closing(after, h))
    OBVIOUS
  <2>10. /\ Held(u, values, leaked, unclosed) /\ u.context = after.context
         /\ Closing(after, h) \in Seq(Ops)
         /\ \A g \in HandlesOf(v) : u.handle[g].open => u.handle[g].kind = "fh"
    BY <2>2, <2>3, <2>8, <2>9, ClosingKeeps
  <2>11. library' = Calls(u, FieldCalls(v))
    <3>1. FieldCalls(v) \in Seq(Ops)
      BY <2>2, FieldCallsAre
    <3> QED
      BY <2>4, <2>9, <2>10, <3>1, CallsSplit
  <2>12. ContextKept(u, values) /\ u.context = library.context
    BY <1>1, <2>5, <2>8, <2>10 DEF ContextKept
  <2>13. Held(library', values \ {v}, leaked, unclosed) /\ ContextKept(library', values \ {v})
    BY <1>1, <1>3, <2>10, <2>11, <2>12, FieldsKeep
  <2> QED
    BY <2>1, <2>13 DEF LifecycleInv, Unwound
<1> QED
  BY <1>4, <1>5

LEMMA GroupStep == LifecycleInv /\ GroupNext => LifecycleInv'
<1> SUFFICES ASSUME LifecycleInv, GroupNext PROVE LifecycleInv'
  OBVIOUS
<1>1. CASE group_open
  BY <1>1, GroupOpens
<1>2. CASE group_metadata
  <2>1. PICK v \in values : v.type = "Group" /\ thread = "running" /\ (CallFailed \/ Uses(v, "metadata"))
    BY <1>2 DEF group_metadata, Of
  <2> QED
    BY <2>1, FailsKeeps, UsesKeeps
<1>3. CASE group_member
  <2>1. PICK v \in values : /\ v.type = "Group" /\ thread = "running"
                            /\ CallFailed \/ Leaks("string") \/ Uses(v, "member")
    BY <1>3 DEF group_member, Of
  <2> QED
    BY <2>1, FailsKeeps, LeaksKeeps, UsesKeeps DEF HandleKinds
<1>4. CASE delete_group
  BY <1>4, GroupDeleted
<1> QED
  BY <1>1, <1>2, <1>3, <1>4 DEF GroupNext

LEMMA FileOpens ==
    ASSUME LifecycleInv, vfs_open
    PROVE  LifecycleInv'
<1>1. /\ Held(library, values, leaked, unclosed) /\ ContextKept(library, values)
      /\ library \in Libraries
  BY DEF LifecycleInv, Held
<1>2. PICK n : n = Following(library) /\ n = NewHandle
  BY DEF Following, NewHandle
<1>3. PICK w : w = Value("VFSHandle", <<n>>, {})
  OBVIOUS
<1>4. PICK t : t = Given(library, "fh", {}) /\ t = Allocated("fh")
  BY DEF Given, Allocated, AllocatedFrom
<1>5. PICK v \in values :
         /\ v.type = "VFS" /\ thread = "running"
         /\ \/ CallFailed
            \/ /\ library' = Calls(t, <<On("get", v.handles[1]), On("open", n)>>)
               /\ values' = values \cup {w}
               /\ UNCHANGED <<thread, leaked, unclosed, failures>>
  BY <1>2, <1>3, <1>4 DEF vfs_open, Of
<1>6. CASE CallFailed
  BY <1>5, <1>6, FailsKeeps
<1>7. CASE ~CallFailed
  <2>1. /\ library' = Calls(t, <<On("get", v.handles[1]), On("open", n)>>)
        /\ values' = values \cup {w}
        /\ UNCHANGED <<thread, leaked, unclosed, failures>>
    BY <1>5, <1>7
  <2>2. /\ Held(t, values \cup {w}, leaked, unclosed) /\ t.context = library.context
        /\ w \notin values /\ n \in Nat /\ HandlesOf(w) = {n} /\ w.type = "VFSHandle"
        /\ t.handle[n].kind = "fh"
    <3>1. Fits("VFSHandle", "fh", {}) /\ Borrowable(values, {}, {})
      BY DEF Fits, Borrowable, HandleKinds, ValueTypes, Contextless
    <3>2. /\ Held(library, values, leaked, unclosed) /\ n = Following(library)
          /\ t = Given(library, "fh", {}) /\ w = Value("VFSHandle", <<n>>, {})
      BY <1>1, <1>2, <1>3, <1>4
    <3> QED
      BY ONLY <3>1, <3>2, GivenOwner
  <2>3. v.handles[1] \in HandlesOf(v) /\ v.handles[1] \in Nat
    BY <1>1, <1>5, FirstHandle DEF Held
  <2>4. library.context = "live"
    BY <1>1, <1>5, ContextOf DEF Contextless
  <2>a. PICK vs : vs = values \cup {w}
    OBVIOUS
  <2>5. vs = values \cup {w} /\ v \in vs /\ w \in vs
    BY <2>a
  <2>6. PICK u : u = Called(t, On("get", v.handles[1]))
    OBVIOUS
  <2>7. Held(u, vs, leaked, unclosed) /\ u.context = t.context /\ Like(t, u)
    BY <2>2, <2>3, <2>4, <2>5, <2>6, CallKeeps
  <2>8. library' = Called(u, On("open", n))
    <3>1. On("get", v.handles[1]) \in Ops /\ On("open", n) \in Ops
      BY <2>2, <2>3, OnIsOp DEF OpNames
    <3> QED
      BY <2>1, <2>6, <3>1, CallsTwo
  <2>9. u.handle[n].kind = "fh" /\ n \in HandlesOf(w)
    BY <2>2, <2>5, <2>7 DEF Held, Holds, Like
  <2>10. Held(library', vs, leaked, unclosed) /\ library'.context = u.context
    BY <2>2, <2>4, <2>5, <2>7, <2>8, <2>9, CallKeeps
  <2>11. ContextKept(library', values')
    <3>1. library'.context = "live" /\ HoldsContext(v) /\ v \in values'
      BY <1>5, <2>1, <2>2, <2>4, <2>7, <2>10 DEF HoldsContext, Contextless
    <3> QED
      BY <3>1 DEF ContextKept
  <2> QED
    BY <2>1, <2>5, <2>10, <2>11 DEF LifecycleInv, Unwound
<1> QED
  BY <1>6, <1>7

LEMMA FileStep == LifecycleInv /\ FileNext => LifecycleInv'
<1> SUFFICES ASSUME LifecycleInv, FileNext PROVE LifecycleInv'
  OBVIOUS
<1>1. CASE vfs_new
  <2>1. PICK v \in values : /\ v.type = "Config" /\ thread = "running" /\ HasContext
                            /\ CallFailed \/ Creates(v, "VFS", "vfs", {})
    BY <1>1 DEF vfs_new, Room, Of
  <2>2. CASE CallFailed
    BY <2>1, <2>2, FailsKeeps
  <2>3. CASE Creates(v, "VFS", "vfs", {})
    BY <2>1, <2>3, CreatesKeeps DEF ValueTypes, HandleKinds, Contextless, Referring
  <2> QED
    BY <2>1, <2>2, <2>3
<1>2. CASE vfs_call
  <2>1. PICK v \in values : v.type = "VFS" /\ thread = "running" /\ (CallFailed \/ Uses(v, "vfs"))
    BY <1>2 DEF vfs_call, Of
  <2> QED
    BY <2>1, FailsKeeps, UsesKeeps
<1>3. CASE vfs_open
  BY <1>3, FileOpens
<1>4. CASE handle_call
  <2>1. PICK v \in values, op \in {"close", "read", "write", "sync"} :
           v.type = "VFSHandle" /\ thread = "running" /\ (CallFailed \/ Uses(v, op))
    BY <1>4 DEF handle_call, Of
  <2> QED
    BY <2>1, FailsKeeps, UsesKeeps
<1>5. CASE fragment_info
  <2>1. /\ thread = "running" /\ HasContext
        /\ \/ CallFailed
           \/ CallFails(Calls(Allocated("fragment_info"), <<On("free", NewHandle)>>))
              /\ UNCHANGED <<leaked, unclosed>>
           \/ Creates(Value("", <<>>, {}), "FragmentInfoList", "fragment_info", {})
    BY <1>5, Zenon DEF fragment_info, Room
  <2>2. CASE CallFailed
    BY <2>1, <2>2, FailsKeeps, Zenon
  <2>3. ASSUME CallFails(Calls(Allocated("fragment_info"), <<On("free", NewHandle)>>)),
               UNCHANGED <<leaked, unclosed>>, thread = "running"
        PROVE  LifecycleInv'
    <3>1. /\ Held(library, values, leaked, unclosed) /\ ContextKept(library, values)
          /\ failures \in Nat
      BY ONLY LifecycleInv DEF LifecycleInv, Unwound
    <3>2. PICK n : n = Following(library) /\ n = NewHandle
      BY ONLY TRUE DEF Following, NewHandle
    <3>3. PICK t : t = Given(library, "fragment_info", {}) /\ t = Allocated("fragment_info")
      BY ONLY TRUE DEF Given, Allocated, AllocatedFrom
    <3>4. /\ library' = Called(t, On("free", n))
          /\ values' = values /\ failures' = failures + 1 /\ thread' \in {"running", "unwinding"}
          /\ leaked' = leaked /\ unclosed' = unclosed
      BY ONLY <2>3, <3>2, <3>3, CallsOne DEF CallFails
    <3>5. /\ Held(t, values, leaked \cup {n}, unclosed) /\ t.context = library.context
          /\ n \notin DOMAIN library.handle /\ t.handle[n].live /\ ~t.handle[n].open
      <4>1. "fragment_info" \in HandleKinds /\ {} \in SUBSET Nat
        BY ONLY TRUE DEF HandleKinds
      <4>2. /\ Held(library, values, leaked, unclosed) /\ n = Following(library)
            /\ t = Given(library, "fragment_info", {})
        BY ONLY <3>1, <3>2, <3>3
      <4> QED
        BY ONLY <4>1, <4>2, GivenKeeps
    <3>6. PICK lost : lost = leaked \cup {n}
      BY ONLY TRUE
    <3>7. lost \ {n} = leaked
      BY ONLY <3>1, <3>5, <3>6 DEF Held
    <3>8. Held(t, values, lost, unclosed) /\ n \in lost
      BY ONLY <3>5, <3>6
    <3>9. Held(library', values, lost \ {n}, unclosed) /\ library'.context = t.context
      BY ONLY <3>4, <3>5, <3>8, FreeLostKeeps
    <3>10. ContextKept(library', values')
      BY ONLY <3>1, <3>4, <3>5, <3>9 DEF ContextKept
    <3>11. Unwound /\ Unwound'
      BY ONLY LifecycleInv, <3>4 DEF LifecycleInv, Unwound
    <3> QED
      BY ONLY <3>4, <3>7, <3>9, <3>10, <3>11 DEF LifecycleInv
  <2>4. CASE Creates(Value("", <<>>, {}), "FragmentInfoList", "fragment_info", {})
    <3>1. /\ "FragmentInfoList" \in ValueTypes /\ "fragment_info" \in HandleKinds \ Referring
          /\ "FragmentInfoList" \notin {"Context", "Query", "SubarrayBuilder"}
          /\ "FragmentInfoList" \notin Contextless
      BY ONLY TRUE DEF ValueTypes, HandleKinds, Referring, Contextless
    <3> QED
      BY <2>1, <2>4, <3>1, FreshCreatesKeeps, Zenon
  <2> QED
    BY <2>1, <2>2, <2>3, <2>4, Zenon
<1> QED
  BY <1>1, <1>2, <1>3, <1>4, <1>5 DEF FileNext
-----------------------------------------------------------------------------
(***************************************************************************)
(* The theorem.                                                            *)
(***************************************************************************)
LEMMA LifecycleInitially == LifecycleInit => LifecycleInv
<1> SUFFICES ASSUME LifecycleInit PROVE LifecycleInv
  OBVIOUS
<1>1. PICK c : c = Value("Context", <<>>, {})
  OBVIOUS
<1>2. /\ library = [context |-> "live", handle |-> <<>>, misused |-> FALSE] /\ values = {c}
      /\ thread = "running" /\ leaked = {} /\ unclosed = FALSE /\ failures = 0
  BY <1>1 DEF LifecycleInit
<1>3. c.type = "Context" /\ c.handles = <<>> /\ c.borrows = {} /\ HandlesOf(c) = {}
  BY <1>1 DEF Value, HandlesOf, ToSet
<1>4. Shaped(c)
  BY <1>1, <1>3 DEF Shaped, Value, ValueTypes
<1>5. library \in Libraries /\ DOMAIN library.handle = {} /\ library.context = "live"
      /\ ~library.misused
  BY <1>2 DEF Libraries
<1>6. Held(library, values, leaked, unclosed)
  BY <1>2, <1>3, <1>4, <1>5 DEF Held, Holds, Lent
<1>7. ContextKept(library, values)
  BY <1>2, <1>3, <1>5 DEF ContextKept, HoldsContext, Contextless
<1>8. Unwound
  BY <1>2 DEF Unwound
<1> QED
  BY <1>6, <1>7, <1>8 DEF LifecycleInv

LEMMA LifecycleStep == LifecycleInv /\ [LifecycleNext]_lifecycleVars => LifecycleInv'
<1> SUFFICES ASSUME LifecycleInv, [LifecycleNext]_lifecycleVars PROVE LifecycleInv'
  OBVIOUS
<1>1. CASE LifecycleNext
  BY <1>1, DropValueKeeps, ConfigStep, ArrayStep, QueryStep, GroupStep, FileStep DEF LifecycleNext
<1>2. CASE UNCHANGED lifecycleVars
  BY <1>2 DEF LifecycleInv, Unwound, ContextKept, lifecycleVars
<1> QED
  BY <1>1, <1>2

\* A live handle has the one owner the invariant gives it.
LEMMA FreedOnce == LifecycleInv => HandlesFreedOnce
<1> SUFFICES ASSUME LifecycleInv PROVE HandlesFreedOnce
  OBVIOUS
<1>1. /\ Held(library, values, leaked, unclosed) /\ ContextKept(library, values) /\ Unwound
      /\ library \in Libraries
  BY DEF LifecycleInv, Held
<1>2. ~library.misused
  BY <1>1 DEF Held
<1>3. ASSUME NEW h \in DOMAIN library.handle, library.handle[h].live
      PROVE  Cardinality(Owners(h)) = IF h \in leaked THEN 0 ELSE 1
  <2>1. CASE h \in leaked
    <3>1. Owners(h) = {}
      BY <1>1, <2>1 DEF Owners, Held, HandlesOf
    <3> QED
      BY <2>1, <3>1, FS_EmptySet
  <2>2. CASE h \notin leaked
    <3>1. PICK v \in values : h \in HandlesOf(v)
      BY <1>1, <1>3, <2>2 DEF Held
    <3>2. Owners(h) = {v}
      BY <1>1, <3>1 DEF Owners, Held, HandlesOf
    <3> QED
      BY <2>2, <3>2, FS_Singleton
  <2> QED
    BY <2>1, <2>2
<1>4. ASSUME NEW h \in DOMAIN library.handle, ~library.handle[h].live
      PROVE  /\ Owners(h) = {}
             /\ library.handle[h].open /\ ~unclosed => library.handle[h].kind = "fh"
  <2>1. \A v \in values : Holds(library, v)
    BY <1>1 DEF Held
  <2>2. Owners(h) = {}
    BY <1>4, <2>1 DEF Owners, Holds, HandlesOf
  <2> QED
    BY <1>1, <1>4, <2>2 DEF Held
<1>5. library.context = "freed" <=> ~HasContext
  BY <1>1 DEF ContextKept, HasContext
<1>6. thread = "aborted" => failures >= 2
  BY <1>1 DEF Unwound
<1> QED
  BY <1>2, <1>3, <1>4, <1>5, <1>6 DEF HandlesFreedOnce

\* However many handles there are and calls that fail: no call reaches a handle or a context
\* that was freed, every handle has one owner until it is freed or lost where the code loses
\* it, and the context goes with the last value that holds it.
THEOREM HandlesAreFreedOnce == LifecycleSpec => []HandlesFreedOnce
<1>1. LifecycleInit => LifecycleInv
  BY LifecycleInitially
<1>2. LifecycleInv /\ [LifecycleNext]_lifecycleVars => LifecycleInv'
  BY LifecycleStep
<1>3. LifecycleInv => HandlesFreedOnce
  BY FreedOnce
<1> QED
  BY <1>1, <1>2, <1>3, PTL DEF LifecycleSpec

=============================================================================
