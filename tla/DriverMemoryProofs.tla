-------------------------- MODULE DriverMemoryProofs --------------------------
(***************************************************************************)
(* What the drivers remember is what they have told: whatever a report     *)
(* holds and whatever was remembered, the events of a decoder leave an     *)
(* application with what the driver then remembers.                        *)
(***************************************************************************)
EXTENDS DriverInputProofs

(***************************************************************************)
(* What lists of events make of an application's view                      *)
(***************************************************************************)

\* s says nothing of a control.
Mute(s, k) == \A i \in DOMAIN s : Key(s[i]) # k

\* The last event of s about the control of e leaves an application with e.
Says(s, e) ==
  \E i \in DOMAIN s :
    /\ s[i].type # "encoder" /\ Key(s[i]) = Key(e) /\ Normal(s[i]) = e
    /\ \A j \in DOMAIN s : Key(s[j]) = Key(e) => j <= i

\* After the list s of events an application has f, if it had e before.
Updates(s, e, f) ==
  /\ \E E : s \in Seq(E)
  /\ \/ e = f /\ Mute(s, Key(f))
     \/ Says(s, f)

\* What an application has of a control: its event, unless it is at rest.
Has(v, e) == {x \in v : Key(x) = Key(e)} = IF e.val = 0 THEN {} ELSE {e}

\* An application that keeps what it is told has what the events leave it with.
LEMMA KeptIsUpdated ==
  ASSUME NEW v, NEW s, NEW e, NEW f, Has(v, e), Updates(s, e, f)
  PROVE  Has(KeepAll(v, s), f)
<1> DEFINE kept == {i \in DOMAIN s : s[i].type # "encoder"}
           last == {i \in kept : \A j \in kept : Key(s[j]) = Key(s[i]) => j <= i}
           old == {x \in v : \A i \in kept : Key(s[i]) # Key(x)}
           new == {x \in {Normal(s[i]) : i \in last} : x.val # 0}
<1>1. KeepAll(v, s) = old \cup new
  BY Zenon DEF KeepAll
<1>2. \A i \in DOMAIN s : Key(Normal(s[i])) = Key(s[i])
  BY DEF Normal, Key, Grid
<1>3. CASE e = f /\ Mute(s, Key(f))
  <2>1. \A x : x \in old /\ Key(x) = Key(f) <=> x \in v /\ Key(x) = Key(f)
    BY <1>3, Zenon DEF Mute
  <2>2. \A x \in new : Key(x) # Key(f)
    BY <1>2, <1>3, Zenon DEF Mute
  <2> HIDE DEF old, new
  <2>3. {x \in old \cup new : Key(x) = Key(f)} = {x \in v : Key(x) = Key(f)}
    BY <2>1, <2>2
  <2> QED  BY <1>1, <1>3, <2>3, Zenon DEF Has
<1>4. CASE Says(s, f)
  <2>1. PICK i \in DOMAIN s :
          /\ s[i].type # "encoder" /\ Key(s[i]) = Key(f) /\ Normal(s[i]) = f
          /\ \A j \in DOMAIN s : Key(s[j]) = Key(f) => j <= i
    BY <1>4, Zenon DEF Says
  <2>2. i \in kept /\ i \in last
    BY <2>1
  <2>3. DOMAIN s \subseteq Int
    BY LenProperties DEF Updates
  <2>4. \A x \in old : Key(x) # Key(f)
    BY <2>1, <2>2
  <2>5. \A x \in new : Key(x) = Key(f) => x = f
    <3> SUFFICES ASSUME NEW j \in last, Key(Normal(s[j])) = Key(f)
                 PROVE  Normal(s[j]) = f
      OBVIOUS
    <3>1. j \in kept /\ j \in DOMAIN s /\ Key(s[j]) = Key(f)
      BY <1>2
    <3>2. j <= i /\ i <= j
      BY <2>1, <2>2, <3>1
    <3>3. j = i
      BY <2>3, <3>1, <3>2
    <3> QED  BY <2>1, <3>3
  <2>6. f.val # 0 => f \in new
    BY <2>1, <2>2
  <2>7. f \in new => f.val # 0
    OBVIOUS
  <2> HIDE DEF old, new
  <2>8. {x \in old \cup new : Key(x) = Key(f)} = IF f.val = 0 THEN {} ELSE {f}
    BY <2>4, <2>5, <2>6, <2>7
  <2> QED  BY <1>1, <2>8, Zenon DEF Has
<1> QED  BY <1>3, <1>4 DEF Updates

\* No event, or events about other controls, leave a control as it is.
LEMMA OthersUpdate ==
  ASSUME NEW s, NEW K, Tells(s, K), NEW e, Key(e) \notin K
  PROVE  Updates(s, e, e)
<1>1. PICK E : s \in Seq(E) /\ \A d \in E : Key(d) \in K
  BY Zenon DEF Tells
<1>2. Mute(s, Key(e))
  <2>1. Len(s) \in Nat /\ DOMAIN s = 1..Len(s)
    BY <1>1, LenProperties
  <2>2. \A i \in DOMAIN s : s[i] \in E
    BY <1>1, <2>1, ElementOfSeq
  <2> QED  BY <1>1, <2>2, Zenon DEF Mute
<1> QED  BY <1>1, <1>2, Zenon DEF Updates

\* What is told one after the other.
LEMMA BothUpdate ==
  ASSUME NEW s, NEW t, NEW e, NEW f, NEW g, Updates(s, e, f), Updates(t, f, g)
  PROVE  Updates(s \o t, e, g)
<1>1. PICK E : s \in Seq(E)
  BY DEF Updates
<1>2. PICK F : t \in Seq(F)
  BY DEF Updates
<1>3. s \in Seq(E \cup F) /\ t \in Seq(E \cup F)
  <2>1. Len(s) \in Nat /\ s \in [1..Len(s) -> E] /\ Len(t) \in Nat /\ t \in [1..Len(t) -> F]
    BY <1>1, <1>2, LenProperties
  <2>2. s \in [1..Len(s) -> E \cup F] /\ t \in [1..Len(t) -> E \cup F]
    BY <2>1
  <2> QED  BY <2>1, <2>2, SeqDef
<1> DEFINE u == s \o t
           n == Len(s)
<1>4. /\ u \in Seq(E \cup F) /\ n \in Nat /\ Len(t) \in Nat
      /\ DOMAIN s = 1..n /\ DOMAIN t = 1..Len(t) /\ DOMAIN u = 1..(n + Len(t))
      /\ \A i \in 1..n : u[i] = s[i]
      /\ \A i \in 1..Len(t) : u[n + i] = t[i]
  <2>1. /\ Len(s) \in Nat /\ DOMAIN s = 1..Len(s) /\ Len(t) \in Nat /\ DOMAIN t = 1..Len(t)
    BY <1>3, LenProperties
  <2>2. /\ u \in Seq(E \cup F) /\ Len(u) = n + Len(t)
        /\ \A i \in 1..(n + Len(t)) : u[i] = IF i <= n THEN s[i] ELSE t[i - n]
    BY <1>3, ConcatProperties
  <2>3. DOMAIN u = 1..(n + Len(t))
    BY <2>2, LenProperties
  <2> HIDE DEF u
  <2>4. \A i \in 1..Len(t) : n + i \in 1..(n + Len(t)) /\ ~(n + i <= n) /\ n + i - n = i
    BY <2>1
  <2>5. \A i \in 1..n : i \in 1..(n + Len(t)) /\ i <= n
    BY <2>1
  <2> QED  BY <2>1, <2>2, <2>3, <2>4, <2>5
<1> HIDE DEF u, n
<1>5. \A i \in DOMAIN u : i \in DOMAIN s \/ \E j \in DOMAIN t : i = n + j
  <2> SUFFICES ASSUME NEW i \in DOMAIN u, i \notin DOMAIN s
               PROVE  \E j \in DOMAIN t : i = n + j
    OBVIOUS
  <2>1. i - n \in 1..Len(t) /\ i = n + (i - n)
    BY <1>4
  <2> QED  BY <1>4, <2>1
<1>6. ASSUME Mute(s, Key(g)), Mute(t, Key(g)) PROVE Mute(u, Key(g))
  BY <1>4, <1>5, <1>6 DEF Mute
<1>7. ASSUME Says(s, g), Mute(t, Key(g)) PROVE Says(u, g)
  <2>1. PICK i \in DOMAIN s :
          /\ s[i].type # "encoder" /\ Key(s[i]) = Key(g) /\ Normal(s[i]) = g
          /\ \A j \in DOMAIN s : Key(s[j]) = Key(g) => j <= i
    BY <1>7, Zenon DEF Says
  <2>2. i \in DOMAIN u /\ u[i] = s[i]
    BY <1>4
  <2>3. \A j \in DOMAIN u : Key(u[j]) = Key(g) => j <= i
    BY <1>4, <1>5, <1>7, <2>1 DEF Mute
  <2> QED  BY <2>1, <2>2, <2>3, Zenon DEF Says
<1>8. ASSUME Says(t, g) PROVE Says(u, g)
  <2>1. PICK i \in DOMAIN t :
          /\ t[i].type # "encoder" /\ Key(t[i]) = Key(g) /\ Normal(t[i]) = g
          /\ \A j \in DOMAIN t : Key(t[j]) = Key(g) => j <= i
    BY <1>8, Zenon DEF Says
  <2>2. n + i \in DOMAIN u /\ u[n + i] = t[i]
    BY <1>4
  <2>3. ASSUME NEW j \in DOMAIN u, Key(u[j]) = Key(g)
        PROVE  j <= n + i
    <3>1. CASE j \in DOMAIN s
      BY <1>4, <3>1
    <3>2. ASSUME NEW l \in DOMAIN t, j = n + l PROVE j <= n + i
      <4>1. l <= i
        BY <1>4, <2>1, <2>3, <3>2
      <4> QED  BY <1>4, <3>2, <4>1
    <3> QED  BY <1>5, <3>1, <3>2
  <2> QED  BY <2>1, <2>2, <2>3 DEF Says
<1>9. (Mute(u, Key(g)) /\ e = g) \/ Says(u, g)
  BY <1>6, <1>7, <1>8, Zenon DEF Updates
<1> QED  BY <1>4, <1>9, Zenon DEF Updates, u

\* An event that is told when something is new, and else nothing.
LEMMA OneUpdates ==
  ASSUME NEW c, NEW d, NEW e, NEW f,
         c => d.type # "encoder" /\ Key(d) = Key(f) /\ Normal(d) = f,
         ~c => e = f
  PROVE  Updates(IF c THEN <<d>> ELSE <<>>, e, f)
<1>1. CASE c
  <2>1. <<d>> \in Seq({d}) /\ DOMAIN <<d>> = {1} /\ <<d>>[1] = d
    OBVIOUS
  <2>2. Says(<<d>>, f)
    BY <1>1, <2>1 DEF Says
  <2> QED  BY <1>1, <2>1, <2>2, Zenon DEF Updates
<1>2. CASE ~c
  <2>1. <<>> \in Seq({d}) /\ DOMAIN <<>> = {}
    OBVIOUS
  <2> QED  BY <1>2, <2>1, Zenon DEF Updates, Mute
<1> QED  BY <1>1, <1>2

\* t lists the controls of S among n, each of them once.
Lists(t, n, S) ==
  /\ t \in Seq(0..(n - 1))
  /\ \A k \in 1..Len(t) : t[k] \in S
  /\ \A i \in 0..(n - 1) :
       i \in S => \E k \in 1..Len(t) : t[k] = i /\ \A l \in 1..Len(t) : t[l] = i => l = k

\* So does what is left of the list of all of them.
LEMMA OnlyLists ==
  ASSUME NEW n \in Nat, NEW rows, rows = [a \in 1..n |-> a - 1], NEW S
  PROVE  Lists(Only(rows, S), n, S)
<1> DEFINE o == Only(rows, S)
<1>1. rows \in Seq(0..(n - 1)) /\ Len(rows) = n /\ \A a \in 1..n : rows[a] = a - 1
  OBVIOUS
<1>2. o \in Seq(0..(n - 1)) /\ \E pos : Selects(pos, o, rows, S)
  BY <1>1, OnlyShape
<1> HIDE DEF o
<1>3. PICK pos : Selects(pos, o, rows, S)
  BY <1>2
<1>4. /\ Len(o) \in Nat /\ pos \in [1..Len(o) -> 1..n]
      /\ \A k \in 1..Len(o) : o[k] = rows[pos[k]] /\ o[k] \in S
      /\ \A k, l \in 1..Len(o) : k < l => pos[k] < pos[l]
      /\ \A a \in 1..n : rows[a] \in S => \E k \in 1..Len(o) : pos[k] = a
  <2>1. Len(o) \in Nat
    BY <1>2, LenProperties
  <2> QED  BY <1>1, <1>3, <2>1 DEF Selects
<1>5. ASSUME NEW i \in 0..(n - 1), i \in S
      PROVE  \E k \in 1..Len(o) : o[k] = i /\ \A l \in 1..Len(o) : o[l] = i => l = k
  <2>1. i + 1 \in 1..n /\ rows[i + 1] = i
    BY <1>1
  <2>2. PICK k \in 1..Len(o) : pos[k] = i + 1
    BY <1>4, <1>5, <2>1
  <2>3. o[k] = i
    BY <1>4, <2>1, <2>2
  <2>4. ASSUME NEW l \in 1..Len(o), o[l] = i PROVE l = k
    <3>1. pos[l] \in 1..n /\ rows[pos[l]] = i
      BY <1>4, <2>4
    <3>2. pos[l] = i + 1
      <4>1. rows[pos[l]] = pos[l] - 1 /\ pos[l] \in Int
        BY <1>1, <3>1
      <4> QED  BY <3>1, <4>1
    <3>3. ~(l < k) /\ ~(k < l)
      BY <1>4, <2>2, <3>2
    <3> QED  BY <1>4, <3>3
  <2> QED  BY <2>3, <2>4
<1> QED  BY <1>2, <1>4, <1>5 DEF Lists, o

\* The controls that have moved are listed once.
News(n, base, now, hw) == {i \in 0..(n - 1) : hw[base + i] # now[i]}

\* Moved lists just these.
LEMMA MovedLists ==
  ASSUME NEW n \in Nat, NEW base, NEW now, NEW hw
  PROVE  Lists(Moved(n, base, now, hw), n, News(n, base, now, hw))
<1> DEFINE rows == [i \in 1..n |-> i - 1]
           S == News(n, base, now, hw)
<1>1. Moved(n, base, now, hw) = Only(rows, S)
  BY Zenon DEF Moved, News
<1>2. rows = [a \in 1..n |-> a - 1]
  OBVIOUS
<1> HIDE DEF rows, S
<1>3. Lists(Only(rows, S), n, S)
  BY <1>2, OnlyLists
<1> QED  BY <1>1, <1>3, Zenon DEF S

\* A loop that tells of the controls of S, of control i by tell[i].
Loop(s, n, S, tell) ==
  \E t : Lists(t, n, S) /\ s = [k \in 1..Len(t) |-> tell[t[k]]]

\* Among these events that of control i alone is about it, and leaves f.
Leaves(tell, n, i, f) ==
  /\ Key(tell[i]) = Key(f) /\ tell[i].type # "encoder" /\ Normal(tell[i]) = f
  /\ \A j \in 0..(n - 1) : j # i => Key(tell[j]) # Key(f)

\* The loop leaves an application with the event of a control that is listed, and
\* with what it had of one that is not.
LEMMA LoopUpdates ==
  ASSUME NEW n \in Nat, NEW S, NEW tell, NEW s, Loop(s, n, S, tell),
         NEW i \in 0..(n - 1), NEW e, NEW f, Leaves(tell, n, i, f), i \in S \/ e = f
  PROVE  Updates(s, e, f)
<1>1. PICK t : Lists(t, n, S) /\ s = [k \in 1..Len(t) |-> tell[t[k]]]
  BY Zenon DEF Loop
<1>2. /\ Key(tell[i]) = Key(f) /\ tell[i].type # "encoder" /\ Normal(tell[i]) = f
      /\ \A j \in 0..(n - 1) : j # i => Key(tell[j]) # Key(f)
  BY Zenon DEF Leaves
<1>3. /\ Len(t) \in Nat /\ \A k \in 1..Len(t) : t[k] \in 0..(n - 1) /\ t[k] \in S
      /\ DOMAIN s = 1..Len(t) /\ \A k \in 1..Len(t) : s[k] = tell[t[k]]
  <2>1. Len(t) \in Nat /\ \A k \in 1..Len(t) : t[k] \in 0..(n - 1)
    BY <1>1, MovedPlace DEF Lists
  <2>2. \A k \in 1..Len(t) : t[k] \in S
    BY <1>1 DEF Lists
  <2> QED  BY <1>1, <2>1, <2>2
<1>4. \E E : s \in Seq(E)
  <2> DEFINE E == {tell[t[k]] : k \in 1..Len(t)}
  <2>1. s \in [1..Len(t) -> E]
    BY <1>1
  <2>2. s \in Seq(E)
    BY <1>3, <2>1, SeqDef
  <2> QED  BY <2>2
<1>5. \A k \in 1..Len(t) : Key(s[k]) = Key(f) => t[k] = i
  BY <1>2, <1>3, Zenon
<1>6. CASE i \in S
  <2>1. PICK k \in 1..Len(t) : t[k] = i /\ \A l \in 1..Len(t) : t[l] = i => l = k
    BY <1>1, <1>6 DEF Lists
  <2>2. s[k] = tell[i]
    BY <1>3, <2>1
  <2>3. \A l \in DOMAIN s : Key(s[l]) = Key(f) => l <= k
    <3>1. \A l \in 1..Len(t) : Key(s[l]) = Key(f) => l = k
      BY <1>5, <2>1, Zenon
    <3>2. k <= k
      BY <1>3
    <3> QED  BY <1>3, <3>1, <3>2, Zenon
  <2>4. Says(s, f)
    BY <1>2, <1>3, <2>1, <2>2, <2>3, Zenon DEF Says
  <2> QED  BY <1>4, <2>4, Zenon DEF Updates
<1>7. CASE i \notin S
  <2>1. Mute(s, Key(f))
    BY <1>3, <1>5, <1>7, Zenon DEF Mute
  <2> QED  BY <1>4, <1>7, <2>1, Zenon DEF Updates
<1> QED  BY <1>6, <1>7

\* The memory after a loop over n controls: theirs is new, and nothing else.
Scanned(n, base, now, hw) ==
  [s \in DOMAIN hw |-> IF s - base \in 0..(n - 1) THEN now[s - base] ELSE hw[s]]

\* The slots of the controls have what was read of them, the others what they had.
LEMMA ScannedSlots ==
  ASSUME NEW n \in Nat, NEW base \in Int, NEW now, NEW hw
  PROVE  /\ DOMAIN Scanned(n, base, now, hw) = DOMAIN hw
         /\ \A i \in 0..(n - 1) :
              base + i \in DOMAIN hw => Scanned(n, base, now, hw)[base + i] = now[i]
         /\ \A s \in DOMAIN hw :
              s \in Int /\ (s < base \/ s >= base + n) => Scanned(n, base, now, hw)[s] = hw[s]
<1>1. DOMAIN Scanned(n, base, now, hw) = DOMAIN hw
  BY DEF Scanned
<1>2. ASSUME NEW i \in 0..(n - 1), base + i \in DOMAIN hw
      PROVE  Scanned(n, base, now, hw)[base + i] = now[i]
  <2>1. base + i - base = i
    OBVIOUS
  <2> QED  BY <1>2, <2>1 DEF Scanned
<1>3. ASSUME NEW s \in DOMAIN hw, s \in Int, s < base \/ s >= base + n
      PROVE  Scanned(n, base, now, hw)[s] = hw[s]
  <2>1. s - base \notin 0..(n - 1)
    BY <1>3
  <2> QED  BY <2>1 DEF Scanned
<1> QED  BY <1>1, <1>2, <1>3

\* r is what a loop over n buttons from slot base on has made of the memory hw: only the
\* buttons' slots are new, it leaves an application with what it remembers of every
\* button of the table, and with what it had of any other control.
ButtonLoop(r, n, base, hw) ==
  /\ DOMAIN r.hw = DOMAIN hw
  /\ \A s \in DOMAIN hw : s \in Int /\ (s < base \/ s >= base + n) => r.hw[s] = hw[s]
  /\ \A i \in 0..(n - 1) :
       base + i \in DOMAIN hw =>
         Updates(r.ev, Button(i, Pressed(hw[base + i])), Button(i, Pressed(r.hw[base + i])))
  /\ \A e : Key(e) \notin Of("button", 0..(n - 1)) => Updates(r.ev, e, e)

\* The loop over a table of buttons leaves an application with what it remembers
\* of every button of the table,
LEMMA ButtonsUpdate ==
  ASSUME NEW rows, NEW base \in Int, NEW b, NEW hw, Len(rows) \in Nat,
         NEW r, r = ScanButtons(rows, base, b, hw)
  PROVE  ButtonLoop(r, Len(rows), base, hw)
<1> DEFINE n == Len(rows)
           now == [i \in 0..(Len(rows) - 1) |-> Masked(b[Row(rows, i)[2]], Row(rows, i)[3])]
           moved == Moved(Len(rows), base, now, hw)
           S == News(n, base, now, hw)
           ev == [k \in 1..Len(moved) |-> Button(moved[k], Pressed(now[moved[k]]))]
           hw1 == [s \in DOMAIN hw |-> IF s - base \in DOMAIN now THEN now[s - base] ELSE hw[s]]
<1>1. r = [hw |-> hw1, ev |-> ev]
  BY Zenon DEF ScanButtons, Scan
<1>2. n \in Nat /\ DOMAIN now = 0..(n - 1)
  OBVIOUS
<1> HIDE DEF now
<1>3. Lists(moved, n, S)
  BY MovedLists, Zenon
<1> HIDE DEF n, moved, ev, hw1
<1>4. r.hw = Scanned(n, base, now, hw) /\ r.ev = ev
  BY <1>1, <1>2 DEF Scanned, hw1
<1>5. ASSUME NEW i \in 0..(n - 1), base + i \in DOMAIN hw
      PROVE  Updates(ev, Button(i, Pressed(hw[base + i])), Button(i, Pressed(r.hw[base + i])))
  <2> DEFINE tell == [j \in 0..(n - 1) |-> Button(j, Pressed(now[j]))]
             e == Button(i, Pressed(hw[base + i]))
             f == Button(i, Pressed(now[i]))
  <2>1. r.hw[base + i] = now[i]
    BY <1>2, <1>4, <1>5 DEF Scanned
  <2>2. Loop(ev, n, S, tell)
    <3>1. \A k \in 1..Len(moved) : moved[k] \in 0..(n - 1)
      BY <1>3, <1>2, MovedPlace DEF Lists
    <3>2. ev = [k \in 1..Len(moved) |-> tell[moved[k]]]
      BY <3>1 DEF ev
    <3> HIDE DEF tell
    <3> QED  BY <1>3, <3>2, Zenon DEF Loop
  <2>3. Leaves(tell, n, i, f)
    BY DEF Leaves, Key, Normal, Button
  <2>4. i \in S \/ e = f
    BY DEF News
  <2> HIDE DEF tell, e, f, S
  <2>5. Updates(ev, e, f)
    BY <1>2, <2>2, <2>3, <2>4, LoopUpdates, Zenon
  <2> QED  BY <2>1, <2>5 DEF e, f
<1>6. ASSUME NEW e, Key(e) \notin Of("button", 0..(n - 1))
      PROVE  Updates(ev, e, e)
  <2> DEFINE K == Of("button", 0..(n - 1))
  <2>1. K \subseteq K /\ Len(rows) = n
    BY DEF n
  <2>2. Tells(r.ev, K)
    BY <1>2, <2>1, TableOfButtonsTold
  <2> QED  BY <1>4, <1>6, <2>2, OthersUpdate, Zenon
<1>7. /\ DOMAIN r.hw = DOMAIN hw
      /\ \A x \in DOMAIN hw : x \in Int /\ (x < base \/ x >= base + n) => r.hw[x] = hw[x]
  BY <1>2, <1>4, ScannedSlots
<1> QED  BY <1>4, <1>5, <1>6, <1>7 DEF ButtonLoop, n

\* r is what a loop over n sliders from slot base on has made of the memory hw.
SliderLoop(r, n, base, hw) ==
  /\ DOMAIN r.hw = DOMAIN hw
  /\ \A s \in DOMAIN hw : s \in Int /\ (s < base \/ s >= base + n) => r.hw[s] = hw[s]
  /\ \A i \in 0..(n - 1) :
       base + i \in DOMAIN hw =>
         Updates(r.ev, Slider(i, hw[base + i]), Slider(i, r.hw[base + i]))
  /\ \A e : Key(e) \notin Of("slider", 0..(n - 1)) => Updates(r.ev, e, e)

\* r is what the loop of Controls over n sliders makes of hw, now[i] being read of
\* slider i.
SliderScan(r, n, base, now, hw) ==
  LET t == Moved(n, base, now, hw)
  IN r.hw = Scanned(n, base, now, hw) /\ r.ev = [k \in 1..Len(t) |-> Slider(t[k], now[t[k]])]

\* The loop over a table of sliders leaves an application with what it remembers
\* of every slider of the table,
LEMMA SlidersUpdate ==
  ASSUME NEW n \in Nat, NEW base \in Int, NEW now, NEW hw, NEW r,
         SliderScan(r, n, base, now, hw)
  PROVE  SliderLoop(r, n, base, hw)
<1> DEFINE S == News(n, base, now, hw)
           tell == [j \in 0..(n - 1) |-> Slider(j, now[j])]
           t == Moved(n, base, now, hw)
           ev == [k \in 1..Len(t) |-> Slider(t[k], now[t[k]])]
<1>0. r.ev = ev /\ r.hw = Scanned(n, base, now, hw)
  BY Zenon DEF SliderScan
<1>1. Lists(t, n, S) /\ Len(t) \in Nat /\ \A k \in 1..Len(t) : t[k] \in 0..(n - 1)
  <2>1. Lists(Moved(n, base, now, hw), n, S)
    BY MovedLists, Zenon
  <2> HIDE DEF S
  <2>2. Lists(t, n, S)
    BY <2>1, Zenon
  <2> HIDE DEF t
  <2> QED  BY <2>2, MovedPlace DEF Lists
<1> HIDE DEF t
<1>2. Loop(ev, n, S, tell)
  <2>1. ev = [k \in 1..Len(t) |-> tell[t[k]]]
    BY <1>1
  <2> HIDE DEF tell, S, ev
  <2> QED  BY <1>1, <2>1 DEF Loop
<1>3. ASSUME NEW i \in 0..(n - 1), base + i \in DOMAIN hw
      PROVE  Updates(ev, Slider(i, hw[base + i]), Slider(i, r.hw[base + i]))
  <2> DEFINE e == Slider(i, hw[base + i])
             f == Slider(i, now[i])
  <2>1. Leaves(tell, n, i, f)
    BY DEF Leaves, Key, Normal, Slider
  <2>2. i \in S \/ e = f
    BY DEF News
  <2> HIDE DEF tell, e, f, S, ev
  <2>3. Updates(ev, e, f)
    BY <1>2, <2>1, <2>2, LoopUpdates, Zenon
  <2>4. r.hw[base + i] = now[i]
    BY <1>0, <1>3, ScannedSlots
  <2> QED  BY <2>3, <2>4 DEF e, f
<1>4. ASSUME NEW e, Key(e) \notin Of("slider", 0..(n - 1))
      PROVE  Updates(ev, e, e)
  <2> DEFINE K == Of("slider", 0..(n - 1))
  <2>1. \A k \in 1..Len(t) : Key(ev[k]) \in K
    BY <1>1 DEF Key, Slider, Of
  <2>2. Tells(ev, K)
    <3> HIDE DEF K
    <3> QED  BY <1>1, <2>1, TellsEach
  <2> QED  BY <1>4, <2>2, OthersUpdate, Zenon
<1>5. /\ DOMAIN r.hw = DOMAIN hw
      /\ \A x \in DOMAIN hw : x \in Int /\ (x < base \/ x >= base + n) => r.hw[x] = hw[x]
  BY <1>0, ScannedSlots
<1> HIDE DEF ev
<1> QED  BY <1>0, <1>3, <1>4, <1>5 DEF SliderLoop

\* r is what a loop over n squares has made of the memory hw; place[i] is where
\* square i is.
SquareLoop(r, n, base, place, hw) ==
  /\ DOMAIN r.hw = DOMAIN hw
  /\ \A s \in DOMAIN hw : s \in Int /\ (s < base \/ s >= base + n) => r.hw[s] = hw[s]
  /\ \A i \in 0..(n - 1) :
       base + i \in DOMAIN hw =>
         Updates(r.ev, Grid(0, place[i], Pressed(hw[base + i])),
                 Grid(0, place[i], Pressed(r.hw[base + i])))
  /\ \A e : e.type # "grid" => Updates(r.ev, e, e)

\* r is what a loop over n squares makes of hw, now[i] being read of square i. Some
\* tell the value remembered and some whether it is not zero.
SquareScan(r, n, base, place, raised, now, hw) ==
  LET t == Moved(n, base, now, hw)
  IN /\ r.hw = Scanned(n, base, now, hw)
     /\ r.ev = [k \in 1..Len(t) |-> Grid(0, place[t[k]], raised[t[k]])]
     /\ \A i, j \in 0..(n - 1) : j # i => place[j] # place[i]
     /\ \A i \in 0..(n - 1) : Pressed(raised[i]) = Pressed(now[i])

\* and one over squares with what it remembers of each square.
LEMMA SquaresUpdate ==
  ASSUME NEW n \in Nat, NEW base \in Int, NEW place, NEW raised, NEW now, NEW hw, NEW r,
         SquareScan(r, n, base, place, raised, now, hw)
  PROVE  SquareLoop(r, n, base, place, hw)
<1> DEFINE t == Moved(n, base, now, hw)
           ev == [k \in 1..Len(t) |-> Grid(0, place[t[k]], raised[t[k]])]
<1>0. /\ r.ev = ev /\ r.hw = Scanned(n, base, now, hw)
      /\ \A i, j \in 0..(n - 1) : j # i => place[j] # place[i]
      /\ \A i \in 0..(n - 1) : Pressed(raised[i]) = Pressed(now[i])
  BY Zenon DEF SquareScan
<1> DEFINE S == News(n, base, now, hw)
           tell == [j \in 0..(n - 1) |-> Grid(0, place[j], raised[j])]
<1>1. Lists(t, n, S) /\ Len(t) \in Nat /\ \A k \in 1..Len(t) : t[k] \in 0..(n - 1)
  <2>1. Lists(Moved(n, base, now, hw), n, S)
    BY MovedLists, Zenon
  <2> HIDE DEF S
  <2>2. Lists(t, n, S)
    BY <2>1, Zenon
  <2> HIDE DEF t
  <2> QED  BY <2>2, MovedPlace DEF Lists
<1> HIDE DEF t
<1>2. Loop(ev, n, S, tell)
  <2>1. ev = [k \in 1..Len(t) |-> tell[t[k]]]
    BY <1>1
  <2> HIDE DEF tell, S, ev
  <2> QED  BY <1>1, <2>1 DEF Loop
<1>3. ASSUME NEW i \in 0..(n - 1), base + i \in DOMAIN hw
      PROVE  Updates(ev, Grid(0, place[i], Pressed(hw[base + i])),
                     Grid(0, place[i], Pressed(r.hw[base + i])))
  <2> DEFINE e == Grid(0, place[i], Pressed(hw[base + i]))
             f == Grid(0, place[i], Pressed(now[i]))
  <2>1. Leaves(tell, n, i, f)
    BY <1>0 DEF Leaves, Key, Normal, Grid
  <2>2. i \in S \/ e = f
    BY DEF News
  <2> HIDE DEF tell, e, f, S, ev
  <2>3. Updates(ev, e, f)
    BY <1>2, <2>1, <2>2, LoopUpdates, Zenon
  <2>4. r.hw[base + i] = now[i]
    BY <1>0, <1>3, ScannedSlots
  <2> QED  BY <2>3, <2>4 DEF e, f
<1>4. ASSUME NEW e, e.type # "grid"
      PROVE  Updates(ev, e, e)
  <2> DEFINE K == {<<"grid", 0, p>> : p \in {place[i] : i \in 0..(n - 1)}}
  <2>1. \A k \in 1..Len(t) : Key(ev[k]) \in K
    BY <1>1 DEF Key, Grid
  <2>2. Tells(ev, K)
    <3> HIDE DEF K
    <3> QED  BY <1>1, <2>1, TellsEach
  <2>3. Key(e) \notin K
    BY <1>4 DEF Key
  <2> QED  BY <2>2, <2>3, OthersUpdate, Zenon
<1>5. /\ DOMAIN r.hw = DOMAIN hw
      /\ \A x \in DOMAIN hw : x \in Int /\ (x < base \/ x >= base + n) => r.hw[x] = hw[x]
  <2>1. r.hw = Scanned(n, base, now, hw)
    BY <1>0
  <2>2. /\ DOMAIN Scanned(n, base, now, hw) = DOMAIN hw
        /\ \A x \in DOMAIN hw : x \in Int /\ (x < base \/ x >= base + n)
                               => Scanned(n, base, now, hw)[x] = hw[x]
    BY ScannedSlots
  <2> QED  BY <2>1, <2>2, Zenon
<1> HIDE DEF ev
<1> QED  BY <1>0, <1>3, <1>4, <1>5 DEF SquareLoop

\* The drivers' loops are these.
LEMMA ButtonLoops ==
  ASSUME NEW rows, NEW base \in Int, NEW b, NEW hw, NEW n \in Nat, Len(rows) = n
  PROVE  /\ ButtonLoop(F1!ScanButtons(rows, base, b, hw), n, base, hw)
         /\ ButtonLoop(Z1!ScanButtons(rows, base, b, hw), n, base, hw)
         /\ ButtonLoop(X1!ScanButtons(rows, base, b, hw), n, base, hw)
         /\ ButtonLoop(S2!ScanButtons(rows, base, b, hw), n, base, hw)
         /\ ButtonLoop(D2!ScanButtons(rows, base, b, hw), n, base, hw)
         /\ ButtonLoop(Jam!ScanButtons(rows, base, b, hw), n, base, hw)
         /\ ButtonLoop(Mikro2!ScanButtons(rows, base, b, hw), n, base, hw)
         /\ ButtonLoop(Mikro3!ScanButtons(rows, base, b, hw), n, base, hw)
         /\ ButtonLoop(Mk3!ScanButtons(rows, base, b, hw), n, base, hw)
<1>1. ButtonLoop(ScanButtons(rows, base, b, hw), n, base, hw)
  <2>1. ButtonLoop(ScanButtons(rows, base, b, hw), Len(rows), base, hw)
    BY ButtonsUpdate
  <2> QED  BY <2>1
<1> QED  BY <1>1, SameButtons, ZenonT(40)

\* So are those over sliders;
LEMMA SliderLoops ==
  ASSUME NEW rows, NEW shift, NEW b, NEW hw, NEW n \in Nat, Len(rows) = n
  PROVE  /\ SliderLoop(F1!ScanSliders(rows, shift, b, hw), n, 0, hw)
         /\ SliderLoop(Z1!ScanSliders(rows, shift, b, hw), n, 0, hw)
         /\ SliderLoop(X1!ScanSliders(rows, shift, b, hw), n, 0, hw)
         /\ SliderLoop(S2!ScanSliders(rows, shift, b, hw), n, 0, hw)
<1> DEFINE r == ScanSliders(rows, shift, b, hw)
           now == [i \in 0..(Len(rows) - 1) |-> Word(b, Row(rows, i)[2] + shift)]
           t == Moved(Len(rows), 0, now, hw)
           ev == [k \in 1..Len(t) |-> Slider(t[k], now[t[k]])]
           hw1 == [s \in DOMAIN hw |-> IF s - 0 \in DOMAIN now THEN now[s - 0] ELSE hw[s]]
<1>1. r = [hw |-> hw1, ev |-> ev]
  BY Zenon DEF ScanSliders, Scan
<1>2. hw1 = Scanned(n, 0, now, hw)
  BY DEF Scanned
<1>3. t = Moved(n, 0, now, hw)
  <2> HIDE DEF now
  <2> QED  OBVIOUS
<1> HIDE DEF hw1, now, t, r
<1>4. r.hw = Scanned(n, 0, now, hw) /\ r.ev = ev
  BY <1>1, <1>2
<1>5. SliderLoop(r, n, 0, hw)
  <2>1. SliderScan(r, n, 0, now, hw) /\ 0 \in Int
    BY <1>3, <1>4 DEF SliderScan
  <2> QED  BY <2>1, SlidersUpdate, Zenon
<1> QED  BY <1>5, SameSliders, Zenon DEF r

\* And their encoders leave sliders, buttons and squares alone.
LEMMA StepLoops ==
  ASSUME NEW n \in Nat, NEW now, NEW old, NEW base \in Nat, NEW e, e.type # "encoder"
  PROVE  /\ Updates(F1!Steps(n, now, old, base), e, e)
         /\ Updates(X1!Steps(n, now, old, base), e, e)
         /\ Updates(S2!Steps(n, now, old, base), e, e)
         /\ Updates(D2!Steps(n, now, old, base), e, e)
         /\ Updates(Jam!Steps(n, now, old, base), e, e)
         /\ Updates(Mikro2!Steps(n, now, old, base), e, e)
         /\ Updates(Mikro3!Steps(n, now, old, base), e, e)
         /\ Updates(Mk3!Steps(n, now, old, base), e, e)
<1> DEFINE K == Of("encoder", base..(base + n - 1))
<1>1. Key(e) \notin K
  BY DEF Key, Of
<1>2. K \subseteq K
  OBVIOUS
<1>3. Tells(Steps(n, now, old, base), K)
  <2> HIDE DEF K
  <2> QED  BY <1>2, RowOfStepsTold DEF K
<1>4. Updates(Steps(n, now, old, base), e, e)
  BY <1>1, <1>3, OthersUpdate, Zenon
<1> QED  BY <1>4, SameSteps, ZenonT(40)

-----------------------------------------------------------------------------
(***************************************************************************)
(* What an application has of the controls of a memory                     *)
(***************************************************************************)

\* After the events s an application has those of Q, if it had those of R before.
Hears(R, s, Q) == \A f \in Q : \E e \in R : Updates(s, e, f)

\* What nothing is told of stays as it is.
LEMMA HearsAside ==
  ASSUME NEW R, NEW s, \A e \in R : Updates(s, e, e)
  PROVE  Hears(R, s, R)
  BY Zenon DEF Hears

\* Controls of two kinds.
LEMMA HearsUnion ==
  ASSUME NEW A, NEW B, NEW C, NEW D, NEW s, Hears(A, s, C), Hears(B, s, D)
  PROVE  Hears(A \cup B, s, C \cup D)
  BY Zenon DEF Hears

\* One list after the other.
LEMMA HearsBoth ==
  ASSUME NEW A, NEW B, NEW C, NEW s, NEW t, Hears(A, s, B), Hears(B, t, C)
  PROVE  Hears(A, s \o t, C)
<1> SUFFICES ASSUME NEW g \in C
             PROVE  \E e \in A : Updates(s \o t, e, g)
  BY Zenon DEF Hears
<1>1. PICK f \in B : Updates(t, f, g)
  BY DEF Hears
<1>2. PICK e \in A : Updates(s, e, f)
  BY DEF Hears
<1> QED  BY <1>1, <1>2, BothUpdate, Zenon

\* No event at all.
LEMMA HearsNothing ==
  ASSUME NEW R
  PROVE  Hears(R, <<>>, R)
<1> DEFINE E == {}
<1>1. <<>> \in Seq(E) /\ DOMAIN <<>> = {}
  OBVIOUS
<1> HIDE DEF E
<1>2. \A e \in R : Updates(<<>>, e, e)
  BY <1>1, Zenon DEF Updates, Mute
<1> QED  BY <1>2, HearsAside

\* The slots from b on, n of them, and those from c on, m of them.
Apart(n, b, m, c) == n = 0 \/ m = 0 \/ b + n <= c \/ c + m <= b

\* What is remembered in slots that a loop leaves alone.
Spares(new, n, base, hw, N) ==
  /\ DOMAIN hw = 0..(N - 1)
  /\ \A s \in DOMAIN hw : s \in Int /\ (s < base \/ s >= base + n) => new[s] = hw[s]
Beside(n, base, m, at, N) ==
  /\ n \in Nat /\ base \in Nat /\ m \in Nat /\ at \in Nat /\ N \in Nat
  /\ at + m <= N /\ Apart(n, base, m, at)

\* Slots beside those of a loop are remembered as before.
LEMMA SpareSlots ==
  ASSUME NEW n, NEW base, NEW hw, NEW new, NEW N,
         NEW m, NEW at, Beside(n, base, m, at, N), Spares(new, n, base, hw, N)
  PROVE  /\ Sliders(m, at, new) = Sliders(m, at, hw)
         /\ Buttons(m, at, new) = Buttons(m, at, hw)
         /\ Pads(m, at, new) = Pads(m, at, hw)
<1>1. \A i \in 0..(m - 1) : new[at + i] = hw[at + i]
  BY DEF Apart, Beside, Spares
<1>2. Sliders(m, at, new) = Sliders(m, at, hw)
  BY <1>1, Zenon DEF Sliders
<1>3. Buttons(m, at, new) = Buttons(m, at, hw)
  BY <1>1, Zenon DEF Buttons
<1>4. Pads(m, at, new) = Pads(m, at, hw)
  BY <1>1, Zenon DEF Pads
<1> QED  BY <1>2, <1>3, <1>4

\* Events are about one kind of control.
LEMMA Kinds ==
  /\ \A n, at, hw : \A e \in Sliders(n, at, hw) : e.type = "slider"
  /\ \A n, at, hw : \A e \in Buttons(n, at, hw) : e.type = "button"
  /\ \A n, at, hw : \A e \in Pads(n, at, hw) : e.type = "grid"
  /\ \A e, S : /\ e.type # "slider" => Key(e) \notin Of("slider", S)
               /\ e.type # "button" => Key(e) \notin Of("button", S)
<1>1. \A n, at, hw : \A e \in Sliders(n, at, hw) : e.type = "slider"
  BY DEF Sliders, Slider
<1>2. \A n, at, hw : \A e \in Buttons(n, at, hw) : e.type = "button"
  BY DEF Buttons, Button
<1>3. \A n, at, hw : \A e \in Pads(n, at, hw) : e.type = "grid"
  BY DEF Pads, Grid
<1>4. \A e, S : /\ e.type # "slider" => Key(e) \notin Of("slider", S)
                /\ e.type # "button" => Key(e) \notin Of("button", S)
  BY DEF Key, Of
<1> QED  BY <1>1, <1>2, <1>3, <1>4

\* The loops are heard of their own kind of control, and leave the other kinds alone.
LEMMA ButtonsHeard ==
  ASSUME NEW r, NEW n \in Nat, NEW base \in Nat, NEW hw, NEW N \in Nat, DOMAIN hw = 0..(N - 1),
         base + n <= N, ButtonLoop(r, n, base, hw)
  PROVE  /\ Hears(Buttons(n, base, hw), r.ev, Buttons(n, base, r.hw))
         /\ \A e : e.type # "button" => Updates(r.ev, e, e)
<1>1. ASSUME NEW i \in 0..(n - 1)
      PROVE  \E e \in Buttons(n, base, hw) : Updates(r.ev, e, Button(i, Pressed(r.hw[base + i])))
  <2>1. base + i \in DOMAIN hw
    OBVIOUS
  <2>2. Updates(r.ev, Button(i, Pressed(hw[base + i])), Button(i, Pressed(r.hw[base + i])))
    BY <2>1 DEF ButtonLoop
  <2> QED  BY <2>2, Zenon DEF Buttons
<1>2. Hears(Buttons(n, base, hw), r.ev, Buttons(n, base, r.hw))
  BY <1>1, Zenon DEF Hears, Buttons
<1>3. \A e : e.type # "button" => Updates(r.ev, e, e)
  BY Kinds, Zenon DEF ButtonLoop
<1> QED  BY <1>2, <1>3

\* The same of sliders,
LEMMA SlidersHeard ==
  ASSUME NEW r, NEW n \in Nat, NEW base \in Nat, NEW hw, NEW N \in Nat, DOMAIN hw = 0..(N - 1),
         base + n <= N, SliderLoop(r, n, base, hw)
  PROVE  /\ Hears(Sliders(n, base, hw), r.ev, Sliders(n, base, r.hw))
         /\ \A e : e.type # "slider" => Updates(r.ev, e, e)
<1>1. ASSUME NEW i \in 0..(n - 1)
      PROVE  \E e \in Sliders(n, base, hw) : Updates(r.ev, e, Slider(i, r.hw[base + i]))
  <2>1. base + i \in DOMAIN hw
    OBVIOUS
  <2>2. Updates(r.ev, Slider(i, hw[base + i]), Slider(i, r.hw[base + i]))
    BY <2>1 DEF SliderLoop
  <2> QED  BY <2>2, Zenon DEF Sliders
<1>2. Hears(Sliders(n, base, hw), r.ev, Sliders(n, base, r.hw))
  BY <1>1, Zenon DEF Hears, Sliders
<1>3. \A e : e.type # "slider" => Updates(r.ev, e, e)
  BY Kinds, Zenon DEF SliderLoop
<1> QED  BY <1>2, <1>3

\* Squares in the order of their slots.
InPlace(n) == [i \in 0..(n - 1) |-> i]

\* and of squares.
LEMMA PadsHeard ==
  ASSUME NEW r, NEW n \in Nat, NEW base \in Nat, NEW hw, NEW N \in Nat, DOMAIN hw = 0..(N - 1),
         base + n <= N, SquareLoop(r, n, base, InPlace(n), hw)
  PROVE  /\ Hears(Pads(n, base, hw), r.ev, Pads(n, base, r.hw))
         /\ \A e : e.type # "grid" => Updates(r.ev, e, e)
<1>1. ASSUME NEW i \in 0..(n - 1)
      PROVE  \E e \in Pads(n, base, hw) : Updates(r.ev, e, Grid(0, i, Pressed(r.hw[base + i])))
  <2>1. base + i \in DOMAIN hw /\ InPlace(n)[i] = i
    BY DEF InPlace
  <2>2. Updates(r.ev, Grid(0, i, Pressed(hw[base + i])), Grid(0, i, Pressed(r.hw[base + i])))
    BY <2>1 DEF SquareLoop
  <2> QED  BY <2>2, Zenon DEF Pads
<1>2. Hears(Pads(n, base, hw), r.ev, Pads(n, base, r.hw))
  BY <1>1, Zenon DEF Hears, Pads
<1>3. \A e : e.type # "grid" => Updates(r.ev, e, e)
  BY Zenon DEF SquareLoop
<1> QED  BY <1>2, <1>3

\* The controls of one memory: sn sliders from slot sb on, bn buttons from slot bb on
\* and pn squares from slot pb on,
Panel(sn, sb, bn, bb, pn, pb, hw) ==
  Sliders(sn, sb, hw) \cup Buttons(bn, bb, hw) \cup Pads(pn, pb, hw)

\* each with slots of its own among the first N.
Fits(sn, sb, bn, bb, pn, pb, N) ==
  /\ Beside(sn, sb, bn, bb, N) /\ Beside(sn, sb, pn, pb, N) /\ Beside(bn, bb, pn, pb, N)
  /\ sb + sn <= N /\ bb + bn <= N
OfSize(hw, N) == DOMAIN hw = 0..(N - 1)

\* Each loop is heard of all of a panel, the kinds that it is not about included.
LEMMA PanelHeard ==
  ASSUME NEW sn, NEW sb, NEW bn, NEW bb, NEW pn, NEW pb, NEW N,
         Fits(sn, sb, bn, bb, pn, pb, N), NEW hw, OfSize(hw, N), NEW r,
         \/ SliderLoop(r, sn, sb, hw)
         \/ ButtonLoop(r, bn, bb, hw)
         \/ SquareLoop(r, pn, pb, InPlace(pn), hw)
  PROVE  /\ Hears(Panel(sn, sb, bn, bb, pn, pb, hw), r.ev, Panel(sn, sb, bn, bb, pn, pb, r.hw))
         /\ OfSize(r.hw, N)
<1> DEFINE A(h) == Sliders(sn, sb, h)
           B(h) == Buttons(bn, bb, h)
           C(h) == Pads(pn, pb, h)
<1>1. /\ sn \in Nat /\ sb \in Nat /\ bn \in Nat /\ bb \in Nat /\ pn \in Nat /\ pb \in Nat
      /\ N \in Nat /\ sb + sn <= N /\ bb + bn <= N /\ pb + pn <= N
      /\ Beside(sn, sb, bn, bb, N) /\ Beside(sn, sb, pn, pb, N) /\ Beside(bn, bb, pn, pb, N)
      /\ Beside(bn, bb, sn, sb, N) /\ Beside(pn, pb, sn, sb, N) /\ Beside(pn, pb, bn, bb, N)
      /\ DOMAIN hw = 0..(N - 1)
  BY DEF Fits, Apart, Beside, OfSize
<1>2. ASSUME Hears(A(hw), r.ev, A(r.hw)), Hears(B(hw), r.ev, B(r.hw)), Hears(C(hw), r.ev, C(r.hw))
      PROVE  Hears(Panel(sn, sb, bn, bb, pn, pb, hw), r.ev, Panel(sn, sb, bn, bb, pn, pb, r.hw))
  <2>1. Hears(A(hw) \cup B(hw), r.ev, A(r.hw) \cup B(r.hw))
    BY <1>2, HearsUnion, Zenon
  <2>2. Hears((A(hw) \cup B(hw)) \cup C(hw), r.ev, (A(r.hw) \cup B(r.hw)) \cup C(r.hw))
    BY <1>2, <2>1, HearsUnion, Zenon
  <2> QED  BY <2>2, Zenon DEF Panel
<1>3. CASE SliderLoop(r, sn, sb, hw)
  <2>1. OfSize(r.hw, N)
    BY <1>1, <1>3 DEF SliderLoop, OfSize
  <2>2. Hears(A(hw), r.ev, A(r.hw)) /\ \A e : e.type # "slider" => Updates(r.ev, e, e)
    BY <1>1, <1>3, SlidersHeard, Zenon
  <2>3. Spares(r.hw, sn, sb, hw, N)
    BY <1>1, <1>3, Zenon DEF SliderLoop, Spares
  <2>4. B(r.hw) = B(hw)
    BY <1>1, <2>3, SpareSlots
  <2>5. C(r.hw) = C(hw)
    BY <1>1, <2>3, SpareSlots
  <2>6. Hears(B(hw), r.ev, B(hw)) /\ Hears(C(hw), r.ev, C(hw))
    <3>1. \A e \in B(hw) : e.type # "slider"
      BY Kinds
    <3>2. \A e \in C(hw) : e.type # "slider"
      BY Kinds
    <3> QED  BY <2>2, <3>1, <3>2, HearsAside, Zenon
  <2> QED  BY <1>2, <2>1, <2>2, <2>4, <2>5, <2>6, Zenon
<1>4. CASE ButtonLoop(r, bn, bb, hw)
  <2>1. OfSize(r.hw, N)
    BY <1>1, <1>4 DEF ButtonLoop, OfSize
  <2>2. Hears(B(hw), r.ev, B(r.hw)) /\ \A e : e.type # "button" => Updates(r.ev, e, e)
    BY <1>1, <1>4, ButtonsHeard, Zenon
  <2>3. Spares(r.hw, bn, bb, hw, N)
    BY <1>1, <1>4, Zenon DEF ButtonLoop, Spares
  <2>4. A(r.hw) = A(hw)
    BY <1>1, <2>3, SpareSlots
  <2>5. C(r.hw) = C(hw)
    BY <1>1, <2>3, SpareSlots
  <2>6. Hears(A(hw), r.ev, A(hw)) /\ Hears(C(hw), r.ev, C(hw))
    <3>1. \A e \in A(hw) : e.type # "button"
      BY Kinds
    <3>2. \A e \in C(hw) : e.type # "button"
      BY Kinds
    <3> QED  BY <2>2, <3>1, <3>2, HearsAside, Zenon
  <2> QED  BY <1>2, <2>1, <2>2, <2>4, <2>5, <2>6, Zenon
<1>5. CASE SquareLoop(r, pn, pb, InPlace(pn), hw)
  <2>1. OfSize(r.hw, N)
    BY <1>1, <1>5 DEF SquareLoop, OfSize
  <2>2. Hears(C(hw), r.ev, C(r.hw)) /\ \A e : e.type # "grid" => Updates(r.ev, e, e)
    BY <1>1, <1>5, PadsHeard, Zenon
  <2>3. Spares(r.hw, pn, pb, hw, N)
    BY <1>1, <1>5, Zenon DEF SquareLoop, Spares
  <2>4. A(r.hw) = A(hw)
    BY <1>1, <2>3, SpareSlots
  <2>5. B(r.hw) = B(hw)
    BY <1>1, <2>3, SpareSlots
  <2>6. Hears(A(hw), r.ev, A(hw)) /\ Hears(B(hw), r.ev, B(hw))
    <3>1. \A e \in A(hw) : e.type # "grid"
      BY Kinds
    <3>2. \A e \in B(hw) : e.type # "grid"
      BY Kinds
    <3> QED  BY <2>2, <3>1, <3>2, HearsAside, Zenon
  <2> QED  BY <1>2, <2>1, <2>2, <2>4, <2>5, <2>6, Zenon
<1> QED  BY <1>3, <1>4, <1>5

\* Encoders are none of a panel's controls.
LEMMA PanelOfSteps ==
  ASSUME NEW sn, NEW sb, NEW bn, NEW bb, NEW pn, NEW pb, NEW hw,
         NEW ev, \A e : e.type # "encoder" => Updates(ev, e, e)
  PROVE  Hears(Panel(sn, sb, bn, bb, pn, pb, hw), ev, Panel(sn, sb, bn, bb, pn, pb, hw))
<1>1. \A e \in Panel(sn, sb, bn, bb, pn, pb, hw) : e.type # "encoder"
  BY Kinds DEF Panel
<1> QED  BY <1>1, HearsAside, Zenon

-----------------------------------------------------------------------------
(***************************************************************************)
(* What each driver remembers is what it leaves an application with        *)
(***************************************************************************)

\* A memory has the arrays and fields that connect allocated.
Shaped(d, m) ==
  CASE d = "f1" -> DOMAIN m.hw = 0..36
    [] d = "z1" -> DOMAIN m.hw = 0..18
    [] d = "x1" -> DOMAIN m.hw = 0..44
    [] d = "s2" -> DOMAIN m.hw = 0..73 /\ "hw" \in DOMAIN m
    [] d = "s5" -> TRUE
    [] d = "d2" -> DOMAIN m.hw = 0..69 /\ {"hw", "touch"} \subseteq DOMAIN m
    [] d = "jam" -> DOMAIN m.hw = 0..77 /\ DOMAIN m.grid = 0..63 /\ {"hw", "grid"} \subseteq DOMAIN m
    [] d = "mikro2" -> DOMAIN m.hw = 0..28 /\ DOMAIN m.pads = 0..15 /\ {"hw", "pads"} \subseteq DOMAIN m
    [] d = "mikro3" -> DOMAIN m.hw = 0..38 /\ DOMAIN m.hit = 0..15
                       /\ {"hw", "strip", "hit"} \subseteq DOMAIN m
    [] d = "mk3" -> DOMAIN m.hw = 0..71 /\ DOMAIN m.hit = 0..15 /\ {"hw", "hit"} \subseteq DOMAIN m
    [] d = "mouse" -> DOMAIN m.hw = 0..5 /\ DOMAIN m.buttons = 0..14
                      /\ {"hw", "buttons"} \subseteq DOMAIN m
    [] d = "firmata" -> DOMAIN m.hw = {0}

\* The controls of each memory have slots of their own.
LEMMA PanelsFit ==
  /\ Fits(8, 0, 13, 8, 16, 21, 37) /\ Fits(14, 0, 5, 14, 0, 0, 19)
  /\ Fits(8, 0, 37, 8, 0, 0, 45) /\ Fits(23, 0, 51, 23, 0, 0, 74)
  /\ Fits(8, 4, 58, 12, 0, 0, 70)
  BY DEF Fits, Beside, Apart

\* After a report the application has what the driver then remembers, if it had
\* what the driver remembered before.
Keeps(d, m, r) == Hears(Remembered(d, m), r.ev, Remembered(d, r.m)) /\ Shaped(d, r.m)

\* A report that is not decoded.
LEMMA SilentKeeps ==
  ASSUME NEW d, NEW m, Shaped(d, m), NEW r, r = [m |-> m, ev |-> <<>>]
  PROVE  Keeps(d, m, r)
<1>1. r.m = m /\ r.ev = <<>>
  OBVIOUS
<1> QED  BY <1>1, HearsNothing, Zenon DEF Keeps

\* The Kontrol F1.
LEMMA F1Keeps ==
  ASSUME NEW m, NEW rep, Shaped("f1", m)
  PROVE  Keeps("f1", m, F1!ReadCb(m, rep))
<1> DEFINE r == F1!ReadCb(m, rep)
<1>1. CASE rep.size # 22
  <2>1. r = [m |-> m, ev |-> <<>>]
    BY <1>1 DEF F1!ReadCb, F1!Silent
  <2> HIDE DEF r
  <2>2. Keeps("f1", m, r)
    BY <2>1, SilentKeeps, Zenon
  <2> QED  BY <2>2 DEF r
<1>2. CASE rep.size = 22
  <2> DEFINE b == rep.b
             s == F1!ScanSliders(F1!SliderRows, 0, b, m.hw)
             enc == [i \in {0} |-> F1!Low(b[5])]
             steps == F1!Steps(1, enc, m.enc, 0)
             now == [i \in 0..(16 - 1) |-> F1!Masked(b[1 + i \div 8], F1!GridMask(i))]
             moved == F1!Moved(16, 21, now, s.hw)
             squares == [k \in 1..Len(moved) |-> F1!Grid(0, moved[k], F1!Pressed(now[moved[k]]))]
             hw == [t \in DOMAIN s.hw |-> IF t - 21 \in DOMAIN now THEN now[t - 21] ELSE s.hw[t]]
             k == F1!ScanButtons(F1!ButtonRows, 8, b, hw)
             g == [hw |-> hw, ev |-> squares]
             p(h) == Panel(8, 0, 13, 8, 16, 21, h)
  <2>1. r = [m |-> [hw |-> k.hw, enc |-> enc], ev |-> s.ev \o steps \o squares \o k.ev]
    BY <1>2, Zenon DEF F1!ReadCb, F1!Scan
  <2>2. SliderLoop(s, 8, 0, m.hw)
    <3>1. Len(F1!SliderRows) = 8 /\ 8 \in Nat
      BY TableSizes
    <3> QED  BY <3>1, SliderLoops, Zenon
  <2>3. ButtonLoop(k, 13, 8, hw)
    <3>1. Len(F1!ButtonRows) = 13 /\ 13 \in Nat /\ 8 \in Int
      BY TableSizes
    <3> HIDE DEF hw
    <3> QED  BY <3>1, ButtonLoops, Zenon
  <2>4. SquareLoop(g, 16, 21, InPlace(16), s.hw)
    <3>1. moved = Moved(16, 21, now, s.hw)
      <4> HIDE DEF now, s
      <4> QED  BY SameMoved, Zenon
    <3>2. hw = Scanned(16, 21, now, s.hw)
      <4> HIDE DEF s
      <4> QED  BY DEF Scanned
    <3> DEFINE raised == [i \in 0..15 |-> Pressed(now[i])]
    <3>3. moved \in Seq(0..(16 - 1))
      <4> HIDE DEF now, s, moved
      <4> QED  BY <3>1, MovedShape
    <3>4. \A n \in 1..Len(moved) : moved[n] \in 0..(16 - 1)
      <4> HIDE DEF moved
      <4> QED  BY <3>3, MovedPlace
    <3> HIDE DEF now, s, hw
    <3>5. squares = [n \in 1..Len(moved) |-> Grid(0, InPlace(16)[moved[n]], raised[moved[n]])]
      <4> HIDE DEF moved
      <4> QED  BY <3>4 DEF F1!Grid, F1!Pressed, Grid, Pressed, InPlace
    <3>6. /\ \A i, j \in 0..(16 - 1) : j # i => InPlace(16)[j] # InPlace(16)[i]
          /\ \A i \in 0..(16 - 1) : Pressed(raised[i]) = Pressed(now[i])
      BY DEF Pressed, InPlace
    <3>7. g.hw = hw /\ g.ev = squares
      OBVIOUS
    <3> HIDE DEF raised, moved, squares, g
    <3>8. SquareScan(g, 16, 21, InPlace(16), raised, now, s.hw)
      BY <3>1, <3>2, <3>5, <3>6, <3>7, Zenon DEF SquareScan
    <3>9. 16 \in Nat /\ 21 \in Int
      OBVIOUS
    <3> QED  BY <3>8, <3>9, SquaresUpdate, Zenon
  <2>5. \A e : e.type # "encoder" => Updates(steps, e, e)
    <3>1. 1 \in Nat /\ 0 \in Nat
      OBVIOUS
    <3> HIDE DEF enc
    <3> QED  BY <3>1, StepLoops, Zenon
  <2>6. /\ r.m.hw = k.hw /\ r.ev = s.ev \o steps \o squares \o k.ev
        /\ g.hw = hw /\ g.ev = squares
    <3> HIDE DEF r, s, enc, steps, squares, hw, k
    <3> QED  BY <2>1
  <2>7. Fits(8, 0, 13, 8, 16, 21, 37)
    BY PanelsFit
  <2>8. OfSize(m.hw, 37) /\ \A n : Shaped("f1", n) <=> OfSize(n.hw, 37)
    BY DEF Shaped, OfSize
  <2>9. \A n : Remembered("f1", n) = p(n.hw)
    BY DEF Remembered, Panel
  <2> HIDE DEF r, b, s, enc, steps, now, moved, squares, hw, k, g
  <2>10. Hears(p(m.hw), s.ev, p(s.hw)) /\ OfSize(s.hw, 37)
    BY <2>2, <2>7, <2>8, PanelHeard, Zenon
  <2>11. Hears(p(s.hw), steps, p(s.hw))
    BY <2>5, PanelOfSteps, Zenon
  <2>12. Hears(p(s.hw), g.ev, p(g.hw)) /\ OfSize(g.hw, 37)
    BY <2>4, <2>7, <2>10, PanelHeard, Zenon
  <2>13. Hears(p(hw), k.ev, p(k.hw)) /\ OfSize(k.hw, 37)
    BY <2>3, <2>6, <2>7, <2>12, PanelHeard, Zenon
  <2> HIDE DEF p
  <2>14. Hears(p(m.hw), s.ev \o steps \o squares \o k.ev, p(k.hw))
    BY <2>6, <2>10, <2>11, <2>12, <2>13, HearsBoth, Zenon
  <2> QED  BY <2>6, <2>8, <2>9, <2>13, <2>14, Zenon DEF Keeps, r
<1> QED  BY <1>1, <1>2

\* The Kontrol Z1.
LEMMA Z1Keeps ==
  ASSUME NEW m, NEW rep, Shaped("z1", m)
  PROVE  Keeps("z1", m, Z1!ReadCb(m, rep))
<1> DEFINE r == Z1!ReadCb(m, rep)
<1>1. CASE rep.size # 30
  <2>1. r = [m |-> m, ev |-> <<>>]
    BY <1>1 DEF Z1!ReadCb, Z1!Silent
  <2> HIDE DEF r
  <2>2. Keeps("z1", m, r)
    BY <2>1, SilentKeeps, Zenon
  <2> QED  BY <2>2 DEF r
<1>2. CASE rep.size = 30
  <2> DEFINE s == Z1!ScanSliders(Z1!SliderRows, 0, rep.b, m.hw)
             k == Z1!ScanButtons(Z1!ButtonRows, 14, rep.b, s.hw)
             p(h) == Panel(14, 0, 5, 14, 0, 0, h)
  <2>1. r = [m |-> [hw |-> k.hw], ev |-> s.ev \o k.ev]
    BY <1>2, Zenon DEF Z1!ReadCb
  <2>2. SliderLoop(s, 14, 0, m.hw)
    <3>1. Len(Z1!SliderRows) = 14 /\ 14 \in Nat
      BY TableSizes
    <3> QED  BY <3>1, SliderLoops, Zenon
  <2>3. ButtonLoop(k, 5, 14, s.hw)
    <3>1. Len(Z1!ButtonRows) = 5 /\ 5 \in Nat /\ 14 \in Int
      BY TableSizes
    <3> HIDE DEF s
    <3> QED  BY <3>1, ButtonLoops, Zenon
  <2>4. r.m.hw = k.hw /\ r.ev = s.ev \o k.ev
    <3> HIDE DEF r, s, k
    <3> QED  BY <2>1
  <2>5. OfSize(m.hw, 19) /\ \A n : Shaped("z1", n) <=> OfSize(n.hw, 19)
    BY DEF Shaped, OfSize
  <2>6. \A n : Remembered("z1", n) = p(n.hw)
    <3>1. \A h : Pads(0, 0, h) = {}
      BY DEF Pads
    <3> QED  BY <3>1 DEF Remembered, Panel
  <2> HIDE DEF r, s, k
  <2>7. Hears(p(m.hw), s.ev, p(s.hw)) /\ OfSize(s.hw, 19)
    BY <2>2, <2>5, PanelsFit, PanelHeard, Zenon
  <2>8. Hears(p(s.hw), k.ev, p(k.hw)) /\ OfSize(k.hw, 19)
    BY <2>3, <2>7, PanelsFit, PanelHeard, Zenon
  <2> HIDE DEF p
  <2>9. Hears(p(m.hw), s.ev \o k.ev, p(k.hw))
    BY <2>7, <2>8, HearsBoth, Zenon
  <2> QED  BY <2>4, <2>5, <2>6, <2>8, <2>9, Zenon DEF Keeps, r
<1> QED  BY <1>1, <1>2

\* An event that is told when something is new, and what is remembered then.
LEMMA HearsOne ==
  ASSUME NEW c, NEW e, NEW f, NEW d, d.type # "encoder", Key(d) = Key(f), Normal(d) = f,
         c \/ e = f
  PROVE  Hears({e}, IF c THEN <<d>> ELSE <<>>, {f})
<1>1. Updates(IF c THEN <<d>> ELSE <<>>, e, f)
  BY OneUpdates
<1> QED  BY <1>1, Zenon DEF Hears

\* Nothing else hears of it.
LEMMA HearsOneAside ==
  ASSUME NEW R, NEW c, NEW d, \A e \in R : Key(e) # Key(d)
  PROVE  Hears(R, IF c THEN <<d>> ELSE <<>>, R)
<1> DEFINE K == {Key(d)}
<1>1. Tells(<<d>>, K)
  BY TellsOne
<1>2. Tells(IF c THEN <<d>> ELSE <<>>, K)
  BY <1>1, TellsIf
<1>3. \A e \in R : Key(e) \notin K
  OBVIOUS
<1> HIDE DEF K
<1>4. \A e \in R : Updates(IF c THEN <<d>> ELSE <<>>, e, e)
  BY <1>2, <1>3, OthersUpdate, Zenon
<1> QED  BY <1>4, HearsAside, Zenon

\* The Kontrol X1 Mk2. The strip is told after all else, and is the slider after the
\* others.
LEMMA X1Keeps ==
  ASSUME NEW m, NEW rep, Shaped("x1", m)
  PROVE  Keeps("x1", m, X1!ReadCb(m, rep))
<1> DEFINE r == X1!ReadCb(m, rep)
<1>1. CASE rep.size # 31
  <2>1. r = [m |-> m, ev |-> <<>>]
    BY <1>1 DEF X1!ReadCb, X1!Silent
  <2> HIDE DEF r
  <2>2. Keeps("x1", m, r)
    BY <2>1, SilentKeeps, Zenon
  <2> QED  BY <2>2 DEF r
<1>2. CASE rep.size = 31
  <2> DEFINE b == rep.b
             enc == [i \in 0..2 |-> <<X1!Low(b[17]), X1!High(b[17]), X1!Low(b[18])>>[i + 1]]
             v == X1!Word(b, 27)
             c == v # m.strip /\ v # 0
             d == X1!Slider(8, v)
             s == X1!ScanSliders(X1!SliderRows, 0, b, m.hw)
             steps == X1!Steps(3, enc, m.enc, 0)
             k == X1!ScanButtons(X1!ButtonRows, 8, b, s.hw)
             one == IF c THEN <<d>> ELSE <<>>
             strip == IF c THEN v ELSE m.strip
             p(h) == Panel(8, 0, 37, 8, 0, 0, h)
             q(x) == {Slider(8, x)}
  <2>1. r = [m |-> [hw |-> k.hw, enc |-> enc, strip |-> strip],
             ev |-> s.ev \o steps \o k.ev \o one]
    BY <1>2, Zenon DEF X1!ReadCb
  <2>2. SliderLoop(s, 8, 0, m.hw)
    <3>1. Len(X1!SliderRows) = 8 /\ 8 \in Nat
      BY TableSizes
    <3> QED  BY <3>1, SliderLoops, Zenon
  <2>3. ButtonLoop(k, 37, 8, s.hw)
    <3>1. Len(X1!ButtonRows) = 37 /\ 37 \in Nat /\ 8 \in Int
      BY TableSizes
    <3> HIDE DEF s
    <3> QED  BY <3>1, ButtonLoops, Zenon
  <2>4. \A e : e.type # "encoder" => Updates(steps, e, e)
    <3>1. 3 \in Nat /\ 0 \in Nat
      OBVIOUS
    <3> HIDE DEF enc
    <3> QED  BY <3>1, StepLoops, Zenon
  <2>5. r.m.hw = k.hw /\ r.m.strip = strip /\ r.ev = s.ev \o steps \o k.ev \o one
    <3> HIDE DEF r, s, k, steps, one, enc, strip
    <3> QED  BY <2>1
  <2>6. OfSize(m.hw, 45) /\ \A n : Shaped("x1", n) <=> OfSize(n.hw, 45)
    BY DEF Shaped, OfSize
  <2>7. \A n : Remembered("x1", n) = p(n.hw) \cup q(n.strip)
    <3>1. \A h : Pads(0, 0, h) = {}
      BY DEF Pads
    <3> QED  BY <3>1 DEF Remembered, Panel
  <2>8. Hears(q(m.strip), one, q(strip))
    <3>1. (d.type # "encoder" /\ Key(d) = Key(Slider(8, strip))) \/ ~c
      BY DEF X1!Slider, Slider, Key
    <3>2. c => Normal(d) = Slider(8, strip)
      BY DEF X1!Slider, Slider, Normal
    <3>3. ~c => Slider(8, m.strip) = Slider(8, strip)
      OBVIOUS
    <3> HIDE DEF c, d, strip
    <3>4. Updates(one, Slider(8, m.strip), Slider(8, strip))
      BY <3>1, <3>2, <3>3, OneUpdates
    <3> QED  BY <3>4, Zenon DEF Hears
  <2>9. \A h : \A e \in p(h) : Key(e) # Key(d)
    <3>1. \A h : Pads(0, 0, h) = {}
      BY DEF Pads
    <3>2. \A h : \A e \in Sliders(8, 0, h) : Key(e) # Key(d)
      BY DEF Sliders, Slider, X1!Slider, Key
    <3>3. \A h : \A e \in Buttons(37, 8, h) : Key(e) # Key(d)
      BY DEF Buttons, Button, X1!Slider, Key
    <3> HIDE DEF d
    <3> QED  BY <3>1, <3>2, <3>3, Zenon DEF Panel
  <2>10. Slider(8, m.strip).type = "slider" /\ Key(Slider(8, m.strip)) \notin Of("slider", 0..(8 - 1))
         /\ Key(Slider(8, m.strip)) \notin Of("button", 0..(37 - 1))
    BY DEF Slider, Of, Key
  <2> HIDE DEF r, b, enc, v, c, d, s, steps, k, strip
  <2>11. Hears(p(m.hw), s.ev, p(s.hw)) /\ OfSize(s.hw, 45)
    BY <2>2, <2>6, PanelsFit, PanelHeard, Zenon
  <2>12. Hears(p(s.hw), steps, p(s.hw))
    BY <2>4, PanelOfSteps, Zenon
  <2>13. Hears(p(s.hw), k.ev, p(k.hw)) /\ OfSize(k.hw, 45)
    BY <2>3, <2>11, PanelsFit, PanelHeard, Zenon
  <2>14. Hears(p(k.hw), one, p(k.hw))
    BY <2>9, HearsOneAside, Zenon
  <2>15. /\ Hears(q(m.strip), s.ev, q(m.strip)) /\ Hears(q(m.strip), steps, q(m.strip))
         /\ Hears(q(m.strip), k.ev, q(m.strip))
    <3>1. /\ Updates(s.ev, Slider(8, m.strip), Slider(8, m.strip))
          /\ Updates(steps, Slider(8, m.strip), Slider(8, m.strip))
          /\ Updates(k.ev, Slider(8, m.strip), Slider(8, m.strip))
      BY <2>2, <2>3, <2>4, <2>10 DEF SliderLoop, ButtonLoop
    <3> QED  BY <3>1, Zenon DEF Hears
  <2> HIDE DEF p, q, one
  <2>16. Hears(p(m.hw), s.ev \o steps \o k.ev \o one, p(k.hw))
    BY <2>11, <2>12, <2>13, <2>14, HearsBoth, Zenon
  <2>17. Hears(q(m.strip), s.ev \o steps \o k.ev \o one, q(strip))
    BY <2>8, <2>15, HearsBoth, Zenon
  <2>18. Hears(p(m.hw) \cup q(m.strip), s.ev \o steps \o k.ev \o one, p(k.hw) \cup q(strip))
    BY <2>16, <2>17, HearsUnion, Zenon
  <2> QED  BY <2>5, <2>6, <2>7, <2>13, <2>18, Zenon DEF Keeps, r
<1> QED  BY <1>1, <1>2

\* Encoders leave sliders, buttons and squares alone.
LEMMA EncodersAside ==
  ASSUME NEW s, NEW S, Tells(s, Of("encoder", S))
  PROVE  \A e : e.type # "encoder" => Updates(s, e, e)
<1> SUFFICES ASSUME NEW e, e.type # "encoder"
             PROVE  Updates(s, e, e)
  OBVIOUS
<1>1. Key(e) \notin Of("encoder", S)
  BY DEF Key, Of
<1> QED  BY <1>1, OthersUpdate, Zenon

\* The Kontrol S2 Mk2.
LEMMA S2Keeps ==
  ASSUME NEW m, NEW rep, Shaped("s2", m)
  PROVE  Keeps("s2", m, S2!ReadCb(m, rep))
<1> DEFINE b == rep.b
           p(h) == Panel(23, 0, 51, 23, 0, 0, h)
<1>1. OfSize(m.hw, 74) /\ "hw" \in DOMAIN m
      /\ \A n : Shaped("s2", n) <=> OfSize(n.hw, 74) /\ "hw" \in DOMAIN n
  BY DEF Shaped, OfSize
<1>2. \A n : Remembered("s2", n) = p(n.hw)
  <2>1. \A h : Pads(0, 0, h) = {}
    BY DEF Pads
  <2> QED  BY <2>1 DEF Remembered, Panel
<1> HIDE DEF b
<1>3. Keeps("s2", m, S2!ReadJogs(m, b))
  <2> DEFINE r == S2!ReadJogs(m, b)
             turned == S2!Moved(2, 0, [i \in 0..1 |-> b[1 + 4 * i]], [i \in 0..1 |-> m.jog[i].pos])
             wheels == [n \in 1..Len(turned) |->
                          S2!Encoder(turned[n],
                                     S2!Jog(m.jog[turned[n]], b[1 + 4 * turned[n]]).delta)]
             k == S2!ScanButtons(S2!ButtonRows, 23, b, m.hw)
             jog == [i \in 0..1 |-> S2!Jog(m.jog[i], b[1 + 4 * i]).jog]
  <2>1. r = [m |-> [m EXCEPT !.hw = k.hw, !.jog = jog], ev |-> wheels \o k.ev]
    BY Zenon DEF S2!ReadJogs
  <2>2. ButtonLoop(k, 51, 23, m.hw)
    <3>1. Len(S2!ButtonRows) = 51 /\ 51 \in Nat /\ 23 \in Int
      BY TableSizes
    <3> QED  BY <3>1, ButtonLoops, Zenon
  <2>3. turned \in Seq(0..(2 - 1))
    BY DriverMoved
  <2> HIDE DEF r, turned, k, jog
  <2>4. \A e : e.type # "encoder" => Updates(wheels, e, e)
    <3>1. Len(turned) \in Nat /\ \A n \in 1..Len(turned) : turned[n] \in 0..(2 - 1)
      BY <2>3, MovedPlace
    <3>2. \A n \in 1..Len(turned) : Key(wheels[n]) \in Of("encoder", 0..1)
      BY <3>1 DEF S2!Encoder, Key, Of
    <3>3. Tells(wheels, Of("encoder", 0..1))
      BY <3>1, <3>2, TellsEach
    <3> HIDE DEF wheels
    <3> QED  BY <3>3, EncodersAside, Zenon
  <2> HIDE DEF wheels
  <2>5. r.m.hw = k.hw /\ r.ev = wheels \o k.ev /\ "hw" \in DOMAIN r.m
    BY <1>1, <2>1
  <2>6. Hears(p(m.hw), wheels, p(m.hw))
    BY <2>4, PanelOfSteps, Zenon
  <2>7. Hears(p(m.hw), k.ev, p(k.hw)) /\ OfSize(k.hw, 74)
    BY <1>1, <2>2, PanelsFit, PanelHeard, Zenon
  <2> HIDE DEF p
  <2>8. Hears(p(m.hw), wheels \o k.ev, p(k.hw))
    BY <2>6, <2>7, HearsBoth, Zenon
  <2> QED  BY <1>1, <1>2, <2>5, <2>7, <2>8, Zenon DEF Keeps, r
<1>4. Keeps("s2", m, S2!ReadDials(m, b))
  <2> DEFINE r == S2!ReadDials(m, b)
             enc == [i \in 0..8 |-> IF i % 2 = 0 THEN S2!Low(b[1 + i \div 2])
                                    ELSE S2!High(b[1 + i \div 2])]
             s == S2!ScanSliders(S2!SliderRows, 4, b, m.hw)
             steps == S2!Steps(9, enc, m.enc, 2)
  <2>1. r = [m |-> [m EXCEPT !.hw = s.hw, !.enc = enc], ev |-> steps \o s.ev]
    BY Zenon DEF S2!ReadDials
  <2>2. SliderLoop(s, 23, 0, m.hw)
    <3>1. Len(S2!SliderRows) = 23 /\ 23 \in Nat
      BY TableSizes
    <3> QED  BY <3>1, SliderLoops, Zenon
  <2> HIDE DEF r, s, enc
  <2>3. \A e : e.type # "encoder" => Updates(steps, e, e)
    <3>1. 9 \in Nat /\ 2 \in Nat
      OBVIOUS
    <3> QED  BY <3>1, StepLoops, Zenon
  <2> HIDE DEF steps
  <2>4. r.m.hw = s.hw /\ r.ev = steps \o s.ev /\ "hw" \in DOMAIN r.m
    BY <1>1, <2>1
  <2>5. Hears(p(m.hw), steps, p(m.hw))
    BY <2>3, PanelOfSteps, Zenon
  <2>6. Hears(p(m.hw), s.ev, p(s.hw)) /\ OfSize(s.hw, 74)
    BY <1>1, <2>2, PanelsFit, PanelHeard, Zenon
  <2> HIDE DEF p
  <2>7. Hears(p(m.hw), steps \o s.ev, p(s.hw))
    BY <2>5, <2>6, HearsBoth, Zenon
  <2> QED  BY <1>1, <1>2, <2>4, <2>6, <2>7, Zenon DEF Keeps, r
<1>5. CASE rep.size = 17
  BY <1>3, <1>5 DEF S2!ReadCb, b
<1>6. CASE rep.size = 51
  BY <1>4, <1>6 DEF S2!ReadCb, b
<1>7. CASE rep.size \notin {17, 51}
  <2>1. S2!ReadCb(m, rep) = [m |-> m, ev |-> <<>>]
    BY <1>7 DEF S2!ReadCb, S2!Silent
  <2> QED  BY <2>1, SilentKeeps
<1> QED  BY <1>5, <1>6, <1>7

\* The Kontrol S5 remembers nothing and tells nothing.
LEMMA S5Keeps ==
  ASSUME NEW m, NEW rep, Shaped("s5", m)
  PROVE  Keeps("s5", m, S5!ReadCb(m, rep))
<1>1. S5!ReadCb(m, rep) = [m |-> m, ev |-> <<>>]
  BY DEF S5!ReadCb, S5!Silent
<1> QED  BY <1>1, SilentKeeps

\* The Kontrol D2.
LEMMA D2Keeps ==
  ASSUME NEW m, NEW rep, Shaped("d2", m)
  PROVE  Keeps("d2", m, D2!ReadCb(m, rep))
<1> DEFINE b == rep.b
           p(h) == Panel(8, 4, 58, 12, 0, 0, h)
           q(x) == {Button(D2!TouchButton, x)}
<1>1. /\ OfSize(m.hw, 70) /\ {"hw", "touch"} \subseteq DOMAIN m
      /\ \A n : Shaped("d2", n) <=> OfSize(n.hw, 70) /\ {"hw", "touch"} \subseteq DOMAIN n
  BY DEF Shaped, OfSize
<1>2. \A n : Remembered("d2", n) = p(n.hw) \cup q(n.touch)
  <2>1. \A h : Pads(0, 0, h) = {}
    BY DEF Pads
  <2> QED  BY <2>1 DEF Remembered, Panel
<1>3. \A x : \A e \in q(x) : /\ e.type = "button" /\ Key(e) = <<"button", 58, 0>>
  BY DEF Button, Key, D2!TouchButton
<1>4. \A h : \A e \in p(h) : /\ e.type # "encoder" /\ Key(e) # <<"button", 58, 0>>
                             /\ Key(e) # <<"slider", 8, 0>>
  <2>1. \A h : Pads(0, 0, h) = {}
    BY DEF Pads
  <2>2. \A h : \A e \in Sliders(8, 4, h) : e.type # "encoder" /\ Key(e) # <<"button", 58, 0>>
                                           /\ Key(e) # <<"slider", 8, 0>>
    BY DEF Sliders, Slider, Key
  <2>3. \A h : \A e \in Buttons(58, 12, h) : e.type # "encoder" /\ Key(e) # <<"button", 58, 0>>
                                             /\ Key(e) # <<"slider", 8, 0>>
    BY DEF Buttons, Button, Key
  <2> QED  BY <2>1, <2>2, <2>3, Zenon DEF Panel
<1> HIDE DEF b, q
<1>5. Keeps("d2", m, D2!ReadDials(m, b))
  <2> DEFINE r == D2!ReadDials(m, b)
             now == [i \in 0..3 |-> D2!Word(b, 2 * i + 1)]
             dial == [i \in 0..(4 - 1) |-> now[i]]
             turned == D2!Moved(4, 0, dial, m.dial)
             dials == [n \in 1..Len(turned) |->
                         D2!Encoder(turned[n], dial[turned[n]] - m.dial[turned[n]])]
             dialHw == [t \in DOMAIN m.dial |-> IF t - 0 \in DOMAIN dial THEN dial[t - 0]
                                                ELSE m.dial[t]]
             fader == [i \in 0..(8 - 1) |-> D2!Word(b, 2 * i + 9)]
             slid == D2!Moved(8, 4, fader, m.hw)
             faders == [n \in 1..Len(slid) |-> D2!Slider(slid[n], fader[slid[n]])]
             hw == [t \in DOMAIN m.hw |-> IF t - 4 \in DOMAIN fader THEN fader[t - 4] ELSE m.hw[t]]
             s == [hw |-> hw, ev |-> faders]
  <2>1. r = [m |-> [m EXCEPT !.hw = hw, !.dial = dialHw], ev |-> dials \o faders]
    BY Zenon DEF D2!ReadDials, D2!Scan
  <2>2. turned \in Seq(0..(4 - 1)) /\ slid \in Seq(0..(8 - 1))
    <3> HIDE DEF dial, fader
    <3> QED  BY DriverMoved
  <2>3. hw = Scanned(8, 4, fader, m.hw)
    BY DEF Scanned
  <2>4. slid = Moved(8, 4, fader, m.hw)
    <3> HIDE DEF fader
    <3> QED  BY SameMoved, Zenon
  <2> HIDE DEF r, now, dial, turned, dialHw, fader, slid, hw
  <2>5. /\ Len(turned) \in Nat /\ \A n \in 1..Len(turned) : turned[n] \in 0..(4 - 1)
        /\ Len(slid) \in Nat /\ \A n \in 1..Len(slid) : slid[n] \in 0..(8 - 1)
    BY <2>2, MovedPlace
  <2>6. \A e : e.type # "encoder" => Updates(dials, e, e)
    <3>1. \A n \in 1..Len(turned) : Key(dials[n]) \in Of("encoder", 0..3)
      BY <2>5 DEF D2!Encoder, Key, Of
    <3>2. Tells(dials, Of("encoder", 0..3))
      BY <2>5, <3>1, TellsEach
    <3> HIDE DEF dials
    <3> QED  BY <3>2, EncodersAside, Zenon
  <2>7. SliderLoop(s, 8, 4, m.hw)
    <3>1. faders = [n \in 1..Len(slid) |-> Slider(slid[n], fader[slid[n]])]
      BY DEF D2!Slider, Slider
    <3>2. s.hw = hw /\ s.ev = faders
      OBVIOUS
    <3>3. SliderScan(s, 8, 4, fader, m.hw) /\ 8 \in Nat /\ 4 \in Int
      <4> HIDE DEF faders, s
      <4> QED  BY <2>3, <2>4, <3>1, <3>2 DEF SliderScan
    <3> HIDE DEF s
    <3> QED  BY <3>3, SlidersUpdate, Zenon
  <2> HIDE DEF dials
  <2>8. s.hw = hw /\ s.ev = faders
    OBVIOUS
  <2> HIDE DEF s, faders
  <2>9. r.m.hw = s.hw /\ r.m.touch = m.touch /\ r.ev = dials \o s.ev /\ {"hw", "touch"} \subseteq DOMAIN r.m
    BY <1>1, <2>1, <2>8
  <2>10. Hears(p(m.hw), dials, p(m.hw)) /\ Hears(q(m.touch), dials, q(m.touch))
    <3>1. \A e \in q(m.touch) : Updates(dials, e, e)
      BY <1>3, <2>6
    <3> QED  BY <2>6, <3>1, PanelOfSteps, HearsAside, Zenon
  <2>11. Hears(p(m.hw), s.ev, p(s.hw)) /\ OfSize(s.hw, 70)
    BY <1>1, <2>7, PanelsFit, PanelHeard, Zenon
  <2>12. Hears(q(m.touch), s.ev, q(m.touch))
    <3>1. \A e \in q(m.touch) : Key(e) \notin Of("slider", 0..(8 - 1))
      BY <1>3 DEF Of
    <3>2. \A e \in q(m.touch) : Updates(s.ev, e, e)
      BY <2>7, <3>1, Zenon DEF SliderLoop
    <3> QED  BY <3>2, HearsAside, Zenon
  <2> HIDE DEF p
  <2>13. Hears(p(m.hw), dials \o s.ev, p(s.hw)) /\ Hears(q(m.touch), dials \o s.ev, q(m.touch))
    BY <2>10, <2>11, <2>12, HearsBoth, Zenon
  <2>14. Hears(p(m.hw) \cup q(m.touch), dials \o s.ev, p(s.hw) \cup q(m.touch))
    BY <2>13, HearsUnion, Zenon
  <2>15. Remembered("d2", m) = p(m.hw) \cup q(m.touch) /\ Remembered("d2", r.m) = p(s.hw) \cup q(m.touch)
    BY <1>2, <2>9, Zenon
  <2> QED  BY <1>1, <2>9, <2>11, <2>14, <2>15, Zenon DEF Keeps, r
<1>6. Keeps("d2", m, D2!ReadButtons(m, b))
  <2> DEFINE r == D2!ReadButtons(m, b)
             enc == [i \in {0, 1} |-> IF i = 0 THEN D2!High(b[1]) ELSE D2!Low(b[1])]
             k == D2!ScanButtons(D2!ButtonRows, 12, b, m.hw)
             steps == D2!Steps(2, enc, m.enc, 4)
             v == D2!Word(b, 13)
             touch == D2!Pressed(v)
             button == D2!Button(D2!TouchButton, touch)
             slider == D2!Slider(D2!StripSlider, v)
             one == IF touch # m.touch THEN <<button>> ELSE <<>>
             two == IF v > 0 THEN <<slider>> ELSE <<>>
  <2>1. r = [m |-> [m EXCEPT !.hw = k.hw, !.enc = enc, !.touch = touch],
             ev |-> k.ev \o steps \o (one \o two)]
    BY Zenon DEF D2!ReadButtons, D2!ReadStrip
  <2>2. ButtonLoop(k, 58, 12, m.hw)
    <3>1. Len(D2!ButtonRows) = 58 /\ 58 \in Nat /\ 12 \in Int
      BY TableSizes
    <3> QED  BY <3>1, ButtonLoops, Zenon
  <2>3. \A e : e.type # "encoder" => Updates(steps, e, e)
    <3>1. 2 \in Nat /\ 4 \in Nat
      OBVIOUS
    <3> HIDE DEF enc
    <3> QED  BY <3>1, StepLoops, Zenon
  <2>4. Key(button) = <<"button", 58, 0>> /\ button.type # "encoder"
        /\ Normal(button) = Button(D2!TouchButton, touch)
        /\ Key(button) = Key(Button(D2!TouchButton, touch))
        /\ Key(slider) = <<"slider", 8, 0>>
    BY DEF D2!Button, D2!TouchButton, D2!Slider, D2!StripSlider, Key, Normal, Button
  <2> HIDE DEF r, enc, k, v, touch, button, slider, steps
  <2>5. r.m.hw = k.hw /\ r.m.touch = touch /\ r.ev = k.ev \o steps \o (one \o two)
        /\ {"hw", "touch"} \subseteq DOMAIN r.m
    <3> HIDE DEF one, two
    <3> QED  BY <1>1, <2>1
  <2>6. Hears(q(m.touch), one, q(touch))
    <3>1. touch # m.touch \/ Button(D2!TouchButton, m.touch) = Button(D2!TouchButton, touch)
      OBVIOUS
    <3>2. Hears({Button(D2!TouchButton, m.touch)}, one, {Button(D2!TouchButton, touch)})
      BY <2>4, <3>1, HearsOne
    <3> QED  BY <3>2 DEF q
  <2>7. Hears(p(k.hw), one, p(k.hw))
    BY <1>4, <2>4, HearsOneAside
  <2>8. Hears(p(k.hw), two, p(k.hw)) /\ Hears(q(touch), two, q(touch))
    <3>1. (\A e \in p(k.hw) : Key(e) # Key(slider)) /\ \A e \in q(touch) : Key(e) # Key(slider)
      BY <1>3, <1>4, <2>4
    <3> QED  BY <3>1, HearsOneAside, Zenon
  <2>9. Hears(p(m.hw), k.ev, p(k.hw)) /\ OfSize(k.hw, 70)
    BY <1>1, <2>2, PanelsFit, PanelHeard, Zenon
  <2>10. Hears(q(m.touch), k.ev, q(m.touch))
    <3>1. \A e \in q(m.touch) : Key(e) \notin Of("button", 0..(58 - 1))
      BY <1>3 DEF Of
    <3>2. \A e \in q(m.touch) : Updates(k.ev, e, e)
      BY <2>2, <3>1, Zenon DEF ButtonLoop
    <3> QED  BY <3>2, HearsAside, Zenon
  <2>11. Hears(p(k.hw), steps, p(k.hw)) /\ Hears(q(m.touch), steps, q(m.touch))
    <3>1. \A e \in q(m.touch) : Updates(steps, e, e)
      BY <1>3, <2>3
    <3> QED  BY <2>3, <3>1, PanelOfSteps, HearsAside, Zenon
  <2> HIDE DEF p, one, two
  <2>12. Hears(p(m.hw), k.ev \o steps \o (one \o two), p(k.hw))
    BY <2>7, <2>8, <2>9, <2>11, HearsBoth, Zenon
  <2>13. Hears(q(m.touch), k.ev \o steps \o (one \o two), q(touch))
    BY <2>6, <2>8, <2>10, <2>11, HearsBoth, Zenon
  <2>14. Hears(p(m.hw) \cup q(m.touch), k.ev \o steps \o (one \o two), p(k.hw) \cup q(touch))
    BY <2>12, <2>13, HearsUnion, Zenon
  <2>15. Remembered("d2", m) = p(m.hw) \cup q(m.touch) /\ Remembered("d2", r.m) = p(k.hw) \cup q(touch)
    BY <1>2, <2>5, Zenon
  <2> QED  BY <1>1, <2>5, <2>9, <2>14, <2>15, Zenon DEF Keeps, r
<1>7. CASE rep.size = 25
  BY <1>5, <1>7 DEF D2!ReadCb, b
<1>8. CASE rep.size = 17
  BY <1>6, <1>8 DEF D2!ReadCb, b
<1>9. CASE rep.size \notin {25, 17}
  <2>1. D2!ReadCb(m, rep) = [m |-> m, ev |-> <<>>]
    BY <1>9 DEF D2!ReadCb, D2!Silent
  <2> QED  BY <2>1, SilentKeeps
<1> QED  BY <1>7, <1>8, <1>9

\* One step after the other.
LEMMA KeepsBoth ==
  ASSUME NEW d, NEW m, NEW r, NEW s, NEW q, Keeps(d, m, r), Keeps(d, r.m, s),
         q = [m |-> s.m, ev |-> r.ev \o s.ev]
  PROVE  Keeps(d, m, q)
<1>1. q.m = s.m /\ q.ev = r.ev \o s.ev
  OBVIOUS
<1>2. Hears(Remembered(d, m), r.ev \o s.ev, Remembered(d, s.m))
  BY HearsBoth, Zenon DEF Keeps
<1> QED  BY <1>1, <1>2, Zenon DEF Keeps

\* Events about controls that are not among those of R.
LEMMA HearsOthers ==
  ASSUME NEW R, NEW s, NEW K, Tells(s, K), \A e \in R : Key(e) \notin K
  PROVE  Hears(R, s, R)
<1>1. \A e \in R : Updates(s, e, e)
  BY OthersUpdate, Zenon
<1> QED  BY <1>1, HearsAside, Zenon

\* A loop over squares that are in the order of their slots, and tells of each what
\* it remembers.
InOrder(n, now, hw) ==
  LET t == Moved(n, 0, now, hw)
  IN [hw |-> Scanned(n, 0, now, hw), ev |-> [k \in 1..Len(t) |-> Grid(0, t[k], now[t[k]])]]

\* That is a loop over squares.
LEMMA InOrderLoop ==
  ASSUME NEW n \in Nat, NEW now, NEW hw
  PROVE  SquareLoop(InOrder(n, now, hw), n, 0, InPlace(n), hw)
<1> DEFINE t == Moved(n, 0, now, hw)
           ev == [k \in 1..Len(t) |-> Grid(0, t[k], now[t[k]])]
           r == InOrder(n, now, hw)
<1>1. r.hw = Scanned(n, 0, now, hw) /\ r.ev = ev
  BY DEF InOrder
<1>2. t \in Seq(0..(n - 1))
  BY MovedShape
<1> HIDE DEF t, r
<1>3. \A k \in 1..Len(t) : t[k] \in 0..(n - 1)
  BY <1>2, MovedPlace
<1>4. ev = [k \in 1..Len(t) |-> Grid(0, InPlace(n)[t[k]], now[t[k]])]
  BY <1>3 DEF InPlace
<1>5. /\ \A i, j \in 0..(n - 1) : j # i => InPlace(n)[j] # InPlace(n)[i]
      /\ \A i \in 0..(n - 1) : Pressed(now[i]) = Pressed(now[i])
  BY DEF InPlace
<1> HIDE DEF ev
<1>6. SquareScan(r, n, 0, InPlace(n), now, now, hw)
  BY <1>1, <1>4, <1>5 DEF SquareScan, t
<1>7. 0 \in Int
  OBVIOUS
<1>8. SquareLoop(r, n, 0, InPlace(n), hw)
  BY <1>6, <1>7, SquaresUpdate
<1> QED  BY <1>8 DEF r

\* The buttons and the squares of a driver that has an array for either.
Desk(n, hw, pads) == Buttons(n, 0, hw) \cup Pads(16, 0, pads)

\* A loop over either array is heard of both.
LEMMA DeskHeard ==
  ASSUME NEW n \in Nat, NEW hw, NEW pads, OfSize(hw, n), OfSize(pads, 16), NEW r
  PROVE  /\ ButtonLoop(r, n, 0, hw) =>
              Hears(Desk(n, hw, pads), r.ev, Desk(n, r.hw, pads)) /\ OfSize(r.hw, n)
         /\ SquareLoop(r, 16, 0, InPlace(16), pads) =>
              Hears(Desk(n, hw, pads), r.ev, Desk(n, hw, r.hw)) /\ OfSize(r.hw, 16)
<1>0. /\ 0 \in Nat /\ 16 \in Nat /\ 0 + n <= n /\ 0 + 16 <= 16
      /\ DOMAIN hw = 0..(n - 1) /\ DOMAIN pads = 0..(16 - 1)
  BY DEF OfSize
<1>1. ASSUME ButtonLoop(r, n, 0, hw)
      PROVE  Hears(Desk(n, hw, pads), r.ev, Desk(n, r.hw, pads)) /\ OfSize(r.hw, n)
  <2>1. /\ Hears(Buttons(n, 0, hw), r.ev, Buttons(n, 0, r.hw))
        /\ \A e : e.type # "button" => Updates(r.ev, e, e)
    BY <1>0, <1>1, ButtonsHeard, Zenon
  <2>2. \A e \in Pads(16, 0, pads) : e.type # "button"
    BY Kinds
  <2>3. Hears(Pads(16, 0, pads), r.ev, Pads(16, 0, pads))
    BY <2>1, <2>2, HearsAside, Zenon
  <2>4. OfSize(r.hw, n)
    BY <1>0, <1>1, Zenon DEF ButtonLoop, OfSize
  <2> QED  BY <2>1, <2>3, <2>4, HearsUnion, Zenon DEF Desk
<1>2. ASSUME SquareLoop(r, 16, 0, InPlace(16), pads)
      PROVE  Hears(Desk(n, hw, pads), r.ev, Desk(n, hw, r.hw)) /\ OfSize(r.hw, 16)
  <2>1. /\ Hears(Pads(16, 0, pads), r.ev, Pads(16, 0, r.hw))
        /\ \A e : e.type # "grid" => Updates(r.ev, e, e)
    BY <1>0, <1>2, PadsHeard, Zenon
  <2>2. \A e \in Buttons(n, 0, hw) : e.type # "grid"
    BY Kinds
  <2>3. Hears(Buttons(n, 0, hw), r.ev, Buttons(n, 0, hw))
    BY <2>1, <2>2, HearsAside, Zenon
  <2>4. OfSize(r.hw, 16)
    BY <1>0, <1>2, Zenon DEF SquareLoop, OfSize
  <2> QED  BY <2>1, <2>3, <2>4, HearsUnion, Zenon DEF Desk
<1> QED  BY <1>1, <1>2

\* What a desk is not about.
LEMMA DeskKeys ==
  ASSUME NEW n \in Nat, NEW hw, NEW pads, NEW e \in Desk(n, hw, pads)
  PROVE  /\ e.type # "encoder" /\ e.type # "slider"
         /\ \A S : Key(e) \notin Of("encoder", S)
         /\ Key(e) # <<"button", n, 0>>
<1>1. CASE e \in Buttons(n, 0, hw)
  BY <1>1 DEF Buttons, Button, Key, Of
<1>2. CASE e \in Pads(16, 0, pads)
  BY <1>2 DEF Pads, Grid, Key, Of
<1> QED  BY <1>1, <1>2 DEF Desk

\* The Maschine Mk3. Its pedal and its strip are told apart from what is remembered.
LEMMA Mk3Keeps ==
  ASSUME NEW m, NEW rep, Shaped("mk3", m)
  PROVE  Keeps("mk3", m, Mk3!ReadCb(m, rep))
<1> DEFINE b == rep.b
           p(hw, hit) == Desk(72, hw, hit)
<1>1. \A n : Shaped("mk3", n) <=>
               OfSize(n.hw, 72) /\ OfSize(n.hit, 16) /\ {"hw", "hit"} \subseteq DOMAIN n
  BY DEF Shaped, OfSize
<1>2. \A n : Remembered("mk3", n) = p(n.hw, n.hit)
  BY DEF Remembered, Desk
<1>3. 72 \in Nat /\ 16 \in Nat /\ 0 \in Int /\ 0 \in Nat /\ 1 \in Nat /\ Len(Mk3!ButtonRows) = 72
  BY TableSizes
<1> HIDE DEF b
<1>4. ASSUME NEW mem0, Shaped("mk3", mem0), NEW at
      PROVE  Keeps("mk3", mem0, Mk3!ReadPads(mem0, b, at))
  <2> DEFINE r == Mk3!ReadPads(mem0, b, at)
             now == [i \in 0..(16 - 1) |-> Mk3!PadsHit(b, at, mem0.hit)[i]]
             moved == Mk3!Moved(16, 0, now, mem0.hit)
             ev == [n \in 1..Len(moved) |-> Mk3!Grid(0, moved[n], now[moved[n]])]
             hit == [t \in DOMAIN mem0.hit |-> IF t - 0 \in DOMAIN now THEN now[t - 0]
                                               ELSE mem0.hit[t]]
             g == InOrder(16, now, mem0.hit)
  <2>1. r = [m |-> [mem0 EXCEPT !.hit = hit], ev |-> ev]
    BY Zenon DEF Mk3!ReadPads, Mk3!PadSet, Mk3!Scan
  <2>2. moved = Moved(16, 0, now, mem0.hit)
    <3> HIDE DEF now
    <3> QED  BY SameMoved, Zenon
  <2>3. hit = Scanned(16, 0, now, mem0.hit)
    BY DEF Scanned
  <2> HIDE DEF now, hit, r, moved
  <2>4. g.hw = hit /\ g.ev = ev
    BY <2>2, <2>3 DEF InOrder, Mk3!Grid, Grid
  <2> HIDE DEF g, ev
  <2>5. /\ r.m.hw = mem0.hw /\ r.m.hit = g.hw /\ r.ev = g.ev
        /\ {"hw", "hit"} \subseteq DOMAIN r.m
    BY <1>1, <1>4, <2>1, <2>4
  <2>6. SquareLoop(g, 16, 0, InPlace(16), mem0.hit)
    BY <1>3, InOrderLoop, Zenon DEF g
  <2>7. OfSize(mem0.hw, 72) /\ OfSize(mem0.hit, 16)
    BY <1>1, <1>4
  <2>8. Hears(p(mem0.hw, mem0.hit), g.ev, p(mem0.hw, g.hw)) /\ OfSize(g.hw, 16)
    BY <2>6, <2>7, DeskHeard
  <2> HIDE DEF p
  <2> QED  BY <1>1, <1>2, <2>5, <2>7, <2>8, Zenon DEF Keeps, r
<1>5. Keeps("mk3", m, Mk3!ReadControls(m, b))
  <2> DEFINE r == Mk3!ReadControls(m, b)
             v == Mk3!Word(b, 30)
             enc == [i \in {0} |-> Mk3!Low(b[11])]
             c == m.known /\ v # 0 /\ v # m.strip
             strip == IF c THEN <<Mk3!Slider(0, v)>> ELSE <<>>
             pedal == Mk3!ReadPedal(m, b)
             k == Mk3!ScanButtons(Mk3!ButtonRows, 0, b, m.hw)
             dials == Mk3!ReadDials(m, b)
             main == Mk3!ReadMain(m, enc)
             dial == [i \in 0..7 |-> Mk3!Word(b, 12 + 2 * i)]
             pos == IF c \/ ~m.known THEN v ELSE m.strip
  <2>1. r = [m |-> [m EXCEPT !.hw = k.hw, !.enc = enc, !.known = TRUE,
                             !.pedal = Mk3!PedalOf(b), !.dial = dial, !.strip = pos],
             ev |-> pedal \o strip \o k.ev \o dials \o main]
    BY Zenon DEF Mk3!ReadControls
  <2>2. ButtonLoop(k, 72, 0, m.hw)
    BY <1>3, ButtonLoops, Zenon
  <2>3. \A hw, hit : \A e \in p(hw, hit) :
          /\ e.type # "encoder" /\ e.type # "slider"
          /\ \A S : Key(e) \notin Of("encoder", S)
          /\ Key(e) # <<"button", 72, 0>>
    BY <1>3, DeskKeys, Zenon
  <2> HIDE DEF k, r, pos
  <2>4. \A hw, hit : Hears(p(hw, hit), pedal, p(hw, hit))
    <3> DEFINE e == Mk3!Button(72, Mk3!PedalOf(b) % 2)
    <3>1. pedal = IF ~(Mk3!PedalOf(b) = m.pedal) THEN <<e>> ELSE <<>>
      BY DEF Mk3!ReadPedal
    <3>2. Key(e) = <<"button", 72, 0>>
      BY DEF Mk3!Button, Key
    <3> HIDE DEF e, pedal, p
    <3>3. \A hw, hit : \A f \in p(hw, hit) : Key(f) # Key(e)
      BY <2>3, <3>2, Zenon
    <3> QED  BY <3>1, <3>3, HearsOneAside
  <2>5. \A hw, hit : Hears(p(hw, hit), strip, p(hw, hit))
    <3> DEFINE e == Mk3!Slider(0, v)
    <3>1. Key(e)[1] = "slider" /\ \A f : Key(f)[1] = f.type
      BY DEF Mk3!Slider, Key
    <3>2. strip = IF c THEN <<e>> ELSE <<>>
      OBVIOUS
    <3> HIDE DEF e, c, p, strip
    <3>3. \A hw, hit : \A f \in p(hw, hit) : Key(f) # Key(e)
      BY <2>3, <3>1, Zenon
    <3> QED  BY <3>2, <3>3, HearsOneAside
  <2> HIDE DEF strip, pedal, c, v
  <2>6. \A hw, hit : Hears(p(hw, hit), dials, p(hw, hit))
    <3> DEFINE rows == [i \in 1..8 |-> i - 1]
               turned == {i \in 0..7 :
                            m.known /\ Mk3!DialMoved(Mk3!Word(b, 12 + 2 * i) - m.dial[i])}
               moved == Mk3!Only(rows, turned)
               ev == [n \in 1..Len(moved) |->
                        Mk3!Encoder(moved[n] + 1,
                                    Mk3!Word(b, 12 + 2 * moved[n]) - m.dial[moved[n]])]
    <3>1. dials = ev
      BY Zenon DEF Mk3!ReadDials
    <3>2. moved \in Seq(0..(8 - 1))
      <4>1. rows \in [1..8 -> 0..(8 - 1)]
        OBVIOUS
      <4>2. rows \in Seq(0..(8 - 1))
        BY <4>1, SeqDef
      <4> HIDE DEF rows, turned
      <4>3. Only(rows, turned) \in Seq(0..(8 - 1))
        BY <4>2, OnlyShape
      <4> QED  BY <4>3, SameOnly, Zenon
    <3> HIDE DEF moved
    <3>3. Len(moved) \in Nat /\ \A n \in 1..Len(moved) : moved[n] \in 0..(8 - 1)
      BY <3>2, MovedPlace
    <3>4. ASSUME NEW i \in 0..(8 - 1), NEW d
          PROVE  Key(Mk3!Encoder(i + 1, d)) \in Of("encoder", 1..8)
      <4>1. i + 1 \in 1..8
        OBVIOUS
      <4> QED  BY <4>1 DEF Mk3!Encoder, Key, Of
    <3>5. \A n \in 1..Len(moved) : Key(ev[n]) \in Of("encoder", 1..8)
      BY <3>3, <3>4
    <3>6. Tells(ev, Of("encoder", 1..8))
      BY <3>3, <3>5, TellsEach
    <3> HIDE DEF ev, p
    <3> QED  BY <2>3, <3>1, <3>6, HearsOthers, Zenon
  <2>7. \A hw, hit : Hears(p(hw, hit), main, p(hw, hit))
    <3> DEFINE steps == Mk3!Steps(1, enc, m.enc, 0)
    <3>1. Of("encoder", 0..(0 + 1 - 1)) \subseteq Of("encoder", 0..(0 + 1 - 1))
      OBVIOUS
    <3>2. Tells(steps, Of("encoder", 0..(0 + 1 - 1)))
      <4> HIDE DEF enc
      <4> QED  BY <3>1, StepsTold
    <3>3. main = IF m.known THEN steps ELSE <<>>
      BY Zenon DEF Mk3!ReadMain
    <3> HIDE DEF steps, main, p
    <3>4. Tells(main, Of("encoder", 0..(0 + 1 - 1)))
      BY <3>2, <3>3, TellsIf
    <3> QED  BY <2>3, <3>4, HearsOthers, Zenon
  <2> HIDE DEF dials, main, enc, dial
  <2>8. /\ r.m.hw = k.hw /\ r.m.hit = m.hit /\ {"hw", "hit"} \subseteq DOMAIN r.m
        /\ r.ev = pedal \o strip \o k.ev \o dials \o main
    BY <1>1, <2>1
  <2>9. OfSize(m.hw, 72) /\ OfSize(m.hit, 16)
    BY <1>1
  <2>10. Hears(p(m.hw, m.hit), k.ev, p(k.hw, m.hit)) /\ OfSize(k.hw, 72)
    BY <1>3, <2>2, <2>9, DeskHeard, Zenon
  <2>11. Hears(p(m.hw, m.hit), pedal \o strip \o k.ev \o dials \o main, p(k.hw, m.hit))
    <3> DEFINE R == p(m.hw, m.hit)
               Q == p(k.hw, m.hit)
    <3>1. /\ Hears(R, pedal, R) /\ Hears(R, strip, R) /\ Hears(R, k.ev, Q)
          /\ Hears(Q, dials, Q) /\ Hears(Q, main, Q)
      BY <2>4, <2>5, <2>6, <2>7, <2>10, Zenon
    <3> HIDE DEF R, Q
    <3>2. Hears(R, pedal \o strip \o k.ev \o dials \o main, Q)
      BY <3>1, HearsBoth, Zenon
    <3> QED  BY <3>2, Zenon DEF R, Q
  <2> HIDE DEF p
  <2> QED  BY <1>1, <1>2, <2>8, <2>9, <2>10, <2>11, Zenon DEF Keeps, r
<1>6. CASE rep.size = 128
  <2> DEFINE first == Mk3!ReadPads(m, b, 0)
             second == Mk3!ReadPads(first.m, b, 64)
             r == Mk3!ReadCb(m, rep)
  <2>1. r = [m |-> second.m, ev |-> first.ev \o second.ev]
    BY <1>6 DEF Mk3!ReadCb, Mk3!ReadPadSets, b
  <2>2. Keeps("mk3", m, first)
    BY <1>4
  <2>3. Keeps("mk3", first.m, second)
    <3>1. Shaped("mk3", first.m)
      BY <2>2, Zenon DEF Keeps
    <3> QED  BY <1>4, <3>1
  <2> HIDE DEF first, second, r
  <2>4. Keeps("mk3", m, r)
    BY <2>1, <2>2, <2>3, KeepsBoth
  <2> QED  BY <2>4 DEF r
<1>7. CASE rep.size = 42
  BY <1>5, <1>7 DEF Mk3!ReadCb, b
<1>8. CASE rep.size \notin {128, 42}
  <2>1. Mk3!ReadCb(m, rep) = [m |-> m, ev |-> <<>>]
    BY <1>8 DEF Mk3!ReadCb, Mk3!Silent
  <2> QED  BY <2>1, SilentKeeps
<1> QED  BY <1>6, <1>7, <1>8

\* The Maschine Mikro Mk2. Its pads are gone over eleven times for one report.
LEMMA Mikro2Keeps ==
  ASSUME NEW m, NEW rep, Shaped("mikro2", m)
  PROVE  Keeps("mikro2", m, Mikro2!ReadCb(m, rep))
<1> DEFINE b == rep.b
           p(hw, pads) == Desk(29, hw, pads)
<1>1. \A n : Shaped("mikro2", n) <=>
               OfSize(n.hw, 29) /\ OfSize(n.pads, 16) /\ {"hw", "pads"} \subseteq DOMAIN n
  BY DEF Shaped, OfSize
<1>2. \A n : Remembered("mikro2", n) = p(n.hw, n.pads)
  BY DEF Remembered, Desk
<1>3. 29 \in Nat /\ 16 \in Nat /\ 0 \in Int /\ 0 \in Nat /\ 1 \in Nat /\ Len(Mikro2!ButtonRows) = 29
  BY TableSizes
<1> HIDE DEF b
<1>4. ASSUME NEW mem0, Shaped("mikro2", mem0)
      PROVE  Keeps("mikro2", mem0, Mikro2!PadPass(mem0, b))
  <2> DEFINE r == Mikro2!PadPass(mem0, b)
             history == [i \in 0..15 |->
                           Mikro2!Sorted([mem0.pressures[i] EXCEPT
                                            ![mem0.idx + 1] = Mikro2!PadValue(b, i)])]
             on(i) == IF Mikro2!Median(history[i]) > 550 THEN 1
                      ELSE IF Mikro2!Median(history[i]) < 100 THEN 0 ELSE mem0.pads[i]
             now == [i \in 0..(16 - 1) |-> on(i)]
             moved == Mikro2!Moved(16, 0, now, mem0.pads)
             ev == [n \in 1..Len(moved) |-> Mikro2!Grid(0, moved[n], now[moved[n]])]
             pads == [t \in DOMAIN mem0.pads |-> IF t - 0 \in DOMAIN now THEN now[t - 0]
                                                 ELSE mem0.pads[t]]
             g == InOrder(16, now, mem0.pads)
  <2>1. r = [m |-> [mem0 EXCEPT !.idx = (@ + 1) % 8, !.pressures = history, !.pads = pads],
             ev |-> ev]
    BY Zenon DEF Mikro2!PadPass, Mikro2!Scan
  <2>2. moved = Moved(16, 0, now, mem0.pads)
    <3> HIDE DEF now
    <3> QED  BY SameMoved, Zenon
  <2>3. pads = Scanned(16, 0, now, mem0.pads)
    <3>1. DOMAIN now = 0..(16 - 1)
      OBVIOUS
    <3> HIDE DEF now
    <3> QED  BY <3>1 DEF Scanned
  <2> HIDE DEF now, history, pads, r, moved
  <2>4. g.hw = pads /\ g.ev = ev
    BY <2>2, <2>3 DEF InOrder, Mikro2!Grid, Grid
  <2> HIDE DEF g, ev
  <2>5. /\ r.m.hw = mem0.hw /\ r.m.pads = g.hw /\ r.ev = g.ev
        /\ {"hw", "pads"} \subseteq DOMAIN r.m
    BY <1>1, <1>4, <2>1, <2>4
  <2>6. SquareLoop(g, 16, 0, InPlace(16), mem0.pads)
    BY <1>3, InOrderLoop, Zenon DEF g
  <2>7. OfSize(mem0.hw, 29) /\ OfSize(mem0.pads, 16)
    BY <1>1, <1>4
  <2>8. Hears(p(mem0.hw, mem0.pads), g.ev, p(mem0.hw, g.hw)) /\ OfSize(g.hw, 16)
    BY <2>6, <2>7, DeskHeard
  <2> HIDE DEF p
  <2> QED  BY <1>1, <1>2, <2>5, <2>7, <2>8, Zenon DEF Keeps, r
<1>5. Keeps("mikro2", m, Mikro2!ReadPads(m, b))
  <2> DEFINE Pass(r) == [m |-> Mikro2!PadPass(r.m, b).m, ev |-> r.ev \o Mikro2!PadPass(r.m, b).ev]
             r0 == [m |-> m, ev |-> <<>>]
             r1 == Pass(r0)
             r2 == Pass(r1)
             r3 == Pass(r2)
             r4 == Pass(r3)
             r5 == Pass(r4)
             r6 == Pass(r5)
             r7 == Pass(r6)
             r8 == Pass(r7)
             r9 == Pass(r8)
             r10 == Pass(r9)
             r11 == Pass(r10)
             passed == [n \in 0..11 |-> <<r0, r1, r2, r3, r4, r5, r6, r7, r8, r9, r10, r11>>[n + 1]]
             IsAfter(f) == f = [n \in 0..11 |-> IF n = 0 THEN r0 ELSE Pass(f[n - 1])]
             after == CHOOSE f : IsAfter(f)
  <2>1. Mikro2!ReadPads(m, b) = after[11]
    BY Zenon DEF Mikro2!ReadPads, Mikro2!Passes, Mikro2!Silent
  <2>2. ASSUME NEW r, Keeps("mikro2", m, r)
        PROVE  Keeps("mikro2", m, Pass(r))
    <3> DEFINE s == Mikro2!PadPass(r.m, b)
               q == Pass(r)
    <3>1. Keeps("mikro2", r.m, s)
      <4>1. Shaped("mikro2", r.m)
        BY <2>2, Zenon DEF Keeps
      <4> QED  BY <1>4, <4>1
    <3>2. q = [m |-> s.m, ev |-> r.ev \o s.ev]
      BY Zenon
    <3> HIDE DEF s, q
    <3>3. Keeps("mikro2", m, q)
      BY <2>2, <3>1, <3>2, KeepsBoth
    <3> QED  BY <3>3, Zenon DEF q
  <2>3. Keeps("mikro2", m, r0)
    BY SilentKeeps, Zenon
  <2> HIDE DEF Pass, r0
  <2>4. IsAfter(passed)
    <3> HIDE DEF r1, r2, r3, r4, r5, r6, r7, r8, r9, r10, r11
    <3>1. /\ passed[0] = r0 /\ passed[1] = r1 /\ passed[2] = r2 /\ passed[3] = r3
          /\ passed[4] = r4 /\ passed[5] = r5 /\ passed[6] = r6 /\ passed[7] = r7
          /\ passed[8] = r8 /\ passed[9] = r9 /\ passed[10] = r10 /\ passed[11] = r11
      OBVIOUS
    <3>2. passed = [n \in 0..11 |-> passed[n]]
      OBVIOUS
    <3> HIDE DEF passed
    <3>3. /\ passed[1] = Pass(passed[0]) /\ passed[2] = Pass(passed[1])
          /\ passed[3] = Pass(passed[2]) /\ passed[4] = Pass(passed[3])
          /\ passed[5] = Pass(passed[4]) /\ passed[6] = Pass(passed[5])
          /\ passed[7] = Pass(passed[6]) /\ passed[8] = Pass(passed[7])
          /\ passed[9] = Pass(passed[8]) /\ passed[10] = Pass(passed[9])
          /\ passed[11] = Pass(passed[10])
      BY <3>1 DEF r1, r2, r3, r4, r5, r6, r7, r8, r9, r10, r11
    <3>4. \A n \in 0..11 : passed[n] = IF n = 0 THEN r0 ELSE Pass(passed[n - 1])
      BY <3>1, <3>3
    <3> QED  BY <3>2, <3>4
  <2>5. IsAfter(after)
    <3> HIDE DEF IsAfter
    <3> QED  BY <2>4
  <2> HIDE DEF after
  <2>6. after[0] = r0 /\ \A n \in 1..11 : after[n] = Pass(after[n - 1])
    BY <2>5
  <2>7. \A n \in 1..11 : Keeps("mikro2", m, after[n - 1]) => Keeps("mikro2", m, after[n])
    BY <2>2, <2>6
  <2>8. Keeps("mikro2", m, after[11])
    <3>1. Keeps("mikro2", m, after[0])
      BY <2>3, <2>6
    <3>2. Keeps("mikro2", m, after[1]) /\ Keeps("mikro2", m, after[2]) /\ Keeps("mikro2", m, after[3])
      BY <2>7, <3>1
    <3>3. Keeps("mikro2", m, after[4]) /\ Keeps("mikro2", m, after[5]) /\ Keeps("mikro2", m, after[6])
      BY <2>7, <3>2
    <3>4. Keeps("mikro2", m, after[7]) /\ Keeps("mikro2", m, after[8]) /\ Keeps("mikro2", m, after[9])
      BY <2>7, <3>3
    <3> QED  BY <2>7, <3>4
  <2> QED  BY <2>1, <2>8
<1>6. Keeps("mikro2", m, Mikro2!ReadButtons(m, b))
  <2> DEFINE r == Mikro2!ReadButtons(m, b)
             enc == [i \in {0} |-> Mikro2!Low(b[5])]
             k == Mikro2!ScanButtons(Mikro2!ButtonRows, 0, b, m.hw)
             steps == Mikro2!Steps(1, enc, m.enc, 29)
  <2>1. r = [m |-> [m EXCEPT !.hw = k.hw, !.enc = enc], ev |-> steps \o k.ev]
    BY Zenon DEF Mikro2!ReadButtons, Mikro2!EncoderRotate
  <2>2. ButtonLoop(k, 29, 0, m.hw)
    BY <1>3, ButtonLoops, Zenon
  <2> HIDE DEF k, enc, r
  <2>3. \A e : e.type # "encoder" => Updates(steps, e, e)
    BY <1>3, StepLoops, Zenon
  <2> HIDE DEF steps
  <2>4. Hears(p(m.hw, m.pads), steps, p(m.hw, m.pads))
    <3>1. \A e \in p(m.hw, m.pads) : e.type # "encoder"
      BY <1>3, DeskKeys, Zenon
    <3> QED  BY <2>3, <3>1, HearsAside, Zenon
  <2>5. /\ r.m.hw = k.hw /\ r.m.pads = m.pads /\ r.ev = steps \o k.ev
        /\ {"hw", "pads"} \subseteq DOMAIN r.m
    BY <1>1, <2>1
  <2>6. OfSize(m.hw, 29) /\ OfSize(m.pads, 16)
    BY <1>1
  <2>7. Hears(p(m.hw, m.pads), k.ev, p(k.hw, m.pads)) /\ OfSize(k.hw, 29)
    BY <2>2, <2>6, DeskHeard
  <2> HIDE DEF p
  <2>8. Hears(p(m.hw, m.pads), steps \o k.ev, p(k.hw, m.pads))
    BY <2>4, <2>7, HearsBoth, Zenon
  <2> QED  BY <1>1, <1>2, <2>5, <2>6, <2>7, <2>8, Zenon DEF Keeps, r
<1>7. CASE rep.size = 65
  BY <1>5, <1>7 DEF Mikro2!ReadCb, b
<1>8. CASE rep.size = 6
  BY <1>6, <1>8 DEF Mikro2!ReadCb, b
<1>9. CASE rep.size \notin {65, 6}
  <2>1. Mikro2!ReadCb(m, rep) = [m |-> m, ev |-> <<>>]
    BY <1>9 DEF Mikro2!ReadCb, Mikro2!Silent
  <2> QED  BY <2>1, SilentKeeps
<1> QED  BY <1>7, <1>8, <1>9

\* The footswitch of a Firmata board.
LEMMA BoardKeeps ==
  ASSUME NEW m, NEW rep, Shaped("firmata", m)
  PROVE  Keeps("firmata", m, Board!ReadCb(m, rep))
<1> DEFINE r == Board!ReadCb(m, rep)
           v == Board!Pressed(Board!Word(rep.b, 0) - 512)
           now == [i \in 0..(1 - 1) |-> v]
           tell == [i \in 0..(1 - 1) |-> Button(i, v)]
           moved == Board!Moved(1, 0, now, m.hw)
           ev == [n \in 1..Len(moved) |-> Board!Button(moved[n], now[moved[n]])]
           hw == [t \in DOMAIN m.hw |-> IF t - 0 \in DOMAIN now THEN now[t - 0] ELSE m.hw[t]]
           S == News(1, 0, now, m.hw)
<1>1. r = [m |-> [hw |-> hw], ev |-> ev]
  BY Zenon DEF Board!ReadCb, Board!Scan
<1>2. DOMAIN m.hw = {0} /\ \A n : Shaped("firmata", n) <=> DOMAIN n.hw = {0}
  BY DEF Shaped
<1>3. \A n : Remembered("firmata", n) = {Button(0, n.hw[0])}
  BY DEF Remembered
<1> HIDE DEF v
<1>4. DOMAIN hw = {0} /\ hw[0] = v
  BY <1>2
<1>5. moved = Moved(1, 0, now, m.hw)
  <2> HIDE DEF now
  <2> QED  BY SameMoved, Zenon
<1>6. 1 \in Nat /\ 0 \in 0..(1 - 1)
  OBVIOUS
<1>7. Lists(moved, 1, S)
  <2> HIDE DEF now, moved
  <2> QED  BY <1>5, <1>6, MovedLists, Zenon
<1>8. Loop(ev, 1, S, tell)
  <2> HIDE DEF moved, S
  <2>1. \A k \in 1..Len(moved) : moved[k] \in 0..(1 - 1)
    BY <1>6, <1>7, MovedPlace DEF Lists
  <2>2. ev = [k \in 1..Len(moved) |-> tell[moved[k]]]
    BY <2>1 DEF Board!Button, Button
  <2> HIDE DEF ev, tell
  <2> QED  BY <1>7, <2>2 DEF Loop
<1>9. Leaves(tell, 1, 0, Button(0, v))
  BY DEF Leaves, Key, Normal, Button
<1>10. 0 \in S \/ Button(0, m.hw[0]) = Button(0, v)
  BY DEF News
<1> HIDE DEF ev, S, tell, hw, r
<1>11. Updates(ev, Button(0, m.hw[0]), Button(0, v))
  BY <1>6, <1>8, <1>9, <1>10, LoopUpdates, Zenon
<1>12. r.m.hw = hw /\ r.ev = ev
  BY <1>1
<1>13. Hears({Button(0, m.hw[0])}, ev, {Button(0, v)})
  BY <1>11, Zenon DEF Hears
<1> QED  BY <1>2, <1>3, <1>4, <1>12, <1>13 DEF Keeps, r

\* A loop leaves alone what it never tells of.
LEMMA LoopAside ==
  ASSUME NEW n \in Nat, NEW S, NEW tell, NEW s, Loop(s, n, S, tell),
         NEW e, \A j \in 0..(n - 1) : Key(tell[j]) # Key(e)
  PROVE  Updates(s, e, e)
<1>1. PICK t : Lists(t, n, S) /\ s = [k \in 1..Len(t) |-> tell[t[k]]]
  BY Zenon DEF Loop
<1>2. Len(t) \in Nat /\ \A k \in 1..Len(t) : t[k] \in 0..(n - 1)
  BY <1>1, MovedPlace DEF Lists
<1> DEFINE K == {Key(tell[j]) : j \in 0..(n - 1)}
<1>3. \A k \in 1..Len(t) : Key(s[k]) \in K
  BY <1>1, <1>2
<1>4. Key(e) \notin K
  OBVIOUS
<1> HIDE DEF K
<1>5. Tells(s, K)
  BY <1>1, <1>2, <1>3, TellsEach
<1> QED  BY <1>4, <1>5, OthersUpdate, Zenon

\* What the mouse remembers of its axes, and of the buttons that are told right.
Axes(hw) == {Mouse!AxisEvent(i, hw[i]) : i \in 0..5}
RightButtons(hw) == {Button(i, Pressed(hw[i])) : i \in {0, 3, 9}}

\* An axis is told as one of two sliders of its own.
LEMMA AxisKey ==
  ASSUME NEW i \in 0..5, NEW v
  PROVE  /\ Mouse!AxisEvent(i, v).type = "slider"
         /\ Normal(Mouse!AxisEvent(i, v)) = Mouse!AxisEvent(i, v)
         /\ Key(Mouse!AxisEvent(i, v)) \in {<<"slider", 2 * i, 0>>, <<"slider", 2 * i + 1, 0>>}
  BY DEF Mouse!AxisEvent, Mouse!Slider, Key, Normal

\* The 3D mouse.
LEMMA MouseKeeps ==
  ASSUME NEW m, NEW rep, Shaped("mouse", m)
  PROVE  Keeps("mouse", m, Mouse!ReadCb(m, rep))
<1> DEFINE b == rep.b
<1>1. /\ DOMAIN m.hw = 0..5 /\ DOMAIN m.buttons = 0..14 /\ {"hw", "buttons"} \subseteq DOMAIN m
      /\ \A n : Shaped("mouse", n) <=>
                  /\ DOMAIN n.hw = 0..5 /\ DOMAIN n.buttons = 0..14
                  /\ {"hw", "buttons"} \subseteq DOMAIN n
  BY DEF Shaped
<1>2. \A n : Remembered("mouse", n) = Axes(n.hw) \cup RightButtons(n.buttons)
  BY DEF Remembered, Axes, RightButtons
<1>3. 6 \in Nat /\ 15 \in Nat
  OBVIOUS
<1> HIDE DEF b
<1>4. Keeps("mouse", m, Mouse!ReadButtons(m, b))
  <2> DEFINE r == Mouse!ReadButtons(m, b)
             now == [i \in 0..(15 - 1) |-> Mouse!Masked(b[Mouse!Row(Mouse!ButtonRows, i)[2]],
                                                        Mouse!Row(Mouse!ButtonRows, i)[3])]
             moved == Mouse!Moved(15, 0, now, m.buttons)
             ev == [n \in 1..Len(moved) |-> Mouse!Button(moved[n], now[moved[n]] % 2)]
             hw == [t \in DOMAIN m.buttons |-> IF t - 0 \in DOMAIN now THEN now[t - 0]
                                               ELSE m.buttons[t]]
             tell == [i \in 0..(15 - 1) |-> Button(i, now[i] % 2)]
             S == News(15, 0, now, m.buttons)
  <2>1. r = [m |-> [m EXCEPT !.buttons = hw], ev |-> ev]
    BY Zenon DEF Mouse!ReadButtons, Mouse!Scan
  <2>2. \A i \in {0, 3, 9} : now[i] \in {0, 1}
    <3>1. \A i \in {0, 3, 9} : Mouse!Row(Mouse!ButtonRows, i)[3] = 1
      BY DEF Mouse!Row, Mouse!ButtonRows
    <3>2. \A x : Mouse!Masked(x, 1) \in {0, 1}
      BY DEF Mouse!Masked
    <3> QED  BY <3>1, <3>2
  <2>3. DOMAIN now = 0..(15 - 1)
    OBVIOUS
  <2>4. moved = Moved(15, 0, now, m.buttons)
    <3> HIDE DEF now
    <3> QED  BY SameMoved, Zenon
  <2> HIDE DEF now
  <2>5. DOMAIN hw = 0..14 /\ \A i \in {0, 3, 9} : hw[i] = now[i]
    BY <1>1, <2>3
  <2>6. Lists(moved, 15, S)
    <3> HIDE DEF moved
    <3> QED  BY <1>3, <2>4, MovedLists, Zenon
  <2> HIDE DEF moved
  <2>7. Loop(ev, 15, S, tell)
    <3> HIDE DEF S
    <3>1. \A k \in 1..Len(moved) : moved[k] \in 0..(15 - 1)
      BY <1>3, <2>6, MovedPlace DEF Lists
    <3>2. ev = [k \in 1..Len(moved) |-> tell[moved[k]]]
      BY <3>1 DEF Mouse!Button, Button
    <3> HIDE DEF ev, tell
    <3> QED  BY <2>6, <3>2 DEF Loop
  <2>8. \A i \in {0, 3, 9} : Leaves(tell, 15, i, Button(i, Pressed(now[i])))
    BY <2>2 DEF Leaves, Key, Normal, Button, Pressed
  <2>9. \A i \in {0, 3, 9} :
          i \in S \/ Button(i, Pressed(m.buttons[i])) = Button(i, Pressed(now[i]))
    BY DEF News
  <2>10. \A e : e.type = "slider" => \A j \in 0..(15 - 1) : Key(tell[j]) # Key(e)
    BY DEF Key, Button
  <2> HIDE DEF S, tell, ev, hw, r
  <2>11. ASSUME NEW i \in {0, 3, 9}
         PROVE  Updates(ev, Button(i, Pressed(m.buttons[i])), Button(i, Pressed(hw[i])))
    <3> DEFINE e == Button(i, Pressed(m.buttons[i]))
               f == Button(i, Pressed(now[i]))
    <3>1. i \in 0..(15 - 1)
      OBVIOUS
    <3>2. Leaves(tell, 15, i, f) /\ (i \in S \/ e = f)
      BY <2>8, <2>9
    <3> HIDE DEF e, f
    <3>3. Updates(ev, e, f)
      BY <1>3, <2>7, <3>1, <3>2, LoopUpdates, Zenon
    <3> QED  BY <2>5, <3>3 DEF e, f
  <2>12. Hears(RightButtons(m.buttons), ev, RightButtons(hw))
    BY <2>11, Zenon DEF Hears, RightButtons
  <2>13. Hears(Axes(m.hw), ev, Axes(m.hw))
    <3>1. \A e \in Axes(m.hw) : e.type = "slider"
      BY AxisKey DEF Axes
    <3>2. \A e \in Axes(m.hw) : Updates(ev, e, e)
      BY <1>3, <2>7, <2>10, <3>1, LoopAside, Zenon
    <3> QED  BY <3>2, HearsAside
  <2>14. /\ r.m.hw = m.hw /\ r.m.buttons = hw /\ r.ev = ev
         /\ {"hw", "buttons"} \subseteq DOMAIN r.m
    BY <1>1, <2>1
  <2>15. Hears(Axes(m.hw) \cup RightButtons(m.buttons), ev, Axes(m.hw) \cup RightButtons(hw))
    BY <2>12, <2>13, HearsUnion, Zenon
  <2>16. /\ Remembered("mouse", m) = Axes(m.hw) \cup RightButtons(m.buttons)
         /\ Remembered("mouse", r.m) = Axes(m.hw) \cup RightButtons(hw)
    BY <1>2, <2>14, Zenon
  <2>17. Shaped("mouse", r.m)
    BY <1>1, <2>5, <2>14
  <2> QED  BY <2>14, <2>15, <2>16, <2>17, Zenon DEF Keeps, r
<1>5. Keeps("mouse", m, Mouse!ReadAxes(m, b))
  <2> DEFINE r == Mouse!ReadAxes(m, b)
             now == [i \in 0..(6 - 1) |-> Mouse!Signed(Mouse!Word(b, 2 * i + 1))]
             moved == Mouse!Moved(6, 0, now, m.hw)
             ev == [n \in 1..Len(moved) |-> Mouse!AxisEvent(moved[n], now[moved[n]])]
             hw == [t \in DOMAIN m.hw |-> IF t - 0 \in DOMAIN now THEN now[t - 0] ELSE m.hw[t]]
             tell == [i \in 0..(6 - 1) |-> Mouse!AxisEvent(i, now[i])]
             S == News(6, 0, now, m.hw)
  <2>1. r = [m |-> [m EXCEPT !.hw = hw], ev |-> ev]
    BY Zenon DEF Mouse!ReadAxes, Mouse!Scan
  <2>2. DOMAIN now = 0..(6 - 1)
    OBVIOUS
  <2>3. moved = Moved(6, 0, now, m.hw)
    <3> HIDE DEF now
    <3> QED  BY SameMoved, Zenon
  <2> HIDE DEF now
  <2>4. DOMAIN hw = 0..5 /\ \A i \in 0..5 : hw[i] = now[i]
    BY <1>1, <2>2
  <2>5. Lists(moved, 6, S)
    <3> HIDE DEF moved
    <3> QED  BY <1>3, <2>3, MovedLists, Zenon
  <2> HIDE DEF moved
  <2>6. Loop(ev, 6, S, tell)
    <3> HIDE DEF S
    <3>1. \A k \in 1..Len(moved) : moved[k] \in 0..(6 - 1)
      BY <1>3, <2>5, MovedPlace DEF Lists
    <3>2. ev = [k \in 1..Len(moved) |-> tell[moved[k]]]
      BY <3>1
    <3> HIDE DEF ev, tell
    <3> QED  BY <2>5, <3>2 DEF Loop
  <2>7. \A i \in 0..5 : tell[i] = Mouse!AxisEvent(i, now[i])
    OBVIOUS
  <2> HIDE DEF tell
  <2>8. ASSUME NEW i \in 0..5
        PROVE  Leaves(tell, 6, i, Mouse!AxisEvent(i, now[i]))
    <3> DEFINE f == Mouse!AxisEvent(i, now[i])
    <3>1. tell[i] = f /\ tell[i].type # "encoder" /\ Normal(tell[i]) = f
      BY <2>7, AxisKey
    <3>2. ASSUME NEW j \in 0..5, j # i
          PROVE  Key(tell[j]) # Key(f)
      <4>1. Key(f) \in {<<"slider", 2 * i, 0>>, <<"slider", 2 * i + 1, 0>>}
        BY AxisKey
      <4>2. Key(tell[j]) \in {<<"slider", 2 * j, 0>>, <<"slider", 2 * j + 1, 0>>}
        BY <2>7, AxisKey
      <4>3. 2 * i # 2 * j /\ 2 * i # 2 * j + 1 /\ 2 * i + 1 # 2 * j /\ 2 * i + 1 # 2 * j + 1
        BY <3>2
      <4> HIDE DEF f
      <4> QED  BY <4>1, <4>2, <4>3
    <3> HIDE DEF f
    <3>3. Leaves(tell, 6, i, f)
      BY <3>1, <3>2 DEF Leaves
    <3> QED  BY <3>3 DEF f
  <2>9. \A i \in 0..5 : i \in S \/ Mouse!AxisEvent(i, m.hw[i]) = Mouse!AxisEvent(i, now[i])
    BY DEF News
  <2>10. \A e : e.type = "button" => \A j \in 0..(6 - 1) : Key(tell[j]) # Key(e)
    BY <2>7, AxisKey DEF Key
  <2> HIDE DEF S, ev, hw, r
  <2>11. ASSUME NEW i \in 0..5
         PROVE  Updates(ev, Mouse!AxisEvent(i, m.hw[i]), Mouse!AxisEvent(i, hw[i]))
    <3> DEFINE e == Mouse!AxisEvent(i, m.hw[i])
               f == Mouse!AxisEvent(i, now[i])
    <3>1. i \in 0..(6 - 1)
      OBVIOUS
    <3>2. Leaves(tell, 6, i, f) /\ (i \in S \/ e = f)
      BY <2>8, <2>9
    <3> HIDE DEF e, f
    <3>3. Updates(ev, e, f)
      BY <1>3, <2>6, <3>1, <3>2, LoopUpdates, Zenon
    <3> QED  BY <2>4, <3>3 DEF e, f
  <2>12. Hears(Axes(m.hw), ev, Axes(hw))
    BY <2>11, Zenon DEF Hears, Axes
  <2>13. Hears(RightButtons(m.buttons), ev, RightButtons(m.buttons))
    <3>1. \A e \in RightButtons(m.buttons) : e.type = "button"
      BY DEF RightButtons, Button
    <3>2. \A e \in RightButtons(m.buttons) : Updates(ev, e, e)
      BY <1>3, <2>6, <2>10, <3>1, LoopAside, Zenon
    <3> QED  BY <3>2, HearsAside
  <2>14. /\ r.m.hw = hw /\ r.m.buttons = m.buttons /\ r.ev = ev
         /\ {"hw", "buttons"} \subseteq DOMAIN r.m
    BY <1>1, <2>1
  <2>15. Hears(Axes(m.hw) \cup RightButtons(m.buttons), ev, Axes(hw) \cup RightButtons(m.buttons))
    BY <2>12, <2>13, HearsUnion, Zenon
  <2>16. /\ Remembered("mouse", m) = Axes(m.hw) \cup RightButtons(m.buttons)
         /\ Remembered("mouse", r.m) = Axes(hw) \cup RightButtons(m.buttons)
    BY <1>2, <2>14, Zenon
  <2>17. Shaped("mouse", r.m)
    BY <1>1, <2>4, <2>14
  <2> QED  BY <2>14, <2>15, <2>16, <2>17, Zenon DEF Keeps, r
<1>6. CASE rep.size = 7
  BY <1>4, <1>6 DEF Mouse!ReadCb, b
<1>7. CASE rep.size = 13
  BY <1>5, <1>7 DEF Mouse!ReadCb, b
<1>8. CASE rep.size \notin {7, 13}
  <2>1. Mouse!ReadCb(m, rep) = [m |-> m, ev |-> <<>>]
    BY <1>8 DEF Mouse!ReadCb, Mouse!Silent
  <2> QED  BY <2>1, SilentKeeps
<1> QED  BY <1>6, <1>7, <1>8

\* What the Maschine Mikro Mk3 remembers: its buttons, its strip, and its pads at the
\* squares they are told as.
At == [i \in 0..(16 - 1) |-> Mikro3!PadPosition(i)]
PadsAt(hit) == {Grid(0, Mikro3!PadPosition(i), Pressed(hit[i])) : i \in 0..15}
Strip(x) == {Slider(0, x)}

\* No two pads are told as one square.
LEMMA AtApart == \A i, j \in 0..(16 - 1) : j # i => At[j] # At[i]
<1> SUFFICES ASSUME NEW i \in 0..15, NEW j \in 0..15, At[i] = At[j]
             PROVE  i = j
  OBVIOUS
<1>1. At[i] = (3 - i \div 4) * 4 + (i % 4) /\ At[j] = (3 - j \div 4) * 4 + (j % 4)
  BY DEF At, Mikro3!PadPosition
<1>2. /\ i = 4 * (i \div 4) + (i % 4) /\ i \div 4 \in Int /\ i % 4 \in 0..3
      /\ j = 4 * (j \div 4) + (j % 4) /\ j \div 4 \in Int /\ j % 4 \in 0..3
  OBVIOUS
<1>3. ASSUME NEW a \in Int, NEW c \in 0..3, NEW d \in Int, NEW e \in 0..3,
             (3 - a) * 4 + c = (3 - d) * 4 + e
      PROVE  4 * a + c = 4 * d + e
  BY <1>3
<1>4. 4 * (i \div 4) + (i % 4) = 4 * (j \div 4) + (j % 4)
  <2>1. (3 - i \div 4) * 4 + (i % 4) = (3 - j \div 4) * 4 + (j % 4)
    BY <1>1
  <2> QED  BY <1>2, <1>3, <2>1, Zenon
<1> QED  BY <1>2, <1>4

\* A loop over the squares of the Mikro Mk3 is heard of them, and of nothing else.
LEMMA PadsAtHeard ==
  ASSUME NEW hit, OfSize(hit, 16), NEW r, SquareLoop(r, 16, 0, At, hit)
  PROVE  /\ Hears(PadsAt(hit), r.ev, PadsAt(r.hw)) /\ OfSize(r.hw, 16)
         /\ \A e : e.type # "grid" => Updates(r.ev, e, e)
<1>1. DOMAIN hit = 0..15
  BY DEF OfSize
<1>2. ASSUME NEW i \in 0..15
      PROVE  \E e \in PadsAt(hit) :
               Updates(r.ev, e, Grid(0, Mikro3!PadPosition(i), Pressed(r.hw[i])))
  <2>1. 0 + i \in DOMAIN hit /\ 0 + i = i /\ i \in 0..(16 - 1) /\ At[i] = Mikro3!PadPosition(i)
    BY <1>1 DEF At
  <2>2. Updates(r.ev, Grid(0, At[i], Pressed(hit[0 + i])), Grid(0, At[i], Pressed(r.hw[0 + i])))
    BY <2>1, Zenon DEF SquareLoop
  <2>3. Updates(r.ev, Grid(0, Mikro3!PadPosition(i), Pressed(hit[i])),
                Grid(0, Mikro3!PadPosition(i), Pressed(r.hw[i])))
    BY <2>1, <2>2
  <2> QED  BY <2>3, Zenon DEF PadsAt
<1>3. Hears(PadsAt(hit), r.ev, PadsAt(r.hw))
  BY <1>2, Zenon DEF Hears, PadsAt
<1>4. OfSize(r.hw, 16)
  BY Zenon DEF OfSize, SquareLoop
<1>5. \A e : e.type # "grid" => Updates(r.ev, e, e)
  BY Zenon DEF SquareLoop
<1> QED  BY <1>3, <1>4, <1>5

\* The Maschine Mikro Mk3: pads, buttons, or both in one report.
LEMMA Mikro3Keeps ==
  ASSUME NEW m, NEW rep, Shaped("mikro3", m)
  PROVE  Keeps("mikro3", m, Mikro3!ReadCb(m, rep))
<1>1. \A n : Shaped("mikro3", n) <=>
               /\ OfSize(n.hw, 39) /\ OfSize(n.hit, 16)
               /\ {"hw", "strip", "hit"} \subseteq DOMAIN n
  BY DEF Shaped, OfSize
<1>2. \A n : Remembered("mikro3", n) = Buttons(39, 0, n.hw) \cup Strip(n.strip) \cup PadsAt(n.hit)
  BY DEF Remembered, Strip, PadsAt
<1>3. 39 \in Nat /\ 16 \in Nat /\ 0 \in Int /\ 0 \in Nat /\ 1 \in Nat /\ Len(Mikro3!ButtonRows) = 39
  BY TableSizes
<1>4. /\ \A hw : \A e \in Buttons(39, 0, hw) : e.type = "button"
      /\ \A x : \A e \in Strip(x) : e.type = "slider" /\ e = Slider(0, x)
      /\ \A hit : \A e \in PadsAt(hit) : e.type = "grid"
  BY Kinds DEF Strip, Slider, PadsAt, Grid
<1>5. ASSUME NEW mem0, Shaped("mikro3", mem0), NEW b, NEW at
      PROVE  Keeps("mikro3", mem0, Mikro3!ReadPads(mem0, b, at))
  <2> DEFINE r == Mikro3!ReadPads(mem0, b, at)
             now == [i \in 0..(16 - 1) |-> Mikro3!PadsHit(b, at, mem0.hit)[i]]
             moved == Mikro3!Moved(16, 0, now, mem0.hit)
             ev == [n \in 1..Len(moved) |->
                      Mikro3!Grid(0, Mikro3!PadPosition(moved[n]), now[moved[n]])]
             hit == [t \in DOMAIN mem0.hit |-> IF t - 0 \in DOMAIN now THEN now[t - 0]
                                               ELSE mem0.hit[t]]
             g == [hw |-> hit, ev |-> ev]
  <2>1. r = [m |-> [mem0 EXCEPT !.hit = hit], ev |-> ev]
    BY Zenon DEF Mikro3!ReadPads, Mikro3!PadSet, Mikro3!Scan
  <2>2. moved = Moved(16, 0, now, mem0.hit)
    <3> HIDE DEF now
    <3> QED  BY SameMoved, Zenon
  <2>3. hit = Scanned(16, 0, now, mem0.hit)
    BY DEF Scanned
  <2>4. \A n \in 1..Len(moved) : moved[n] \in 0..(16 - 1)
    <3>1. moved \in Seq(0..(16 - 1))
      <4> HIDE DEF now, moved
      <4> QED  BY <2>2, MovedShape
    <3> HIDE DEF moved
    <3> QED  BY <3>1, MovedPlace
  <2> HIDE DEF now, hit, r, moved
  <2>5. ev = [n \in 1..Len(moved) |-> Grid(0, At[moved[n]], now[moved[n]])]
    BY <2>4 DEF Mikro3!Grid, Grid, At
  <2>6. g.hw = hit /\ g.ev = ev
    OBVIOUS
  <2> HIDE DEF g, ev
  <2>7. SquareLoop(g, 16, 0, At, mem0.hit)
    <3>1. \A i \in 0..(16 - 1) : Pressed(now[i]) = Pressed(now[i])
      OBVIOUS
    <3>2. SquareScan(g, 16, 0, At, now, now, mem0.hit)
      BY <2>2, <2>3, <2>5, <2>6, <3>1, AtApart, Zenon DEF SquareScan
    <3> QED  BY <1>3, <3>2, SquaresUpdate, Zenon
  <2>8. /\ r.m.hw = mem0.hw /\ r.m.strip = mem0.strip /\ r.m.hit = g.hw /\ r.ev = g.ev
        /\ {"hw", "strip", "hit"} \subseteq DOMAIN r.m
    BY <1>1, <1>5, <2>1, <2>6
  <2>9. OfSize(mem0.hw, 39) /\ OfSize(mem0.hit, 16)
    BY <1>1, <1>5
  <2>10. /\ Hears(PadsAt(mem0.hit), g.ev, PadsAt(g.hw)) /\ OfSize(g.hw, 16)
         /\ \A e : e.type # "grid" => Updates(g.ev, e, e)
    BY <2>7, <2>9, PadsAtHeard, Zenon
  <2>11. /\ Hears(Buttons(39, 0, mem0.hw), g.ev, Buttons(39, 0, mem0.hw))
         /\ Hears(Strip(mem0.strip), g.ev, Strip(mem0.strip))
    <3>1. \A e \in Buttons(39, 0, mem0.hw) : e.type # "grid"
      BY <1>4
    <3>2. \A e \in Strip(mem0.strip) : e.type # "grid"
      BY <1>4
    <3> QED  BY <2>10, <3>1, <3>2, HearsAside, Zenon
  <2>12. Hears(Buttons(39, 0, mem0.hw) \cup Strip(mem0.strip) \cup PadsAt(mem0.hit), g.ev,
               Buttons(39, 0, mem0.hw) \cup Strip(mem0.strip) \cup PadsAt(g.hw))
    BY <2>10, <2>11, HearsUnion, Zenon
  <2>13. /\ Remembered("mikro3", mem0) =
              Buttons(39, 0, mem0.hw) \cup Strip(mem0.strip) \cup PadsAt(mem0.hit)
         /\ Remembered("mikro3", r.m) =
              Buttons(39, 0, mem0.hw) \cup Strip(mem0.strip) \cup PadsAt(g.hw)
    BY <1>2, <2>8, Zenon
  <2>14. Shaped("mikro3", r.m)
    BY <1>1, <2>8, <2>9, <2>10, Zenon
  <2> QED  BY <2>8, <2>12, <2>13, <2>14, Zenon DEF Keeps, r
<1>6. ASSUME NEW a, NEW at
      PROVE  Keeps("mikro3", m, Mikro3!DecodeButton(m, a, at))
  <2> DEFINE r == Mikro3!DecodeButton(m, a, at)
             b == [o \in 0..13 |-> a[at + o]]
             v == Mikro3!Word(b, 10)
             c == v # 0 /\ v # m.strip
             enc == [i \in {0} |-> Mikro3!Low(b[7])]
             e == Mikro3!Slider(0, v)
             one == IF c THEN <<e>> ELSE <<>>
             k == Mikro3!ScanButtons(Mikro3!ButtonRows, 0, b, m.hw)
             steps == Mikro3!Steps(1, enc, m.enc, 0)
             turned == IF m.known THEN steps ELSE <<>>
             strip == IF c THEN v ELSE m.strip
  <2>1. r = [m |-> [m EXCEPT !.hw = k.hw, !.enc = enc, !.known = TRUE, !.strip = strip],
             ev |-> one \o k.ev \o turned]
    BY Zenon DEF Mikro3!DecodeButton, Mikro3!Turned
  <2>2. ButtonLoop(k, 39, 0, m.hw)
    <3> HIDE DEF b
    <3> QED  BY <1>3, ButtonLoops, Zenon
  <2>3. e = Slider(0, v) /\ Key(e) = <<"slider", 0, 0>> /\ \A f : Key(f)[1] = f.type
    BY DEF Mikro3!Slider, Slider, Key
  <2> HIDE DEF b, v, enc, k, r
  <2>4. /\ r.m.hw = k.hw /\ r.m.strip = strip /\ r.m.hit = m.hit
        /\ {"hw", "strip", "hit"} \subseteq DOMAIN r.m
        /\ r.ev = one \o k.ev \o turned
    <3> HIDE DEF one, turned, strip
    <3> QED  BY <1>1, <2>1
  <2>5. Hears(Strip(m.strip), one, Strip(strip))
    <3> DEFINE f == Slider(0, strip)
               d == Slider(0, m.strip)
    <3>1. c => e = f
      BY <2>3
    <3>2. ~c => d = f
      OBVIOUS
    <3>3. f.type # "encoder" /\ Normal(f) = f
      BY DEF Slider, Normal
    <3> HIDE DEF c, e, f, strip, d
    <3>4. Updates(one, d, f)
      BY <3>1, <3>2, <3>3, OneUpdates
    <3> QED  BY <3>4, Zenon DEF Hears, Strip, d, f
  <2>6. /\ Hears(Buttons(39, 0, m.hw), one, Buttons(39, 0, m.hw))
        /\ Hears(PadsAt(m.hit), one, PadsAt(m.hit))
    <3> HIDE DEF c, e
    <3>1. \A f \in Buttons(39, 0, m.hw) : Key(f) # Key(e)
      BY <1>4, <2>3
    <3>2. \A f \in PadsAt(m.hit) : Key(f) # Key(e)
      BY <1>4, <2>3
    <3> QED  BY <3>1, <3>2, HearsOneAside, Zenon
  <2>7. \A x : x.type # "encoder" => Updates(turned, x, x)
    <3>1. \A x : x.type # "encoder" => Updates(steps, x, x)
      BY <1>3, StepLoops, Zenon
    <3>2. \A x : Updates(<<>>, x, x)
      <4>1. <<>> \in Seq({}) /\ DOMAIN <<>> = {}
        OBVIOUS
      <4> QED  BY <4>1, Zenon DEF Updates, Mute
    <3> HIDE DEF steps
    <3> QED  BY <3>1, <3>2
  <2> HIDE DEF one, turned, steps, strip, e, c
  <2>8. /\ Hears(Buttons(39, 0, k.hw), turned, Buttons(39, 0, k.hw))
        /\ Hears(Strip(strip), turned, Strip(strip))
        /\ Hears(PadsAt(m.hit), turned, PadsAt(m.hit))
    <3>1. \A f \in Buttons(39, 0, k.hw) : f.type # "encoder"
      BY <1>4
    <3>2. \A f \in Strip(strip) : f.type # "encoder"
      BY <1>4
    <3>3. \A f \in PadsAt(m.hit) : f.type # "encoder"
      BY <1>4
    <3> QED  BY <2>7, <3>1, <3>2, <3>3, HearsAside, Zenon
  <2>9. OfSize(m.hw, 39) /\ OfSize(m.hit, 16)
    BY <1>1
  <2>10. /\ Hears(Buttons(39, 0, m.hw), k.ev, Buttons(39, 0, k.hw)) /\ OfSize(k.hw, 39)
         /\ \A x : x.type # "button" => Updates(k.ev, x, x)
    <3>1. 0 + 39 <= 39 /\ DOMAIN m.hw = 0..(39 - 1)
      BY <2>9 DEF OfSize
    <3>2. /\ Hears(Buttons(39, 0, m.hw), k.ev, Buttons(39, 0, k.hw))
          /\ \A x : x.type # "button" => Updates(k.ev, x, x)
      BY <1>3, <2>2, <3>1, ButtonsHeard, Zenon
    <3>3. OfSize(k.hw, 39)
      BY <2>2, <3>1, Zenon DEF ButtonLoop, OfSize
    <3> QED  BY <3>2, <3>3
  <2>11. /\ Hears(Strip(strip), k.ev, Strip(strip))
         /\ Hears(PadsAt(m.hit), k.ev, PadsAt(m.hit))
    <3>1. \A f \in Strip(strip) : f.type # "button"
      BY <1>4
    <3>2. \A f \in PadsAt(m.hit) : f.type # "button"
      BY <1>4
    <3> QED  BY <2>10, <3>1, <3>2, HearsAside, Zenon
  <2>12. /\ Hears(Buttons(39, 0, m.hw), one \o k.ev \o turned, Buttons(39, 0, k.hw))
         /\ Hears(Strip(m.strip), one \o k.ev \o turned, Strip(strip))
         /\ Hears(PadsAt(m.hit), one \o k.ev \o turned, PadsAt(m.hit))
    BY <2>5, <2>6, <2>8, <2>10, <2>11, HearsBoth, Zenon
  <2> DEFINE ev == one \o k.ev \o turned
  <2>13. ev = one \o k.ev \o turned
    OBVIOUS
  <2> HIDE DEF ev
  <2>14. Hears(Buttons(39, 0, m.hw) \cup Strip(m.strip) \cup PadsAt(m.hit), ev,
               Buttons(39, 0, k.hw) \cup Strip(strip) \cup PadsAt(m.hit))
    BY <2>12, <2>13, HearsUnion, Zenon
  <2>15. /\ Remembered("mikro3", m) =
              Buttons(39, 0, m.hw) \cup Strip(m.strip) \cup PadsAt(m.hit)
         /\ Remembered("mikro3", r.m) =
              Buttons(39, 0, k.hw) \cup Strip(strip) \cup PadsAt(m.hit)
    BY <1>2, <2>4, Zenon
  <2>16. Shaped("mikro3", r.m)
    BY <1>1, <2>4, <2>9, <2>10, Zenon
  <2> QED  BY <2>4, <2>13, <2>14, <2>15, <2>16, Zenon DEF Keeps, r
<1>7. CASE rep.size = 78
  <2> DEFINE first == Mikro3!DecodeButton(m, rep.b, 64)
             second == Mikro3!ReadPads(first.m, rep.b, 0)
             r == Mikro3!ReadCb(m, rep)
  <2>1. r = [m |-> second.m, ev |-> first.ev \o second.ev]
    BY <1>7 DEF Mikro3!ReadCb
  <2>2. Keeps("mikro3", m, first)
    BY <1>6
  <2>3. Keeps("mikro3", first.m, second)
    <3>1. Shaped("mikro3", first.m)
      BY <2>2, Zenon DEF Keeps
    <3> QED  BY <1>5, <3>1
  <2> HIDE DEF first, second, r
  <2>4. Keeps("mikro3", m, r)
    BY <2>1, <2>2, <2>3, KeepsBoth
  <2> QED  BY <2>4 DEF r
<1>8. CASE rep.size = 128
  <2> DEFINE first == Mikro3!ReadPads(m, rep.b, 0)
             second == Mikro3!ReadPads(first.m, rep.b, 64)
             r == Mikro3!ReadCb(m, rep)
  <2>1. r = [m |-> second.m, ev |-> first.ev \o second.ev]
    BY <1>8 DEF Mikro3!ReadCb, Mikro3!ReadPadSets
  <2>2. Keeps("mikro3", m, first)
    BY <1>5
  <2>3. Keeps("mikro3", first.m, second)
    <3>1. Shaped("mikro3", first.m)
      BY <2>2, Zenon DEF Keeps
    <3> QED  BY <1>5, <3>1
  <2> HIDE DEF first, second, r
  <2>4. Keeps("mikro3", m, r)
    BY <2>1, <2>2, <2>3, KeepsBoth
  <2> QED  BY <2>4 DEF r
<1>9. CASE rep.size = 14
  BY <1>6, <1>9 DEF Mikro3!ReadCb
<1>10. CASE rep.size \notin {78, 128, 14}
  <2>1. Mikro3!ReadCb(m, rep) = [m |-> m, ev |-> <<>>]
    BY <1>10 DEF Mikro3!ReadCb, Mikro3!Silent
  <2> QED  BY <2>1, SilentKeeps
<1> QED  BY <1>7, <1>8, <1>9, <1>10

\* The Jam's strips 0 to 3, and its buttons that the other strips do not overwrite.
OwnStrips(hw) == {Slider(i, hw[Jam!StripSlot(i) + 1]) : i \in 0..3}
OwnButtons(hw) == {Button(i, Pressed(hw[Jam!ButtonBase + i])) : i \in 0..53 \ Overwritten}

\* What an assignment of bytes at places leaves at each place.
PutsIn(new, img, bytes) ==
  /\ DOMAIN new = DOMAIN img
  /\ \A o \in DOMAIN img :
       /\ (\A p \in bytes : p[1] # o) => new[o] = img[o]
       /\ \A q \in bytes : q[1] = o /\ (\A p \in bytes : p[1] = o => p = q) => new[o] = q[2]

\* Put does so.
LEMMA PutAt ==
  ASSUME NEW img, NEW bytes
  PROVE  PutsIn(Jam!Put(img, bytes), img, bytes)
<1> DEFINE new == [x \in {p[1] : p \in bytes} |-> (CHOOSE p \in bytes : p[1] = x)[2]]
<1>1. Jam!Put(img, bytes) = [x \in DOMAIN img |-> IF x \in DOMAIN new THEN new[x] ELSE img[x]]
  BY Zenon DEF Jam!Put
<1>2. DOMAIN Jam!Put(img, bytes) = DOMAIN img
  BY <1>1
<1>3. ASSUME NEW o \in DOMAIN img, \A p \in bytes : p[1] # o
      PROVE  Jam!Put(img, bytes)[o] = img[o]
  BY <1>1, <1>3
<1>4. ASSUME NEW o \in DOMAIN img, NEW q \in bytes, q[1] = o, \A p \in bytes : p[1] = o => p = q
      PROVE  Jam!Put(img, bytes)[o] = q[2]
  <2>1. (CHOOSE p \in bytes : p[1] = o) = q
    BY <1>4
  <2>2. o \in DOMAIN new /\ new[o] = q[2]
    BY <1>4, <2>1
  <2> QED  BY <1>1, <2>2
<1> QED  BY <1>2, <1>3, <1>4, Zenon DEF PutsIn

\* No two strips share slots, and none of the first four has one of a button.
LEMMA StripSlots ==
  /\ \A i, j \in 0..7 : \A k \in 0..2 :
       Jam!StripSlot(j) + k = Jam!StripSlot(i) + 1 => j = i /\ k = 1
  /\ \A i \in 0..53 \ Overwritten : \A j \in 0..7 : \A k \in 0..2 :
       Jam!StripSlot(j) + k # Jam!ButtonBase + i
  /\ \A i \in 0..3 : Jam!StripSlot(i) + 1 \in 0..23
  /\ Jam!ButtonBase = 24
<1>1. \A j \in 0..7 : Jam!StripSlot(j) = 1 + 6 * j
  BY DEF Jam!StripSlot
<1>2. Jam!ButtonBase = 24
  BY DEF Jam!ButtonBase
<1>3. ASSUME NEW i \in 0..7, NEW j \in 0..7, NEW k \in 0..2,
             Jam!StripSlot(j) + k = Jam!StripSlot(i) + 1
      PROVE  j = i /\ k = 1
  BY <1>1, <1>3
<1>4. ASSUME NEW i \in 0..53, i \notin Overwritten, NEW j \in 0..7, NEW k \in 0..2
      PROVE  Jam!StripSlot(j) + k # Jam!ButtonBase + i
  <2>1. CASE j \in 0..3
    BY <1>1, <1>2, <2>1
  <2>2. CASE j \in 4..7
    BY <1>4, <2>2 DEF Overwritten
  <2>3. j \in 0..3 \/ j \in 4..7
    OBVIOUS
  <2> QED  BY <2>1, <2>2, <2>3
<1>5. \A i \in 0..3 : Jam!StripSlot(i) + 1 \in 0..23
  BY <1>1
<1> QED  BY <1>2, <1>3, <1>4, <1>5

\* The kinds of what is remembered, and the slots it is in.
LEMMA OwnKinds ==
  ASSUME NEW hw
  PROVE  /\ \A e \in OwnStrips(hw) : e.type = "slider"
         /\ \A e \in OwnButtons(hw) : e.type = "button"
  BY DEF OwnStrips, OwnButtons, Slider, Button

\* The Maschine Jam.
LEMMA JamKeeps ==
  ASSUME NEW m, NEW rep, Shaped("jam", m)
  PROVE  Keeps("jam", m, Jam!ReadCb(m, rep))
<1> DEFINE b == rep.b
<1>1. \A n : Shaped("jam", n) <=>
               OfSize(n.hw, 78) /\ OfSize(n.grid, 64) /\ {"hw", "grid"} \subseteq DOMAIN n
  BY DEF Shaped, OfSize
<1>2. \A n : Remembered("jam", n) = OwnStrips(n.hw) \cup Pads(64, 0, n.grid) \cup OwnButtons(n.hw)
  BY DEF Remembered, OwnStrips, OwnButtons
<1>3. 8 \in Nat /\ 54 \in Nat /\ 64 \in Nat /\ 24 \in Int /\ 0 \in Nat /\ 1 \in Nat
      /\ Len(Jam!ButtonRows) = 54
  BY TableSizes
<1>4. \A e \in Pads(64, 0, m.grid) : e.type = "grid"
  BY Kinds
<1> HIDE DEF b
<1>5. Keeps("jam", m, Jam!ReadStrips(m, b))
  <2> DEFINE r == Jam!ReadStrips(m, b)
             strips == <<0, 1, 2, 3, 4, 5, 6, 7>>
             moved == {i \in 0..7 : Jam!StripMoved(m, b, i)}
             told_ == Jam!Only(strips, moved)
             at(i) == Jam!StripWords(b, i)[2]
             ev == [n \in 1..Len(told_) |-> Jam!Slider(told_[n], at(told_[n]))]
             new == UNION {{<<Jam!StripSlot(i) + k, Jam!StripWords(b, i)[k + 1]>> : k \in 0..2}
                             : i \in moved}
             hw == Jam!Put(m.hw, new)
             leds == [i \in 0..7 |->
                        IF i \in moved
                        THEN Jam!StripLeds(Jam!StripWords(b, i)[2], Jam!StripWords(b, i)[3])
                        ELSE m.leds[i]]
             tell == [i \in 0..(8 - 1) |-> Slider(i, at(i))]
  <2>1. r = [m |-> [m EXCEPT !.hw = hw, !.leds = leds], ev |-> ev]
    BY Zenon DEF Jam!ReadStrips
  <2>2. Lists(told_, 8, moved)
    <3>1. strips = [a \in 1..8 |-> a - 1]
      OBVIOUS
    <3> HIDE DEF strips, moved
    <3>2. Lists(Only(strips, moved), 8, moved)
      BY <1>3, <3>1, OnlyLists
    <3> QED  BY <3>2, SameOnly, Zenon
  <2>3. \A p \in new : \E i \in moved, k \in 0..2 :
          p = <<Jam!StripSlot(i) + k, Jam!StripWords(b, i)[k + 1]>>
    BY Zenon
  <2>4. \A i \in moved : <<Jam!StripSlot(i) + 1, at(i)>> \in new
    <3>1. 1 \in 0..2 /\ 1 + 1 = 2
      OBVIOUS
    <3> QED  BY <3>1
  <2>5. \A i \in moved : i \in 0..7
    OBVIOUS
  <2> HIDE DEF r, moved, told_, new, leds
  <2>6. PutsIn(hw, m.hw, new)
    BY PutAt, Zenon
  <2> HIDE DEF hw
  <2>7. DOMAIN m.hw = 0..77 /\ OfSize(m.hw, 78) /\ OfSize(m.grid, 64)
    BY <1>1 DEF OfSize
  <2>8. DOMAIN hw = 0..77
    BY <2>7, <2>6 DEF PutsIn
  <2>9. ASSUME NEW i \in 0..3
        PROVE  hw[Jam!StripSlot(i) + 1] =
                 IF i \in moved THEN at(i) ELSE m.hw[Jam!StripSlot(i) + 1]
    <3> DEFINE o == Jam!StripSlot(i) + 1
    <3>1. o \in DOMAIN m.hw /\ i \in 0..7
      BY <2>7, StripSlots
    <3>2. ASSUME NEW p \in new, p[1] = o
          PROVE  i \in moved /\ p = <<o, at(i)>>
      <4>1. PICK j \in moved, k \in 0..2 :
              p = <<Jam!StripSlot(j) + k, Jam!StripWords(b, j)[k + 1]>>
        BY <2>3, Zenon
      <4>2. j \in 0..7 /\ Jam!StripSlot(j) + k = o
        BY <2>5, <3>2, <4>1
      <4>3. j = i /\ k = 1
        BY <3>1, <4>2, StripSlots
      <4> QED  BY <4>1, <4>3
    <3> HIDE DEF o, at
    <3>3. CASE i \in moved
      <4> DEFINE q == <<o, at(i)>>
      <4>1. q \in new /\ q[1] = o /\ q[2] = at(i)
        BY <2>4, <3>3 DEF o
      <4> HIDE DEF q
      <4>2. \A p \in new : p[1] = o => p = q
        BY <3>2 DEF q
      <4>3. hw[o] = q[2]
        BY <2>6, <3>1, <4>1, <4>2, Zenon DEF PutsIn
      <4> QED  BY <3>3, <4>1, <4>3 DEF o
    <3>4. CASE i \notin moved
      <4>1. \A p \in new : p[1] # o
        BY <3>2, <3>4
      <4>2. hw[o] = m.hw[o]
        BY <2>6, <3>1, <4>1, Zenon DEF PutsIn
      <4> QED  BY <3>4, <4>2 DEF o
    <3> QED  BY <3>3, <3>4
  <2>10. ASSUME NEW i \in 0..53 \ Overwritten
        PROVE  hw[Jam!ButtonBase + i] = m.hw[Jam!ButtonBase + i]
    <3> DEFINE o == Jam!ButtonBase + i
    <3>1. o \in DOMAIN m.hw
      BY <2>7, StripSlots
    <3>2. ASSUME NEW p \in new
          PROVE  p[1] # o
      <4>1. PICK j \in moved, k \in 0..2 :
              p = <<Jam!StripSlot(j) + k, Jam!StripWords(b, j)[k + 1]>>
        BY <2>3, Zenon
      <4>2. j \in 0..7 /\ p[1] = Jam!StripSlot(j) + k
        BY <2>5, <4>1
      <4> QED  BY <4>2, StripSlots
    <3> HIDE DEF o
    <3>3. hw[o] = m.hw[o]
      BY <2>6, <3>1, <3>2, Zenon DEF PutsIn
    <3> QED  BY <3>3 DEF o
  <2>11. Loop(ev, 8, moved, tell)
    <3>1. \A k \in 1..Len(told_) : told_[k] \in 0..(8 - 1)
      BY <1>3, <2>2, MovedPlace DEF Lists
    <3>2. ev = [k \in 1..Len(told_) |-> tell[told_[k]]]
      BY <3>1 DEF Jam!Slider, Slider
    <3> HIDE DEF ev, tell
    <3> QED  BY <2>2, <3>2, Zenon DEF Loop
  <2>12. \A i \in 0..3 : Leaves(tell, 8, i, Slider(i, at(i)))
    BY DEF Leaves, Key, Normal, Slider
  <2>13. \A e : e.type # "slider" => \A j \in 0..(8 - 1) : Key(tell[j]) # Key(e)
    BY DEF Key, Slider
  <2> HIDE DEF tell, ev, at
  <2>14. ASSUME NEW i \in 0..3
         PROVE  Updates(ev, Slider(i, m.hw[Jam!StripSlot(i) + 1]),
                        Slider(i, hw[Jam!StripSlot(i) + 1]))
    <3> DEFINE e == Slider(i, m.hw[Jam!StripSlot(i) + 1])
               f == Slider(i, at(i))
               g == Slider(i, hw[Jam!StripSlot(i) + 1])
    <3>0. i \in 0..(8 - 1)
      OBVIOUS
    <3>1. CASE i \in moved
      <4>1. g = f /\ Leaves(tell, 8, i, f)
        BY <2>9, <2>12, <3>1
      <4> HIDE DEF e, f, g
      <4>2. Updates(ev, e, f)
        BY <1>3, <2>11, <3>0, <3>1, <4>1, LoopUpdates, Zenon
      <4> QED  BY <4>1, <4>2 DEF e, g
    <3>2. CASE i \notin moved
      <4>1. g = e /\ Leaves(tell, 8, i, f)
        BY <2>9, <2>12, <3>2
      <4> DEFINE rest == [j \in 0..(8 - 1) |-> IF j = i THEN e ELSE tell[j]]
      <4>2. Leaves(rest, 8, i, e)
        <5>1. Key(f) = Key(e) /\ e.type # "encoder" /\ Normal(e) = e
          BY DEF Key, Slider, Normal
        <5> HIDE DEF e, f
        <5> QED  BY <3>0, <4>1, <5>1 DEF Leaves
      <4>3. Loop(ev, 8, moved, rest)
        <5>1. PICK t : Lists(t, 8, moved) /\ ev = [k \in 1..Len(t) |-> tell[t[k]]]
          BY <2>11, Zenon DEF Loop
        <5>2. \A k \in 1..Len(t) : t[k] \in 0..(8 - 1) /\ t[k] \in moved
          BY <1>3, <5>1, MovedPlace DEF Lists
        <5> HIDE DEF e
        <5>3. ev = [k \in 1..Len(t) |-> rest[t[k]]]
          BY <3>2, <5>1, <5>2
        <5> HIDE DEF rest
        <5> QED  BY <5>1, <5>3, Zenon DEF Loop
      <4> HIDE DEF e, f, g, rest
      <4>4. Updates(ev, e, e)
        BY <1>3, <3>0, <4>2, <4>3, LoopUpdates, Zenon
      <4> QED  BY <4>1, <4>4 DEF e, g
    <3> QED  BY <3>1, <3>2
  <2>15. Hears(OwnStrips(m.hw), ev, OwnStrips(hw))
    BY <2>14, Zenon DEF Hears, OwnStrips
  <2>16. Hears(Pads(64, 0, m.grid), ev, Pads(64, 0, m.grid))
    <3>1. \A e \in Pads(64, 0, m.grid) : Updates(ev, e, e)
      BY <1>3, <1>4, <2>11, <2>13, LoopAside, Zenon
    <3> QED  BY <3>1, HearsAside
  <2>17. Hears(OwnButtons(m.hw), ev, OwnButtons(hw))
    <3>1. OwnButtons(hw) = OwnButtons(m.hw)
      BY <2>10, Zenon DEF OwnButtons
    <3>2. \A e \in OwnButtons(m.hw) : e.type # "slider"
      BY OwnKinds
    <3>3. \A e \in OwnButtons(m.hw) : Updates(ev, e, e)
      BY <1>3, <2>11, <2>13, <3>2, LoopAside, Zenon
    <3> QED  BY <3>1, <3>3, HearsAside
  <2>18. Hears(OwnStrips(m.hw) \cup Pads(64, 0, m.grid) \cup OwnButtons(m.hw), ev,
               OwnStrips(hw) \cup Pads(64, 0, m.grid) \cup OwnButtons(hw))
    BY <2>15, <2>16, <2>17, HearsUnion, Zenon
  <2>19. /\ r.m.hw = hw /\ r.m.grid = m.grid /\ r.ev = ev /\ {"hw", "grid"} \subseteq DOMAIN r.m
    BY <1>1, <2>1
  <2>20. /\ Remembered("jam", m) = OwnStrips(m.hw) \cup Pads(64, 0, m.grid) \cup OwnButtons(m.hw)
         /\ Remembered("jam", r.m) = OwnStrips(hw) \cup Pads(64, 0, m.grid) \cup OwnButtons(hw)
    BY <1>2, <2>19, Zenon
  <2>21. Shaped("jam", r.m)
    BY <1>1, <2>7, <2>8, <2>19 DEF OfSize
  <2> QED  BY <2>18, <2>19, <2>20, <2>21, Zenon DEF Keeps, r
<1>6. Keeps("jam", m, Jam!ReadButtons(m, b))
  <2> DEFINE r == Jam!ReadButtons(m, b)
             now == [i \in 0..(64 - 1) |-> Jam!Masked(b[Jam!GridBit(i)[1]], Jam!GridBit(i)[2])]
             moved == Jam!Moved(64, 0, now, m.grid)
             squares == [n \in 1..Len(moved) |-> Jam!Grid(0, moved[n], now[moved[n]])]
             grid == [t \in DOMAIN m.grid |-> IF t - 0 \in DOMAIN now THEN now[t - 0]
                                              ELSE m.grid[t]]
             g == InOrder(64, now, m.grid)
             k == Jam!ScanButtons(Jam!ButtonRows, Jam!ButtonBase, b, m.hw)
             enc == [i \in {0} |-> Jam!Low(b[1])]
             steps == Jam!Steps(1, enc, m.enc, 0)
  <2>1. r = [m |-> [m EXCEPT !.grid = grid, !.hw = k.hw, !.enc = enc],
             ev |-> squares \o k.ev \o steps]
    BY Zenon DEF Jam!ReadButtons, Jam!Scan
  <2>2. moved = Moved(64, 0, now, m.grid)
    <3> HIDE DEF now
    <3> QED  BY SameMoved, Zenon
  <2>3. grid = Scanned(64, 0, now, m.grid)
    <3>1. DOMAIN now = 0..(64 - 1)
      OBVIOUS
    <3> HIDE DEF now
    <3> QED  BY <3>1 DEF Scanned
  <2>4. ButtonLoop(k, 54, 24, m.hw)
    <3>1. ButtonLoop(Jam!ScanButtons(Jam!ButtonRows, 24, b, m.hw), 54, 24, m.hw)
      BY <1>3, ButtonLoops, Zenon
    <3> QED  BY <3>1, StripSlots, Zenon
  <2> HIDE DEF now, moved, grid, r, k, enc
  <2>5. g.hw = grid /\ g.ev = squares
    BY <2>2, <2>3 DEF InOrder, Jam!Grid, Grid
  <2> HIDE DEF g, squares
  <2>6. SquareLoop(g, 64, 0, InPlace(64), m.grid)
    BY <1>3, InOrderLoop, Zenon DEF g
  <2>7. \A e : e.type # "encoder" => Updates(steps, e, e)
    BY <1>3, StepLoops, Zenon
  <2> HIDE DEF steps
  <2>8. /\ r.m.hw = k.hw /\ r.m.grid = g.hw /\ r.ev = g.ev \o k.ev \o steps
        /\ {"hw", "grid"} \subseteq DOMAIN r.m
    BY <1>1, <2>1, <2>5
  <2>9. DOMAIN m.hw = 0..77 /\ DOMAIN m.grid = 0..(64 - 1)
    BY <1>1 DEF OfSize
  <2>10. /\ Hears(Pads(64, 0, m.grid), g.ev, Pads(64, 0, g.hw))
         /\ \A e : e.type # "grid" => Updates(g.ev, e, e)
    <3>1. 0 + 64 <= 64
      OBVIOUS
    <3> QED  BY <1>3, <2>6, <2>9, <3>1, PadsHeard, Zenon
  <2>11. /\ Hears(OwnStrips(m.hw), g.ev, OwnStrips(m.hw))
         /\ Hears(OwnButtons(m.hw), g.ev, OwnButtons(m.hw))
    <3>1. (\A e \in OwnStrips(m.hw) : e.type # "grid") /\ \A e \in OwnButtons(m.hw) : e.type # "grid"
      BY OwnKinds
    <3> QED  BY <2>10, <3>1, HearsAside, Zenon
  <2>12. \A e : e.type # "button" => Updates(k.ev, e, e)
    BY <2>4, Kinds, Zenon DEF ButtonLoop
  <2>13. Hears(OwnButtons(m.hw), k.ev, OwnButtons(k.hw))
    <3>1. ASSUME NEW i \in 0..53 \ Overwritten
          PROVE  Updates(k.ev, Button(i, Pressed(m.hw[Jam!ButtonBase + i])),
                         Button(i, Pressed(k.hw[Jam!ButtonBase + i])))
      <4>1. i \in 0..(54 - 1) /\ 24 + i \in DOMAIN m.hw /\ Jam!ButtonBase = 24
        BY <2>9, StripSlots
      <4>2. Updates(k.ev, Button(i, Pressed(m.hw[24 + i])), Button(i, Pressed(k.hw[24 + i])))
        BY <2>4, <4>1, Zenon DEF ButtonLoop
      <4> QED  BY <4>1, <4>2
    <3> QED  BY <3>1, Zenon DEF Hears, OwnButtons
  <2>14. OwnStrips(k.hw) = OwnStrips(m.hw)
    <3>1. ASSUME NEW i \in 0..3
          PROVE  k.hw[Jam!StripSlot(i) + 1] = m.hw[Jam!StripSlot(i) + 1]
      <4>1. /\ Jam!StripSlot(i) + 1 \in DOMAIN m.hw /\ Jam!StripSlot(i) + 1 \in Int
            /\ Jam!StripSlot(i) + 1 < 24
        BY <2>9, StripSlots
      <4> QED  BY <2>4, <4>1, Zenon DEF ButtonLoop
    <3> QED  BY <3>1, Zenon DEF OwnStrips
  <2>15. /\ Hears(OwnStrips(m.hw), k.ev, OwnStrips(k.hw))
         /\ Hears(Pads(64, 0, g.hw), k.ev, Pads(64, 0, g.hw))
    <3>1. \A e \in OwnStrips(m.hw) : e.type # "button"
      BY OwnKinds
    <3>2. \A e \in Pads(64, 0, g.hw) : e.type # "button"
      BY Kinds
    <3>3. Hears(OwnStrips(m.hw), k.ev, OwnStrips(m.hw))
      BY <2>12, <3>1, HearsAside, Zenon
    <3>4. Hears(Pads(64, 0, g.hw), k.ev, Pads(64, 0, g.hw))
      BY <2>12, <3>2, HearsAside, Zenon
    <3> QED  BY <2>14, <3>3, <3>4
  <2>16. /\ Hears(OwnStrips(k.hw), steps, OwnStrips(k.hw))
         /\ Hears(Pads(64, 0, g.hw), steps, Pads(64, 0, g.hw))
         /\ Hears(OwnButtons(k.hw), steps, OwnButtons(k.hw))
    <3>1. /\ \A e \in OwnStrips(k.hw) : e.type # "encoder"
          /\ \A e \in OwnButtons(k.hw) : e.type # "encoder"
      BY OwnKinds
    <3>2. \A e \in Pads(64, 0, g.hw) : e.type # "encoder"
      BY Kinds
    <3> QED  BY <2>7, <3>1, <3>2, HearsAside, Zenon
  <2> DEFINE ev == g.ev \o k.ev \o steps
  <2>17. /\ Hears(OwnStrips(m.hw), ev, OwnStrips(k.hw))
         /\ Hears(Pads(64, 0, m.grid), ev, Pads(64, 0, g.hw))
         /\ Hears(OwnButtons(m.hw), ev, OwnButtons(k.hw))
    BY <2>10, <2>11, <2>13, <2>15, <2>16, HearsBoth, Zenon
  <2>18. r.ev = ev
    BY <2>8
  <2> HIDE DEF ev
  <2>19. Hears(OwnStrips(m.hw) \cup Pads(64, 0, m.grid) \cup OwnButtons(m.hw), ev,
               OwnStrips(k.hw) \cup Pads(64, 0, g.hw) \cup OwnButtons(k.hw))
    BY <2>17, HearsUnion, Zenon
  <2>20. /\ Remembered("jam", m) = OwnStrips(m.hw) \cup Pads(64, 0, m.grid) \cup OwnButtons(m.hw)
         /\ Remembered("jam", r.m) = OwnStrips(k.hw) \cup Pads(64, 0, g.hw) \cup OwnButtons(k.hw)
    BY <1>2, <2>8, Zenon
  <2>21. Shaped("jam", r.m)
    <3>1. DOMAIN k.hw = DOMAIN m.hw /\ DOMAIN g.hw = DOMAIN m.grid
      BY <2>4, <2>6 DEF ButtonLoop, SquareLoop
    <3> QED  BY <1>1, <2>8, <2>9, <3>1 DEF OfSize
  <2> QED  BY <2>18, <2>19, <2>20, <2>21, Zenon DEF Keeps, r
<1>7. CASE rep.size = 49
  BY <1>5, <1>7 DEF Jam!ReadCb, b
<1>8. CASE rep.size = 17
  BY <1>6, <1>8 DEF Jam!ReadCb, b
<1>9. CASE rep.size \notin {49, 17}
  <2>1. Jam!ReadCb(m, rep) = [m |-> m, ev |-> <<>>]
    BY <1>9 DEF Jam!ReadCb, Jam!Silent
  <2> QED  BY <2>1, SilentKeeps
<1> QED  BY <1>7, <1>8, <1>9

\* After any report of any driver, whatever its bytes and whatever the driver
\* remembered, an application has what the driver then remembers, if it had what
\* was remembered before.
THEOREM AnyReportKept ==
  ASSUME NEW d \in AllDrivers, NEW m, NEW rep, Shaped(d, m)
  PROVE  Keeps(d, m, UsbReadCb(d, m, rep))
<1>1. CASE d = "f1"       BY <1>1, F1Keeps DEF UsbReadCb
<1>2. CASE d = "z1"       BY <1>2, Z1Keeps DEF UsbReadCb
<1>3. CASE d = "x1"       BY <1>3, X1Keeps DEF UsbReadCb
<1>4. CASE d = "s2"       BY <1>4, S2Keeps DEF UsbReadCb
<1>5. CASE d = "s5"       BY <1>5, S5Keeps DEF UsbReadCb
<1>6. CASE d = "d2"       BY <1>6, D2Keeps DEF UsbReadCb
<1>7. CASE d = "jam"      BY <1>7, JamKeeps DEF UsbReadCb
<1>8. CASE d = "mikro2"   BY <1>8, Mikro2Keeps DEF UsbReadCb
<1>9. CASE d = "mikro3"   BY <1>9, Mikro3Keeps DEF UsbReadCb
<1>10. CASE d = "mk3"     BY <1>10, Mk3Keeps DEF UsbReadCb
<1>11. CASE d = "mouse"   BY <1>11, MouseKeeps DEF UsbReadCb
<1>12. CASE d = "firmata" BY <1>12, BoardKeeps DEF UsbReadCb
<1> QED  BY <1>1, <1>2, <1>3, <1>4, <1>5, <1>6, <1>7, <1>8, <1>9, <1>10, <1>11, <1>12
         DEF AllDrivers

-----------------------------------------------------------------------------
(***************************************************************************)
(* The application's view is the driver's memory                           *)
(***************************************************************************)

\* Every control of R is at rest.
AtRest(R) == \A e \in R : e.val = 0

\* Two sets of controls at rest are at rest together.
LEMMA BothAtRest ==
  ASSUME NEW A, NEW B, AtRest(A), AtRest(B)
  PROVE  AtRest(A \cup B)
  BY Zenon DEF AtRest

\* A table of N slots that are all 0.
Blank(hw, N) == DOMAIN hw = 0..(N - 1) /\ \A s \in 0..(N - 1) : hw[s] = 0

\* Every control of such a table is at rest.
LEMMA TablesAtRest ==
  ASSUME NEW hw, NEW N \in Nat, Blank(hw, N),
         NEW n \in Nat, NEW base \in Nat, base + n <= N
  PROVE  AtRest(Sliders(n, base, hw)) /\ AtRest(Buttons(n, base, hw)) /\ AtRest(Pads(n, base, hw))
<1>1. \A i \in 0..(n - 1) : hw[base + i] = 0 /\ Pressed(hw[base + i]) = 0
  BY DEF Pressed, Blank
<1>2. AtRest(Sliders(n, base, hw))
  BY <1>1 DEF AtRest, Sliders, Slider
<1>3. AtRest(Buttons(n, base, hw))
  BY <1>1 DEF AtRest, Buttons, Button
<1>4. AtRest(Pads(n, base, hw))
  BY <1>1 DEF AtRest, Pads, Grid
<1> QED  BY <1>2, <1>3, <1>4

\* A driver has its arrays when it is connected, and remembers every control at
\* rest.
LEMMA FirstAtRest ==
  ASSUME NEW d \in AllDrivers
  PROVE  Shaped(d, Driver[d].memory0) /\ AtRest(Remembered(d, Driver[d].memory0))
<1>0. \A hw : \A N, n, base \in Nat :
        Blank(hw, N) /\ base + n <= N =>
          /\ AtRest(Sliders(n, base, hw)) /\ AtRest(Buttons(n, base, hw))
          /\ AtRest(Pads(n, base, hw))
  BY TablesAtRest
<1>1. CASE d = "f1"
  <2> DEFINE m == F1!Memory0
  <2>1. Blank(m.hw, 37)
    BY DEF F1!Memory0, Blank
  <2> HIDE DEF m
  <2>2. AtRest(Sliders(8, 0, m.hw)) /\ AtRest(Buttons(13, 8, m.hw)) /\ AtRest(Pads(16, 21, m.hw))
    BY <2>1, <1>0
  <2>3. AtRest(Remembered("f1", m))
    BY <2>2, BothAtRest DEF Remembered
  <2>4. Shaped("f1", m)
    BY <2>1 DEF Shaped, Blank
  <2> QED  BY <1>1, <2>3, <2>4, FirstMemory DEF m
<1>2. CASE d = "z1"
  <2> DEFINE m == Z1!Memory0
  <2>1. Blank(m.hw, 19)
    BY DEF Z1!Memory0, Blank
  <2> HIDE DEF m
  <2>2. AtRest(Sliders(14, 0, m.hw)) /\ AtRest(Buttons(5, 14, m.hw))
    BY <2>1, <1>0
  <2>3. AtRest(Remembered("z1", m))
    BY <2>2, BothAtRest DEF Remembered
  <2>4. Shaped("z1", m)
    BY <2>1 DEF Shaped, Blank
  <2> QED  BY <1>2, <2>3, <2>4, FirstMemory DEF m
<1>3. CASE d = "x1"
  <2> DEFINE m == X1!Memory0
  <2>1. Blank(m.hw, 45) /\ m.strip = 0
    BY DEF X1!Memory0, Blank
  <2> HIDE DEF m
  <2>2. AtRest(Sliders(8, 0, m.hw)) /\ AtRest(Buttons(37, 8, m.hw)) /\ AtRest({Slider(8, m.strip)})
    BY <2>1, <1>0 DEF AtRest, Slider
  <2>3. AtRest(Remembered("x1", m))
    BY <2>2, BothAtRest DEF Remembered
  <2>4. Shaped("x1", m)
    BY <2>1 DEF Shaped, Blank
  <2> QED  BY <1>3, <2>3, <2>4, FirstMemory DEF m
<1>4. CASE d = "s2"
  <2> DEFINE m == S2!Memory0
  <2>1. Blank(m.hw, 74) /\ "hw" \in DOMAIN m
    BY DEF S2!Memory0, Blank
  <2> HIDE DEF m
  <2>2. AtRest(Sliders(23, 0, m.hw)) /\ AtRest(Buttons(51, 23, m.hw))
    BY <2>1, <1>0
  <2>3. AtRest(Remembered("s2", m))
    BY <2>2, BothAtRest DEF Remembered
  <2>4. Shaped("s2", m)
    BY <2>1 DEF Shaped, Blank
  <2> QED  BY <1>4, <2>3, <2>4, FirstMemory DEF m
<1>5. CASE d = "s5"
  BY <1>5 DEF Shaped, Remembered, AtRest
<1>6. CASE d = "d2"
  <2> DEFINE m == D2!Memory0
  <2>1. Blank(m.hw, 70) /\ m.touch = 0 /\ {"hw", "touch"} \subseteq DOMAIN m
    BY DEF D2!Memory0, Blank
  <2> HIDE DEF m
  <2>2. /\ AtRest(Sliders(8, 4, m.hw)) /\ AtRest(Buttons(58, 12, m.hw))
        /\ AtRest({Button(D2!TouchButton, m.touch)})
    BY <2>1, <1>0 DEF AtRest, Button
  <2>3. AtRest(Remembered("d2", m))
    BY <2>2, BothAtRest DEF Remembered
  <2>4. Shaped("d2", m)
    BY <2>1 DEF Shaped, Blank
  <2> QED  BY <1>6, <2>3, <2>4, FirstMemory DEF m
<1>7. CASE d = "jam"
  <2> DEFINE m == Jam!Memory0
             A == {Slider(i, m.hw[Jam!StripSlot(i) + 1]) : i \in 0..3}
             B == {Button(i, Pressed(m.hw[Jam!ButtonBase + i])) : i \in 0..53 \ Overwritten}
  <2>1. /\ m.hw = [s \in 0..77 |-> 0] /\ Blank(m.grid, 64)
        /\ {"hw", "grid"} \subseteq DOMAIN m
    BY DEF Jam!Memory0, Blank
  <2> HIDE DEF m
  <2>2. AtRest(Pads(64, 0, m.grid))
    BY <2>1, <1>0
  <2>3. AtRest(A)
    <3>1. \A i \in 0..3 : m.hw[Jam!StripSlot(i) + 1] = 0
      BY <2>1, StripSlots
    <3> QED  BY <3>1 DEF AtRest, Slider
  <2>4. AtRest(B)
    <3>1. \A i \in 0..53 : Pressed(m.hw[Jam!ButtonBase + i]) = 0
      BY <2>1 DEF Jam!ButtonBase, Pressed
    <3> QED  BY <3>1 DEF AtRest, Button
  <2>5. Remembered("jam", m) = A \cup Pads(64, 0, m.grid) \cup B
    BY DEF Remembered
  <2> HIDE DEF A, B
  <2>6. AtRest(Remembered("jam", m))
    BY <2>2, <2>3, <2>4, <2>5, BothAtRest
  <2>7. Shaped("jam", m)
    BY <2>1 DEF Shaped, Blank
  <2> QED  BY <1>7, <2>6, <2>7, FirstMemory DEF m
<1>8. CASE d = "mikro2"
  <2> DEFINE m == Mikro2!Memory0
  <2>1. /\ Blank(m.hw, 29) /\ Blank(m.pads, 16)
        /\ {"hw", "pads"} \subseteq DOMAIN m
    BY DEF Mikro2!Memory0, Blank
  <2> HIDE DEF m
  <2>2. AtRest(Buttons(29, 0, m.hw)) /\ AtRest(Pads(16, 0, m.pads))
    BY <2>1, <1>0
  <2>3. AtRest(Remembered("mikro2", m))
    BY <2>2, BothAtRest DEF Remembered
  <2>4. Shaped("mikro2", m)
    BY <2>1 DEF Shaped, Blank
  <2> QED  BY <1>8, <2>3, <2>4, FirstMemory DEF m
<1>9. CASE d = "mikro3"
  <2> DEFINE m == Mikro3!Memory0
             A == {Grid(0, Mikro3!PadPosition(i), Pressed(m.hit[i])) : i \in 0..15}
  <2>1. /\ Blank(m.hw, 39) /\ m.hit = [s \in 0..15 |-> 0] /\ m.strip = 0
        /\ {"hw", "strip", "hit"} \subseteq DOMAIN m
    BY DEF Mikro3!Memory0, Blank
  <2> HIDE DEF m
  <2>2. AtRest(Buttons(39, 0, m.hw)) /\ AtRest({Slider(0, m.strip)})
    BY <2>1, <1>0 DEF AtRest, Slider
  <2>3. AtRest(A)
    BY <2>1 DEF AtRest, Grid, Pressed
  <2>4. Remembered("mikro3", m) = Buttons(39, 0, m.hw) \cup {Slider(0, m.strip)} \cup A
    BY DEF Remembered
  <2> HIDE DEF A
  <2>5. AtRest(Remembered("mikro3", m))
    BY <2>2, <2>3, <2>4, BothAtRest
  <2>6. Shaped("mikro3", m)
    BY <2>1 DEF Shaped, Blank
  <2> QED  BY <1>9, <2>5, <2>6, FirstMemory DEF m
<1>10. CASE d = "mk3"
  <2> DEFINE m == Mk3!Memory0
  <2>1. /\ Blank(m.hw, 72) /\ Blank(m.hit, 16)
        /\ {"hw", "hit"} \subseteq DOMAIN m
    BY DEF Mk3!Memory0, Blank
  <2> HIDE DEF m
  <2>2. AtRest(Buttons(72, 0, m.hw)) /\ AtRest(Pads(16, 0, m.hit))
    BY <2>1, <1>0
  <2>3. AtRest(Remembered("mk3", m))
    BY <2>2, BothAtRest DEF Remembered
  <2>4. Shaped("mk3", m)
    BY <2>1 DEF Shaped, Blank
  <2> QED  BY <1>10, <2>3, <2>4, FirstMemory DEF m
<1>11. CASE d = "mouse"
  <2> DEFINE m == Mouse!Memory0
             A == {Mouse!AxisEvent(i, m.hw[i]) : i \in 0..5}
             B == {Button(i, Pressed(m.buttons[i])) : i \in {0, 3, 9}}
  <2>1. /\ m.hw = [i \in 0..5 |-> 0] /\ m.buttons = [i \in 0..14 |-> 0]
        /\ {"hw", "buttons"} \subseteq DOMAIN m
    BY DEF Mouse!Memory0, Blank
  <2> HIDE DEF m
  <2>2. AtRest(A)
    <3>1. \A i \in 0..5 : Mouse!AxisEvent(i, m.hw[i]).val = 0
      BY <2>1 DEF Mouse!AxisEvent, Mouse!Slider
    <3> QED  BY <3>1 DEF AtRest
  <2>3. AtRest(B)
    BY <2>1 DEF AtRest, Button, Pressed
  <2>4. Remembered("mouse", m) = A \cup B
    BY DEF Remembered
  <2> HIDE DEF A, B
  <2>5. AtRest(Remembered("mouse", m))
    BY <2>2, <2>3, <2>4, BothAtRest
  <2>6. Shaped("mouse", m)
    BY <2>1 DEF Shaped, Blank
  <2> QED  BY <1>11, <2>5, <2>6, FirstMemory DEF m
<1>12. CASE d = "firmata"
  <2> DEFINE m == Board!Memory0
  <2>1. m.hw = [i \in {0} |-> 0]
    BY DEF Board!Memory0, Blank
  <2> HIDE DEF m
  <2>2. AtRest(Remembered("firmata", m))
    BY <2>1 DEF Remembered, AtRest, Button
  <2>3. Shaped("firmata", m)
    BY <2>1 DEF Shaped, Blank
  <2> QED  BY <1>12, <2>2, <2>3, FirstMemory DEF m
<1> QED  BY <1>1, <1>2, <1>3, <1>4, <1>5, <1>6, <1>7, <1>8, <1>9, <1>10, <1>11, <1>12
         DEF AllDrivers

\* The application's view is the memory of a driver that has its arrays.
ViewRemembered == driver \in AllDrivers /\ Shaped(driver, mem) /\ ViewIsMemory

\* ViewIsMemory, said with the operator of the lemmas.
LEMMA ViewHas == ViewIsMemory <=> \A e \in Remembered(driver, mem) : Has(view, e)
  BY Zenon DEF ViewIsMemory, Has

\* At first the application sees nothing, and every control is at rest.
LEMMA ViewInit == Init => ViewRemembered
<1> SUFFICES ASSUME Init
             PROVE  ViewRemembered
  OBVIOUS
<1>1. driver \in AllDrivers /\ mem = Driver[driver].memory0 /\ view = {}
  BY DriversAssumption, Zenon DEF Init
<1>2. Shaped(driver, mem) /\ AtRest(Remembered(driver, mem))
  BY <1>1, FirstAtRest, Zenon
<1>3. \A e : e.val = 0 => Has({}, e)
  BY DEF Has
<1>4. \A e \in Remembered(driver, mem) : Has(view, e)
  BY <1>1, <1>2, <1>3, Zenon DEF AtRest
<1> QED  BY <1>1, <1>2, <1>4, ViewHas, Zenon DEF ViewRemembered

\* Only what the decoder returns changes the memory, and the application keeps
\* all of what it tells.
LEMMA ViewStep == ViewRemembered /\ [Next]_vars => ViewRemembered'
<1> SUFFICES ASSUME ViewRemembered, [Next]_vars
             PROVE  ViewRemembered'
  OBVIOUS
<1>1. driver' = driver
  BY Zenon DEF Next, Touch_, Release, Slide, Turn, Report, Echo, vars
<1>2. ASSUME UNCHANGED <<mem, view>> PROVE ViewRemembered'
  BY <1>1, <1>2, Zenon DEF ViewRemembered, ViewIsMemory
<1>3. ASSUME NEW rep, Hear(rep) PROVE ViewRemembered'
  <2> DEFINE r == UsbReadCb(driver, mem, rep)
  <2>1. mem' = r.m /\ view' = KeepAll(view, r.ev)
    BY <1>3, Zenon DEF Hear
  <2>2. Keeps(driver, mem, r)
    BY AnyReportKept, Zenon DEF ViewRemembered
  <2> HIDE DEF r
  <2>3. Shaped(driver, mem')
    BY <2>1, <2>2, Zenon DEF Keeps
  <2>4. ASSUME NEW f \in Remembered(driver, mem')
        PROVE  Has(view', f)
    <3>1. PICK e \in Remembered(driver, mem) : Updates(r.ev, e, f)
      BY <2>1, <2>2, <2>4, Zenon DEF Keeps, Hears
    <3>2. Has(view, e)
      BY <3>1, ViewHas, Zenon DEF ViewRemembered
    <3> QED  BY <2>1, <3>1, <3>2, KeptIsUpdated, Zenon
  <2>5. ViewIsMemory'
    BY <1>1, <2>4, Zenon DEF ViewIsMemory, Has
  <2> QED  BY <1>1, <2>3, <2>5, Zenon DEF ViewRemembered
<1>4. ASSUME NEW t \in hands, Touch_(t) PROVE ViewRemembered'
  BY <1>2, <1>4, Zenon DEF Touch_
<1>5. ASSUME NEW t \in hands, Release(t) PROVE ViewRemembered'
  BY <1>2, <1>5, Zenon DEF Release
<1>6. ASSUME NEW t \in hands, NEW u \in hands, Slide(t, u) PROVE ViewRemembered'
  BY <1>2, <1>6, Zenon DEF Slide
<1>7. ASSUME NEW k, NEW by, Turn(k, by) PROVE ViewRemembered'
  BY <1>2, <1>7, Zenon DEF Turn
<1>8. ASSUME NEW size, Report(size) PROVE ViewRemembered'
  BY <1>3, <1>8, Zenon DEF Report
<1>9. ASSUME NEW size, Echo(size) PROVE ViewRemembered'
  BY <1>3, <1>9, Zenon DEF Echo
<1>10. ASSUME UNCHANGED vars PROVE ViewRemembered'
  BY <1>2, <1>10, Zenon DEF vars
<1> QED  BY <1>4, <1>5, <1>6, <1>7, <1>8, <1>9, <1>10, Zenon DEF Next

\* What the application sees of a control is what its driver remembers of it, for
\* every driver and every choice of Drivers and Faulty.
THEOREM ViewMemoryCorrect == Spec => []ViewIsMemory
<1>1. ViewRemembered => ViewIsMemory
  BY DEF ViewRemembered
<1> QED  BY <1>1, ViewInit, ViewStep, PTL DEF Spec
===============================================================================
