---------------------------- MODULE UsbXferProofs ----------------------------
(***************************************************************************)
(* Proofs about UsbXfer, for every number of blocks and every bound.       *)
(*                                                                         *)
(* The inductive invariant has three parts: the books (the counters are    *)
(* cardinalities of sets of blocks), the shape of the list and the         *)
(* progress of xfer_release along it. The links alone do not exclude a     *)
(* ring of blocks that the head never reaches, so the shape is stated with *)
(* a witness: every block has a position, the head's is 0 and a link adds  *)
(* one. The witness also says which blocks the walk has behind it.         *)
(***************************************************************************)
EXTENDS UsbXfer, FiniteSetTheorems, TLAPS

Shape(heap, nx, pv, hd, pos, size) ==
  /\ hd = Null <=> heap = {}
  /\ hd # Null => hd \in heap /\ pos[hd] = 0
  /\ \A a, b \in heap : pos[a] = pos[b] => a = b
  /\ \A b \in heap :
       /\ nx[b] \in heap \cup {Null} /\ pv[b] \in heap \cup {Null}
       /\ nx[b] # Null => pv[nx[b]] = b /\ pos[nx[b]] = pos[b] + 1
       /\ nx[b] = Null => \A a \in heap : pos[a] <= pos[b]
       /\ pv[b] # Null => nx[pv[b]] = b
       /\ pv[b] = Null <=> hd = b
       /\ pos[b] < size

Walked(pos) ==
  phase = "release" =>
    /\ cur \in live /\ steps = pos[cur]
    /\ \A b \in live : pos[b] < pos[cur] => xfr[b] # "submitted"

Books ==
  /\ reads \subseteq live
  /\ CountsAreBlocks /\ BlockOutlivesTransfer /\ CancelsCovered
  /\ \A b \in Blocks : xfr[b] = "reporting" <=> b = cb
  /\ phase = "release" => cb = Null /\ cur \in Blocks

List ==
  ~failed => /\ fault = "none"
             /\ \E pos \in [Blocks -> Nat] :
                  /\ Shape(live, next, prev, head, pos, Cardinality(live))
                  /\ Walked(pos)

IInv == TypeOK /\ Books /\ List

-----------------------------------------------------------------------------
(* Sets of blocks and their sizes *)

\* Every set of blocks is finite and has a size in Nat.
LEMMA SizeType ==
  ASSUME NEW S \in SUBSET Blocks
  PROVE  IsFiniteSet(S) /\ Cardinality(S) \in Nat
BY BlocksAssumption, FS_Subset, FS_CardinalityType

\* One block more: the size grows by one.
LEMMA SizeAdd ==
  ASSUME NEW S \in SUBSET Blocks, NEW b \in Blocks, b \notin S
  PROVE  Cardinality(S \cup {b}) = Cardinality(S) + 1
BY SizeType, FS_AddElement

\* One block fewer: the size was at least one and shrinks by one.
LEMMA SizeRemove ==
  ASSUME NEW S \in SUBSET Blocks, NEW b \in S
  PROVE  Cardinality(S) >= 1 /\ Cardinality(S \ {b}) = Cardinality(S) - 1
<1>1. IsFiniteSet(S \ {b}) /\ Cardinality(S \ {b}) = Cardinality(S) - 1
  BY SizeType, FS_RemoveElement
<1>2. Cardinality(S \ {b}) \in Nat /\ Cardinality(S) \in Nat
  BY SizeType
<1> QED BY <1>1, <1>2

\* A subset is not larger.
LEMMA SizeSubset ==
  ASSUME NEW S \in SUBSET Blocks, NEW T \in SUBSET S
  PROVE  Cardinality(T) <= Cardinality(S)
BY SizeType, FS_Subset

-----------------------------------------------------------------------------
(* The two operations on the list *)

\* Putting a block in front of a well-shaped list (usb.c:554-560) gives a
\* well-shaped list, every old position moved up by one.
LEMMA InsertShape ==
  ASSUME NEW heap \in SUBSET Blocks, NEW hd \in Blocks \cup {Null},
         NEW nx \in [Blocks -> Blocks \cup {Null}],
         NEW pv \in [Blocks -> Blocks \cup {Null}],
         NEW pos \in [Blocks -> Nat], NEW size \in Nat,
         Shape(heap, nx, pv, hd, pos, size),
         NEW b \in Blocks, b \notin heap
  PROVE  LET nx2  == [nx EXCEPT ![b] = hd]
             pv2  == [(IF hd = Null THEN pv ELSE [pv EXCEPT ![hd] = b])
                       EXCEPT ![b] = Null]
             pos2 == [a \in Blocks |-> IF a = b THEN 0 ELSE pos[a] + 1]
         IN Shape(heap \cup {b}, nx2, pv2, b, pos2, size + 1)
<1> DEFINE nx2  == [nx EXCEPT ![b] = hd]
           pv2  == [(IF hd = Null THEN pv ELSE [pv EXCEPT ![hd] = b])
                     EXCEPT ![b] = Null]
           pos2 == [a \in Blocks |-> IF a = b THEN 0 ELSE pos[a] + 1]
           heap2 == heap \cup {b}
<1>1. b # Null /\ b # hd
  BY BlocksAssumption DEF Shape
<1>2. /\ nx2[b] = hd /\ \A a \in heap : nx2[a] = nx[a]
      /\ pv2[b] = Null
      /\ \A a \in heap : pv2[a] = IF a = hd THEN b ELSE pv[a]
      /\ pos2[b] = 0 /\ \A a \in heap : pos2[a] = pos[a] + 1
  BY <1>1, BlocksAssumption
<1> HIDE DEF nx2, pv2, pos2
<1>3. \A x, y \in heap2 : pos2[x] = pos2[y] => x = y
  BY <1>2 DEF Shape
<1>4. ASSUME NEW a \in heap2
      PROVE  /\ nx2[a] \in heap2 \cup {Null} /\ pv2[a] \in heap2 \cup {Null}
             /\ nx2[a] # Null => pv2[nx2[a]] = a /\ pos2[nx2[a]] = pos2[a] + 1
             /\ pv2[a] # Null => nx2[pv2[a]] = a
             /\ pv2[a] = Null <=> b = a
             /\ pos2[a] < size + 1
  <2>1. CASE a = b
    BY <1>1, <1>2, <2>1 DEF Shape
  <2>2. CASE a \in heap
    BY <1>1, <1>2, <2>2, BlocksAssumption DEF Shape
  <2> QED BY <2>1, <2>2
<1>5. ASSUME NEW a \in heap2, nx2[a] = Null
      PROVE  \A x \in heap2 : pos2[x] <= pos2[a]
  <2>1. CASE a = b
    BY <1>1, <1>2, <1>5, <2>1 DEF Shape
  <2>2. CASE a \in heap
    BY <1>1, <1>2, <1>5, <2>2 DEF Shape
  <2> QED BY <2>1, <2>2
<1>6. Shape(heap2, nx2, pv2, b, pos2, size + 1)
  BY <1>1, <1>2, <1>3, <1>4, <1>5 DEF Shape
<1> QED BY <1>6 DEF nx2, pv2, pos2

\* The links, the head and the positions once b has been taken out.
NextWithout(nx, pv, b) ==
  [(IF pv[b] = Null THEN nx ELSE [nx EXCEPT ![pv[b]] = nx[b]]) EXCEPT ![b] = Null]
PrevWithout(nx, pv, b) ==
  [(IF nx[b] = Null THEN pv ELSE [pv EXCEPT ![nx[b]] = pv[b]]) EXCEPT ![b] = Null]
HeadWithout(hd, nx, pv, b) == IF pv[b] = Null THEN nx[b] ELSE hd
PosWithout(pos, b) ==
  [a \in Blocks |-> IF pos[a] > pos[b] THEN pos[a] - 1 ELSE pos[a]]

\* Taking a block out of a well-shaped list (usb.c:478-488) gives a
\* well-shaped list, every later position moved down by one.
LEMMA UnlinkShape ==
  ASSUME NEW heap \in SUBSET Blocks, NEW hd \in Blocks \cup {Null},
         NEW nx \in [Blocks -> Blocks \cup {Null}],
         NEW pv \in [Blocks -> Blocks \cup {Null}],
         NEW pos \in [Blocks -> Nat], NEW size \in Nat \ {0},
         Shape(heap, nx, pv, hd, pos, size),
         NEW b \in heap
  PROVE  Shape(heap \ {b}, NextWithout(nx, pv, b), PrevWithout(nx, pv, b),
               HeadWithout(hd, nx, pv, b), PosWithout(pos, b), size - 1)
<1> DEFINE n == nx[b]
           p == pv[b]
           nx2 == [(IF p = Null THEN nx ELSE [nx EXCEPT ![p] = n])
                    EXCEPT ![b] = Null]
           pv2 == [(IF n = Null THEN pv ELSE [pv EXCEPT ![n] = p])
                    EXCEPT ![b] = Null]
           hd2 == IF p = Null THEN n ELSE hd
           pos2 == [a \in Blocks |-> IF pos[a] > pos[b] THEN pos[a] - 1
                                     ELSE pos[a]]
           heap2 == heap \ {b}
<1>1. /\ n \in heap2 \cup {Null} /\ p \in heap2 \cup {Null}
      /\ n # Null => pv[n] = b /\ pos[n] = pos[b] + 1
      /\ p # Null => nx[p] = b /\ pos[b] = pos[p] + 1
      /\ p = Null <=> hd = b
      /\ n = Null => \A a \in heap : pos[a] <= pos[b]
  <2>1. n # b
    BY BlocksAssumption DEF Shape
  <2>2. p # b
    BY <2>1, BlocksAssumption DEF Shape
  <2> QED BY <2>1, <2>2, BlocksAssumption DEF Shape
<1>2. \A a \in heap2 :
        /\ nx2[a] = IF a = p THEN n ELSE nx[a]
        /\ pv2[a] = IF a = n THEN p ELSE pv[a]
        /\ pos2[a] = IF pos[a] > pos[b] THEN pos[a] - 1 ELSE pos[a]
        /\ pos[a] \in Nat /\ pos[b] \in Nat /\ pos[a] # pos[b]
  BY <1>1, BlocksAssumption DEF Shape
<1>3. \A a \in heap2 : /\ nx[a] = b => a = p
                       /\ pv[a] = b => a = n
  BY BlocksAssumption DEF Shape
<1> HIDE DEF n, p, nx2, pv2, pos2
<1>4. \A x, y \in heap2 : pos2[x] = pos2[y] => x = y
  <2> SUFFICES ASSUME NEW x \in heap2, NEW y \in heap2, pos2[x] = pos2[y],
                      pos[x] # pos[y]
               PROVE FALSE
    BY DEF Shape
  <2> QED BY <1>2
<1>5. ASSUME NEW a \in heap2
      PROVE  /\ nx2[a] \in heap2 \cup {Null} /\ pv2[a] \in heap2 \cup {Null}
             /\ nx2[a] # Null => pv2[nx2[a]] = a /\ pos2[nx2[a]] = pos2[a] + 1
             /\ pv2[a] # Null => nx2[pv2[a]] = a
  <2>1. nx2[a] \in heap2 \cup {Null} /\ pv2[a] \in heap2 \cup {Null}
    BY <1>1, <1>2, <1>3 DEF Shape
  <2>2. ASSUME nx2[a] # Null
        PROVE  pv2[nx2[a]] = a /\ pos2[nx2[a]] = pos2[a] + 1
    <3>1. CASE a = p
      BY <1>1, <1>2, <2>1, <2>2, <3>1, BlocksAssumption
    <3>2. CASE a # p
      <4>1. nx2[a] = nx[a] /\ nx[a] \in heap2 /\ nx[a] # n
        BY <1>1, <1>2, <1>3, <2>1, <2>2, <3>2 DEF Shape
      <4>2. pv2[nx2[a]] = a /\ pos[nx[a]] = pos[a] + 1
        BY <1>2, <4>1, BlocksAssumption DEF Shape
      <4> QED BY <1>2, <4>1, <4>2
    <3> QED BY <3>1, <3>2
  <2>3. ASSUME pv2[a] # Null
        PROVE  nx2[pv2[a]] = a
    <3>1. CASE a = n
      BY <1>1, <1>2, <2>1, <2>3, <3>1, BlocksAssumption
    <3>2. CASE a # n
      <4>1. pv2[a] = pv[a] /\ pv[a] \in heap2 /\ nx[pv[a]] = a
        BY <1>2, <2>1, <2>3, <3>2, BlocksAssumption DEF Shape
      <4>2. pv[a] # p
        BY <1>1, <4>1, BlocksAssumption
      <4> QED BY <1>2, <4>1, <4>2
    <3> QED BY <3>1, <3>2
  <2> QED BY <2>1, <2>2, <2>3
<1>6. ASSUME NEW a \in heap2
      PROVE  /\ pv2[a] = Null <=> hd2 = a
             /\ pos2[a] < size - 1
  <2>1. pos[a] < size /\ pos[b] < size /\ pos[a] # pos[b] /\ size \in Nat
    BY <1>2 DEF Shape
  <2>2. pos2[a] < size - 1
    BY <1>2, <2>1
  <2>3. pv2[a] = Null <=> hd2 = a
    <3>1. CASE a = n
      BY <1>1, <1>2, <3>1, BlocksAssumption DEF Shape
    <3>2. CASE a # n
      BY <1>1, <1>2, <3>2, BlocksAssumption DEF Shape
    <3> QED BY <3>1, <3>2
  <2> QED BY <2>2, <2>3
<1>7. ASSUME NEW a \in heap2, nx2[a] = Null
      PROVE  \A x \in heap2 : pos2[x] <= pos2[a]
  <2>1. CASE a = p
    <3>1. n = Null
      BY <1>2, <1>7, <2>1
    <3>2. \A x \in heap2 : pos[x] < pos[b]
      BY <1>1, <1>2, <3>1
    <3> QED BY <1>1, <1>2, <2>1, <3>2, BlocksAssumption
  <2>2. CASE a # p
    <3>1. \A x \in heap : pos[x] <= pos[a]
      BY <1>2, <1>7, <2>2 DEF Shape
    <3> QED BY <1>2, <3>1
  <2> QED BY <2>1, <2>2
<1>8. /\ hd2 = Null <=> heap2 = {}
      /\ hd2 # Null => hd2 \in heap2 /\ pos2[hd2] = 0
  <2>1. CASE p = Null
    <3>1. hd2 = n /\ pos[b] = 0 /\ b = hd
      BY <1>1, <2>1, BlocksAssumption DEF Shape
    <3>2. n = Null => heap2 = {}
      BY <1>1, <1>2, <3>1
    <3> QED BY <1>1, <1>2, <3>1, <3>2, BlocksAssumption
  <2>2. CASE p # Null
    <3>1. hd2 = hd /\ hd \in heap2 /\ pos[hd] = 0
      BY <1>1, <2>2, BlocksAssumption DEF Shape
    <3> QED BY <1>2, <3>1, BlocksAssumption
  <2> QED BY <2>1, <2>2
<1>9. Shape(heap2, nx2, pv2, hd2, pos2, size - 1)
  BY <1>4, <1>5, <1>6, <1>7, <1>8 DEF Shape
<1> QED
  BY <1>9, Zenon
  DEF n, p, nx2, pv2, pos2, NextWithout, PrevWithout, HeadWithout, PosWithout
-----------------------------------------------------------------------------
(* The inductive invariant holds at the start *)

\* A device just connected satisfies the inductive invariant.
LEMMA InitIInv == Init => IInv
<1> SUFFICES ASSUME Init PROVE IInv
  OBVIOUS
<1>1. TypeOK
  BY BlocksAssumption DEF Init, TypeOK, XfrStates, Phases
<1>2. Cardinality({}) = 0
  BY FS_EmptySet
<1>3. Books
  <2>1. {b \in live : xfr[b] \in {"cancelling", "cancelled"}} = {}
    BY DEF Init
  <2>2. live \ reads = {} /\ reads = {}
    BY DEF Init
  <2> QED
    BY <1>2, <2>1, <2>2, BlocksAssumption, BoundsAssumption
    DEF Init, Books, CountsAreBlocks, BlockOutlivesTransfer, CancelsCovered
<1>4. List
  <2> DEFINE pos == [b \in Blocks |-> 0]
  <2>1. pos \in [Blocks -> Nat]
    OBVIOUS
  <2>2. Shape(live, next, prev, head, pos, Cardinality(live)) /\ Walked(pos)
    BY DEF Init, Shape, Walked
  <2> QED BY <2>1, <2>2 DEF Init, List
<1> QED BY <1>1, <1>3, <1>4 DEF IInv

-----------------------------------------------------------------------------
(* ... and is kept by what the actions share *)

Cancelled == {b \in live : xfr[b] \in {"cancelling", "cancelled"}}

\* A step that touches neither the books nor the list and stays clear of
\* xfer_release.
LEMMA KeepBooksAndList ==
  ASSUME IInv, UNCHANGED <<links, counts, cb, failed, fault>>,
         phase' # "release"
  PROVE  Books' /\ List'
<1> USE DEF links, counts
<1>1. Books'
  BY DEF IInv, Books, CountsAreBlocks, BlockOutlivesTransfer, CancelsCovered
<1>2. ASSUME ~failed PROVE List'
  <2>1. PICK pos \in [Blocks -> Nat] :
          Shape(live, next, prev, head, pos, Cardinality(live))
    BY <1>2 DEF IInv, List
  <2>2. Shape(live, next, prev, head, pos, Cardinality(live))' /\ Walked(pos)'
    BY <2>1 DEF Shape, Walked
  <2> QED BY <1>2, <2>2 DEF IInv, List
<1> QED BY <1>1, <1>2 DEF List

\* A step that changes nothing.
LEMMA Stutter == ASSUME IInv, UNCHANGED vars PROVE IInv'
<1> USE DEF IInv, vars, links, counts, closing
<1>1. TypeOK'
  BY DEF TypeOK
<1>2. Books'
  BY DEF Books, CountsAreBlocks, BlockOutlivesTransfer, CancelsCovered
<1>3. List'
  BY DEF List, Shape, Walked
<1> QED BY <1>1, <1>2, <1>3

\* Retiring a block, the tail of the completion callback (usb.c:468-494):
\* the counter it decrements was positive, and it counts blocks as before.
LEMMA RetireBooks ==
  ASSUME IInv, fault = "none", NEW b \in live, Retire(b)
  PROVE  /\ infRead' \in Nat /\ infWrite' \in Nat
         /\ reads' \subseteq live'
         /\ CountsAreBlocks' /\ BlockOutlivesTransfer'
<1>1. /\ infRead = Cardinality(reads) /\ infWrite = Cardinality(live \ reads)
      /\ infRead <= ReadMax /\ infWrite <= ReadMax
      /\ live = {a \in Blocks : xfr[a] # "none"}
      /\ reads \subseteq live /\ live \in SUBSET Blocks
      /\ infRead \in Nat /\ infWrite \in Nat
      /\ xfr \in [Blocks -> XfrStates]
  BY DEF IInv, Books, CountsAreBlocks, BlockOutlivesTransfer, TypeOK
<1>2. /\ live' = live \ {b} /\ reads' = reads \ {b}
      /\ infRead' = IF b \in reads THEN infRead - 1 ELSE infRead
      /\ infWrite' = IF b \in reads THEN infWrite ELSE infWrite - 1
      /\ reads' \subseteq live' /\ BlockOutlivesTransfer'
  BY <1>1 DEF BlockOutlivesTransfer, Retire
<1>0. ReadMax \in Nat
  BY BoundsAssumption
<1>3. CASE b \in reads
  <2>1. live' \ reads' = live \ reads
    BY <1>1, <1>2, <1>3
  <2>2. Cardinality(reads) >= 1 /\ Cardinality(reads') = Cardinality(reads) - 1
    BY <1>1, <1>2, <1>3, SizeRemove
  <2>3. infRead' = infRead - 1 /\ infWrite' = infWrite
    BY <1>2, <1>3
  <2>4. infRead' = Cardinality(reads') /\ infWrite' = Cardinality(live' \ reads')
    BY <1>1, <2>1, <2>2, <2>3
  <2>5. infRead' \in Nat /\ infRead' <= ReadMax /\ infWrite' \in Nat /\ infWrite' <= ReadMax
    BY <1>0, <1>1, <2>2, <2>3
  <2> QED
    BY <1>2, <2>4, <2>5 DEF CountsAreBlocks
<1>4. CASE b \notin reads
  <2>1. live' \ reads' = (live \ reads) \ {b} /\ reads' = reads
    BY <1>1, <1>2, <1>4
  <2>2. /\ Cardinality(live \ reads) >= 1
        /\ Cardinality((live \ reads) \ {b}) = Cardinality(live \ reads) - 1
    BY <1>1, <1>4, SizeRemove
  <2>3. infRead' = infRead /\ infWrite' = infWrite - 1
    BY <1>2, <1>4
  <2>4. infRead' = Cardinality(reads') /\ infWrite' = Cardinality(live' \ reads')
    BY <1>1, <2>1, <2>2, <2>3
  <2>5. infRead' \in Nat /\ infRead' <= ReadMax /\ infWrite' \in Nat /\ infWrite' <= ReadMax
    BY <1>0, <1>1, <2>2, <2>3
  <2> QED
    BY <1>2, <2>4, <2>5 DEF CountsAreBlocks
<1> QED BY <1>3, <1>4

\* Retiring a block leaves a well-shaped list and follows no dead pointer.
LEMMA RetireList ==
  ASSUME IInv, fault = "none", NEW b \in live, Retire(b),
         failed' = failed, phase' # "release"
  PROVE  List'
<1> SUFFICES ASSUME ~failed PROVE List'
  BY DEF List
<1>1. PICK pos \in [Blocks -> Nat] :
        Shape(live, next, prev, head, pos, Cardinality(live))
  BY DEF IInv, List
<1>2. /\ live \in SUBSET Blocks /\ head \in Blocks \cup {Null}
      /\ next \in [Blocks -> Blocks \cup {Null}]
      /\ prev \in [Blocks -> Blocks \cup {Null}]
  BY DEF IInv, TypeOK
<1>3. Cardinality(live) \in Nat \ {0} /\ Cardinality(live \ {b}) = Cardinality(live) - 1
  BY <1>2, SizeType, SizeRemove
<1> DEFINE pos2 == PosWithout(pos, b)
<1>4. Shape(live', next', prev', head', pos2, Cardinality(live'))
  <2>1. /\ live' = live \ {b}
        /\ next' = NextWithout(next, prev, b)
        /\ prev' = PrevWithout(next, prev, b)
        /\ head' = HeadWithout(head, next, prev, b)
    BY Zenon DEF Retire, Unlink, NextWithout, PrevWithout, HeadWithout
  <2>2. Shape(live \ {b}, NextWithout(next, prev, b), PrevWithout(next, prev, b),
              HeadWithout(head, next, prev, b), pos2, Cardinality(live) - 1)
    BY <1>1, <1>2, <1>3, UnlinkShape, Zenon
  <2> QED BY <1>3, <2>1, <2>2, Zenon
<1>5. fault' = "none"
  BY <1>1 DEF Retire, Unlink, Shape, Deref
<1>6. pos2 \in [Blocks -> Nat]
  BY <1>2 DEF PosWithout
<1>7. Walked(pos2)'
  BY DEF Walked
<1> HIDE DEF pos2
<1> QED BY <1>4, <1>5, <1>6, <1>7 DEF List

\* The variables a retirement changes keep their types.
LEMMA RetireTypes ==
  ASSUME TypeOK, NEW b \in live, Retire(b)
  PROVE  /\ live' \in SUBSET Blocks /\ reads' \in SUBSET Blocks
         /\ next' \in [Blocks -> Blocks \cup {Null}]
         /\ prev' \in [Blocks -> Blocks \cup {Null}]
         /\ head' \in Blocks \cup {Null}
         /\ xfr' \in [Blocks -> XfrStates]
         /\ fault' \in {"none", "badFree", "useAfterFree"}
<1>1. next[b] \in Blocks \cup {Null} /\ prev[b] \in Blocks \cup {Null}
  BY DEF TypeOK
<1> QED BY <1>1 DEF TypeOK, Retire, Unlink, Deref, XfrStates

-----------------------------------------------------------------------------
(* ... and by every action *)

\* A submitted transfer: its block is new, at the head, and counted.
LEMMA StepSubmit ==
  ASSUME IInv, NEW b \in Blocks, NEW k \in Kinds, Submit(b, k)
  PROVE  IInv'
<1> USE DEF IInv
<1>1. phase # "release" /\ phase' = phase /\ failed' = failed
  BY BlocksAssumption DEF Submit, MaySubmit, Books, TypeOK, closing
<1>2. TypeOK'
  BY DEF TypeOK, Submit, Insert, closing, Deref, Inflight, XfrStates
<1>3. /\ infRead = Cardinality(reads) /\ infWrite = Cardinality(live \ reads)
      /\ infRead <= ReadMax /\ infWrite <= ReadMax
      /\ reads \subseteq live /\ live \in SUBSET Blocks
  BY DEF Submit, Books, CountsAreBlocks, TypeOK
<1>4. CountsAreBlocks'
  <2>1. CASE k = "read"
    <3>1. reads' = reads \cup {b} /\ live' \ reads' = live \ reads
      BY <1>3, <2>1 DEF Submit, Insert
    <3>2. Cardinality(reads') = Cardinality(reads) + 1
      BY <1>3, <3>1, SizeAdd DEF Submit
    <3>3. /\ infRead' = infRead + 1 /\ infWrite' = infWrite
          /\ infRead < ReadMax /\ infRead \in Nat /\ ReadMax \in Nat
      BY <2>1, BoundsAssumption DEF Submit, Inflight, TypeOK
    <3> QED BY <1>3, <3>1, <3>2, <3>3 DEF CountsAreBlocks
  <2>2. CASE k # "read"
    <3>1. reads' = reads /\ live' \ reads' = (live \ reads) \cup {b}
      BY <1>3, <2>2 DEF Submit, Insert
    <3>2. Cardinality((live \ reads) \cup {b}) = Cardinality(live \ reads) + 1
      BY <1>3, SizeAdd DEF Submit
    <3>3. /\ infRead' = infRead /\ infWrite' = infWrite + 1
          /\ infWrite < ReadMax /\ infWrite \in Nat /\ ReadMax \in Nat
      BY <2>2, BoundsAssumption DEF Submit, Inflight, TypeOK
    <3> QED BY <1>3, <3>1, <3>2, <3>3 DEF CountsAreBlocks
  <2> QED BY <2>1, <2>2
<1>5. BlockOutlivesTransfer' /\ xfr[b] = "none"
  BY DEF Submit, Books, BlockOutlivesTransfer, TypeOK
<1>6. CancelsCovered'
  <2>1. Cancelled' = Cancelled
    BY <1>3 DEF Cancelled, Submit, TypeOK
  <2> QED BY <2>1 DEF Cancelled, CancelsCovered, Books, Submit
<1>7. /\ reads' \subseteq live'
      /\ \A a \in Blocks : xfr'[a] = "reporting" <=> a = cb'
  BY <1>3, <1>5 DEF Books, Submit, Insert, TypeOK
<1>8. List'
  <2> SUFFICES ASSUME ~failed PROVE List'
    BY <1>1 DEF List
  <2>1. PICK pos \in [Blocks -> Nat] :
          Shape(live, next, prev, head, pos, Cardinality(live))
    BY DEF List
  <2> DEFINE pos2 == [a \in Blocks |-> IF a = b THEN 0 ELSE pos[a] + 1]
  <2>2. Cardinality(live) \in Nat /\ Cardinality(live') = Cardinality(live) + 1
    BY <1>3, SizeType, SizeAdd DEF Submit
  <2>3. Shape(live', next', prev', head', pos2, Cardinality(live'))
    <3>1. /\ live' = live \cup {b} /\ head' = b /\ b \notin live
          /\ next' = [next EXCEPT ![b] = head]
          /\ prev' = [(IF head = Null THEN prev ELSE [prev EXCEPT ![head] = b])
                        EXCEPT ![b] = Null]
      BY Zenon DEF Submit, Insert
    <3>2. /\ live \in SUBSET Blocks /\ head \in Blocks \cup {Null}
          /\ next \in [Blocks -> Blocks \cup {Null}]
          /\ prev \in [Blocks -> Blocks \cup {Null}]
      BY DEF TypeOK
    <3>3. Shape(live \cup {b}, [next EXCEPT ![b] = head],
                [(IF head = Null THEN prev ELSE [prev EXCEPT ![head] = b])
                   EXCEPT ![b] = Null], b, pos2, Cardinality(live) + 1)
      BY <2>1, <2>2, <3>1, <3>2, InsertShape, Zenon
    <3> QED BY <2>2, <3>1, <3>3, Zenon
  <2>4. fault' = "none"
    BY <2>1 DEF Submit, Shape, Deref
  <2>5. pos2 \in [Blocks -> Nat] /\ Walked(pos2)'
    BY <1>1 DEF Walked
  <2> HIDE DEF pos2
  <2> QED BY <2>3, <2>4, <2>5 DEF List
<1> QED BY <1>1, <1>2, <1>4, <1>5, <1>6, <1>7, <1>8 DEF Books

\* A refused one spoils the list, which the invariant then gives up.
LEMMA StepSubmitRefused ==
  ASSUME IInv, NEW b \in Blocks, NEW k \in Kinds, SubmitRefused(b, k)
  PROVE  IInv'
<1> USE DEF IInv
<1>1. phase # "release" /\ phase' = phase /\ failed' /\ k \in FailKinds
  BY BlocksAssumption DEF SubmitRefused, MaySubmit, Books, TypeOK, closing
<1>2. TypeOK'
  BY FailAssumption
  DEF TypeOK, SubmitRefused, Insert, counts, closing, Deref
<1>3. Cancelled' = Cancelled
  BY DEF Cancelled, SubmitRefused, Books, BlockOutlivesTransfer, TypeOK
<1>4. CancelsCovered'
  BY <1>3 DEF Cancelled, CancelsCovered, Books, SubmitRefused, counts
<1>5. Books'
  <2>1. CASE k = "bulk"
    <3>1. reads' = reads /\ live' = live /\ xfr' = xfr
      BY <2>1 DEF SubmitRefused, Insert
    <3> QED
      BY <1>1, <1>4, <2>1, <3>1
      DEF SubmitRefused, counts, Books, CountsAreBlocks, BlockOutlivesTransfer
  <2>2. CASE k # "bulk"
    BY <1>1, <1>4, <2>2
    DEF SubmitRefused, Insert, counts, Books, CountsAreBlocks,
        BlockOutlivesTransfer
  <2> QED BY <2>1, <2>2
<1>6. List'
  BY <1>1 DEF List
<1> QED BY <1>2, <1>5, <1>6

\* The kernel only changes the state of a transfer that libusb holds.
LEMMA StepFinish ==
  ASSUME IInv, NEW b \in Blocks, Finish(b)
  PROVE  IInv'
<1> USE DEF IInv
<1>1. PICK s \in Finished :
        /\ xfr[b] = "cancelling" \/ (xfr[b] = "submitted" /\ s # "cancelled")
        /\ xfr' = [xfr EXCEPT ![b] = s]
  BY DEF Finish
<1>2. TypeOK'
  <2>1. xfr' \in [Blocks -> XfrStates]
    BY <1>1 DEF TypeOK, XfrStates, Finished
  <2> QED BY <2>1 DEF TypeOK, Finish, counts, closing
<1>3. /\ Cancelled' \in SUBSET Cancelled /\ Cancelled \in SUBSET Blocks
      /\ live' = live
  BY <1>1 DEF Cancelled, Finish, Finished, TypeOK
<1>4. Cardinality(Cancelled') <= Cardinality(Cancelled)
  BY <1>3, SizeSubset
<1>5. CancelsCovered'
  <2>1. /\ Cardinality(Cancelled') \in Nat /\ Cardinality(Cancelled) \in Nat
        /\ infCancel \in Nat /\ infCancel' = infCancel
    BY <1>3, SizeType DEF TypeOK, Finish, counts
  <2>2. infCancel >= Cardinality(Cancelled)
    BY DEF Books, CancelsCovered, Cancelled
  <2> QED BY <1>4, <2>1, <2>2 DEF CancelsCovered, Cancelled
<1>6. \A a \in Blocks : /\ xfr'[a] # "none" <=> xfr[a] # "none"
                        /\ xfr'[a] = "reporting" <=> xfr[a] = "reporting"
                        /\ xfr'[a] = "submitted" => xfr[a] = "submitted"
  BY <1>1 DEF Finished, TypeOK
<1>7. Books'
  BY <1>5, <1>6
  DEF Finish, Books, CountsAreBlocks, BlockOutlivesTransfer, counts, closing
<1>8. List'
  <2>1. ASSUME ~failed PROVE List'
    <3>1. PICK pos \in [Blocks -> Nat] :
            /\ Shape(live, next, prev, head, pos, Cardinality(live))
            /\ Walked(pos)
      BY <2>1 DEF List
    <3>2. Shape(live, next, prev, head, pos, Cardinality(live))'
      BY <3>1 DEF Finish, Shape
    <3>3. Walked(pos)'
      BY <1>6, <3>1 DEF Finish, Walked, closing, TypeOK
    <3> QED BY <2>1, <3>2, <3>3 DEF List, Finish
  <2> QED BY <2>1 DEF List, Finish
<1> QED BY <1>2, <1>7, <1>8

\* usb_read_cb is entered with the block of a transfer still counted.
LEMMA StepDoneCompleted ==
  ASSUME IInv, NEW b \in Blocks, DoneCompleted(b)
  PROVE  IInv'
<1> USE DEF IInv
<1>1. TypeOK' /\ phase # "release" /\ phase' = phase
  BY DEF TypeOK, DoneCompleted, Handling, counts, closing, XfrStates
<1>2. Cancelled' = Cancelled
  BY DEF Cancelled, DoneCompleted, TypeOK
<1>3. Books'
  BY <1>1, <1>2, BlocksAssumption
  DEF DoneCompleted, Handling, Books, CountsAreBlocks, BlockOutlivesTransfer,
      CancelsCovered, Cancelled, counts, TypeOK
<1>4. List'
  BY <1>1 DEF DoneCompleted, List, Shape, Walked
<1> QED BY <1>1, <1>3, <1>4

\* Reporting a block of transfer state s is reporting an allocated one.
LEMMA ReportedIsLive ==
  ASSUME IInv, fault = "none", NEW b \in Blocks, xfr[b] # "none"
  PROVE  b \in live
BY DEF IInv, Books, BlockOutlivesTransfer

\* After usb_read_cb its block goes, whatever it has submitted meanwhile.
LEMMA StepReadCbReturns == ASSUME IInv, ReadCbReturns PROVE IInv'
<1> USE DEF IInv
<1>1. /\ cb \in live /\ xfr[cb] = "reporting"
      /\ phase # "release" /\ phase' = phase /\ failed' = failed
  BY ReportedIsLive DEF ReadCbReturns, Books, TypeOK, closing
<1>2. Retire(cb) /\ fault = "none"
  BY DEF ReadCbReturns
<1>3. TypeOK'
  BY <1>1, <1>2, RetireTypes, RetireBooks DEF TypeOK, ReadCbReturns, closing
<1>4. Cancelled' = Cancelled
  BY <1>1, <1>2 DEF Cancelled, Retire, TypeOK
<1>5. Books'
  <2>1. \A a \in Blocks : xfr'[a] = "reporting" <=> a = cb'
    BY <1>1, <1>2, BlocksAssumption DEF Books, ReadCbReturns, Retire, TypeOK
  <2> QED
    BY <1>1, <1>2, <1>4, <2>1, RetireBooks
    DEF Books, Cancelled, CancelsCovered, ReadCbReturns
<1>6. List'
  BY <1>1, <1>2, RetireList
<1> QED BY <1>3, <1>5, <1>6

\* A cancelled transfer takes its cancel off the counter with it.
LEMMA StepDoneCancelled ==
  ASSUME IInv, NEW b \in Blocks, DoneCancelled(b)
  PROVE  IInv'
<1> USE DEF IInv
<1>1. /\ b \in live /\ xfr[b] = "cancelled" /\ b # cb /\ cb' = cb
      /\ phase # "release" /\ phase' = phase /\ failed' = failed
  BY ReportedIsLive, BlocksAssumption
  DEF DoneCancelled, Handling, Books, TypeOK, closing
<1>2. Retire(b) /\ fault = "none" /\ infCancel' = infCancel - 1
  BY DEF DoneCancelled, Handling
<1>3. /\ b \in Cancelled /\ Cancelled \in SUBSET Blocks
      /\ Cancelled' = Cancelled \ {b}
  BY <1>1, <1>2 DEF Cancelled, Retire, TypeOK
<1>4. infCancel' >= Cardinality(Cancelled') /\ infCancel' \in Nat
  <2>1. /\ Cardinality(Cancelled) >= 1 /\ Cardinality(Cancelled) \in Nat
        /\ Cardinality(Cancelled') = Cardinality(Cancelled) - 1
    BY <1>3, SizeRemove, SizeType
  <2>2. infCancel >= Cardinality(Cancelled) /\ infCancel \in Nat
    BY DEF Books, CancelsCovered, Cancelled, TypeOK
  <2> QED BY <1>2, <2>1, <2>2
<1>5. TypeOK'
  BY <1>1, <1>2, <1>4, RetireTypes, RetireBooks DEF TypeOK, DoneCancelled, closing
<1>6. Books'
  <2>1. \A a \in Blocks : xfr'[a] = "reporting" <=> a = cb'
    BY <1>1, <1>2 DEF Books, Retire, TypeOK
  <2> QED
    BY <1>1, <1>2, <1>4, <2>1, RetireBooks
    DEF Books, Cancelled, CancelsCovered
<1>7. List'
  BY <1>1, <1>2, RetireList
<1> QED BY <1>5, <1>6, <1>7

\* A failed transfer banishes the device and goes.
LEMMA StepDoneError ==
  ASSUME IInv, NEW b \in Blocks, DoneError(b)
  PROVE  IInv'
<1> USE DEF IInv
<1>1. /\ b \in live /\ xfr[b] = "error" /\ b # cb /\ cb' = cb
      /\ phase # "release" /\ phase' = phase /\ failed' = failed
  BY ReportedIsLive, BlocksAssumption
  DEF DoneError, Handling, Books, TypeOK, closing
<1>2. Retire(b) /\ fault = "none" /\ infCancel' = infCancel
  BY DEF DoneError, Handling
<1>3. TypeOK'
  BY <1>1, <1>2, RetireTypes, RetireBooks DEF TypeOK, DoneError, closing
<1>4. Cancelled' = Cancelled
  BY <1>1, <1>2 DEF Cancelled, Retire, TypeOK
<1>5. Books'
  <2>1. \A a \in Blocks : xfr'[a] = "reporting" <=> a = cb'
    BY <1>1, <1>2 DEF Books, Retire, TypeOK
  <2> QED
    BY <1>1, <1>2, <1>4, <2>1, RetireBooks
    DEF Books, Cancelled, CancelsCovered
<1>6. List'
  BY <1>1, <1>2, RetireList
<1> QED BY <1>3, <1>5, <1>6

\* The walk starts at the head, with every outstanding block ahead of it.
LEMMA StepDrainDone == ASSUME IInv, DrainDone PROVE IInv'
<1> USE DEF IInv
<1>1. TypeOK'
  BY DEF TypeOK, DrainDone, links, counts, Phases
<1>2. Books'
  BY DEF TypeOK, DrainDone, links, counts, Books, CountsAreBlocks,
         BlockOutlivesTransfer, CancelsCovered
<1>3. ASSUME ~failed PROVE List'
  <2>1. PICK pos \in [Blocks -> Nat] :
          Shape(live, next, prev, head, pos, Cardinality(live))
    BY <1>3 DEF List
  <2>2. Shape(live, next, prev, head, pos, Cardinality(live))'
    BY <2>1 DEF Shape, DrainDone, links
  <2>3. Walked(pos)'
    BY <2>1 DEF Walked, Shape, DrainDone, links, TypeOK
  <2> QED BY <1>3, <2>2, <2>3 DEF List, DrainDone
<1> QED BY <1>1, <1>2, <1>3 DEF List, DrainDone

\* One turn of the walk leaves one block less to be cancelled.
LEMMA StepReleaseOne == ASSUME IInv, ReleaseOne PROVE IInv'
<1> USE DEF IInv
<1>0. /\ phase = "release" /\ phase' \in {"release", "final"}
      /\ cb = Null /\ cur \in Blocks
  BY DEF ReleaseOne, Books
<1>1. TypeOK' /\ next \in [Blocks -> Blocks \cup {Null}]
  <2>1. xfr' \in [Blocks -> XfrStates] /\ fault' \in {"none", "useAfterFree"}
    BY DEF TypeOK, ReleaseOne, XfrStates, Deref
  <2>2. /\ cur' \in Blocks \cup {Null} /\ steps' \in Nat /\ infCancel' \in Nat
        /\ next \in [Blocks -> Blocks \cup {Null}]
    BY <1>0 DEF TypeOK, ReleaseOne, WalkEnds
  <2> QED BY <1>0, <2>1, <2>2 DEF TypeOK, ReleaseOne, Phases
<1>2. infCancel' >= Cardinality(Cancelled')
  <2>1. infCancel >= Cardinality(Cancelled) /\ infCancel' = infCancel + 1
        /\ infCancel \in Nat /\ Cancelled \in SUBSET Blocks
        /\ Cardinality(Cancelled) \in Nat
    BY SizeType
    DEF Books, CancelsCovered, Cancelled, TypeOK, ReleaseOne
  <2>2. CASE Cancelled' = Cancelled
    BY <2>1, <2>2
  <2>3. CASE Cancelled' # Cancelled
    <3>1. /\ Cancelled' = Cancelled \cup {cur} /\ cur \notin Cancelled
          /\ cur \in Blocks
      BY <2>3 DEF Cancelled, ReleaseOne, TypeOK
    <3> QED BY <2>1, <3>1, SizeAdd
  <2> QED BY <2>2, <2>3
<1>3. Books'
  <2>1. /\ CountsAreBlocks' /\ BlockOutlivesTransfer' /\ reads' \subseteq live'
        /\ \A b \in Blocks : xfr'[b] = "reporting" <=> b = cb'
    BY DEF Books, CountsAreBlocks, BlockOutlivesTransfer, ReleaseOne, TypeOK
  <2> QED
    BY <1>0, <1>1, <1>2, <2>1
    DEF Books, CancelsCovered, Cancelled, ReleaseOne, WalkEnds, TypeOK
<1>4. ASSUME ~failed PROVE List'
  <2>1. PICK pos \in [Blocks -> Nat] :
          /\ Shape(live, next, prev, head, pos, Cardinality(live))
          /\ Walked(pos)
    BY <1>4 DEF List
  <2>2. Shape(live, next, prev, head, pos, Cardinality(live))'
    BY <2>1 DEF Shape, ReleaseOne
  <2>3. fault' = "none"
    BY <1>0, <2>1 DEF Walked, ReleaseOne, Deref
  <2>4. Walked(pos)'
    <3> SUFFICES ASSUME phase' = "release" PROVE Walked(pos)'
      BY DEF Walked
    <3>1. /\ cur \in live /\ cur \in Blocks /\ steps = pos[cur]
          /\ next[cur] # Null /\ cur' = next[cur] /\ steps' = steps + 1
      BY <1>0, <2>1, BlocksAssumption DEF Walked, ReleaseOne, WalkEnds, TypeOK
    <3>2. /\ next[cur] \in live /\ next[cur] \in Blocks
          /\ pos[next[cur]] = pos[cur] + 1
      BY <2>1, <3>1 DEF Shape, TypeOK
    <3>3. ASSUME NEW b \in live, pos[b] < pos[cur']
          PROVE  xfr'[b] # "submitted"
      <4>1. b \in Blocks /\ pos[b] <= pos[cur]
        BY <3>1, <3>2, <3>3 DEF TypeOK
      <4>2. CASE b = cur
        BY <3>1, <4>1, <4>2 DEF ReleaseOne, TypeOK
      <4>3. CASE b # cur
        <5>1. pos[b] < pos[cur]
          BY <2>1, <3>1, <4>1, <4>3 DEF Shape
        <5> QED BY <1>0, <2>1, <4>1, <4>3, <5>1 DEF Walked, ReleaseOne, TypeOK
      <4> QED BY <4>2, <4>3
    <3> QED BY <3>1, <3>2, <3>3 DEF Walked, ReleaseOne
  <2> QED BY <1>4, <2>2, <2>3, <2>4 DEF List, ReleaseOne
<1> QED BY <1>1, <1>3, <1>4 DEF List, ReleaseOne

\* The remaining steps of closing the device touch neither books nor list.
LEMMA StepClosing ==
  ASSUME IInv, Disconnect \/ UsbClose \/ DrainAgain \/ CloseHandles
  PROVE  IInv'
<1>1. TypeOK'
  BY DEF IInv, TypeOK, Disconnect, UsbClose, DrainAgain, CloseHandles, links,
         counts, Phases
<1>2. UNCHANGED <<links, counts, cb, failed, fault>> /\ phase' # "release"
  BY DEF Disconnect, UsbClose, DrainAgain, CloseHandles
<1> QED BY <1>1, <1>2, KeepBooksAndList DEF IInv

\* Every step preserves the inductive invariant.
LEMMA StepIInv == IInv /\ [Next]_vars => IInv'
<1> SUFFICES ASSUME IInv, [Next]_vars PROVE IInv'
  OBVIOUS
<1>1. CASE UNCHANGED vars
  BY <1>1, Stutter
<1>2. CASE Next
  BY <1>2, StepSubmit, StepSubmitRefused, StepFinish, StepDoneCompleted,
     StepReadCbReturns, StepDoneCancelled, StepDoneError, StepDrainDone,
     StepReleaseOne, StepClosing
  DEF Next, Done
<1> QED BY <1>1, <1>2

\* Every reachable state satisfies the inductive invariant.
THEOREM Inductive == Spec => []IInv
BY InitIInv, StepIInv, PTL DEF Spec

-----------------------------------------------------------------------------
(* What follows from it *)

\* The counters never wrap below zero and every link is a block or null.
THEOREM TypeCorrect == Spec => []TypeOK
BY Inductive, PTL DEF IInv

\* The in-flight counters count the blocks of their direction and stay within
\* ReadMax, refused bulk writes included.
THEOREM CountersCorrect == Spec => []CountsAreBlocks
<1>1. IInv => CountsAreBlocks
  BY DEF IInv, Books
<1> QED BY <1>1, Inductive, PTL

\* A block is allocated exactly as long as a transfer needs it.
THEOREM NoEarlyFree == Spec => []BlockOutlivesTransfer
<1>1. IInv => BlockOutlivesTransfer
  BY DEF IInv, Books
<1> QED BY <1>1, Inductive, PTL

\* INFLIGHT_CANCEL covers the cancelled transfers still to be reported.
THEOREM CancelCounter == Spec => []CancelsCovered
<1>1. IInv => CancelsCovered
  BY DEF IInv, Books
<1> QED BY <1>1, Inductive, PTL

\* As long as libusb accepts what is submitted, no dead pointer is followed.
THEOREM MemorySafe == Spec => []NoMemoryFault
<1>1. IInv => NoMemoryFault
  BY DEF IInv, List, NoMemoryFault
<1> QED BY <1>1, Inductive, PTL

\* In a set of blocks one has the lowest position: among the sets of those at
\* or below a position one has no smaller one in it.
LEMMA LowestBlock ==
  ASSUME NEW pos \in [Blocks -> Nat], NEW T \in SUBSET Blocks, T # {}
  PROVE  \E b \in T : \A a \in T : pos[b] <= pos[a]
<1> DEFINE UpTo(b) == {a \in T : pos[a] <= pos[b]}
           W == {UpTo(b) : b \in T}
<1>1. W \subseteq FiniteSubsetsOf(Blocks) /\ W # {}
  BY SizeType DEF FiniteSubsetsOf
<1>2. PICK U \in W : \A V \in W : <<V, U>> \notin StrictSubsetOrdering(Blocks)
  BY <1>1, FS_StrictSubsetOrderingWellFounded, WFMin
<1>3. PICK b \in T : U = UpTo(b)
  BY <1>2
<1>4. ASSUME NEW a \in T PROVE pos[b] <= pos[a]
  <2> SUFFICES ASSUME pos[a] < pos[b] PROVE FALSE
    OBVIOUS
  <2>1. UpTo(a) \subseteq UpTo(b) /\ b \in UpTo(b) /\ b \notin UpTo(a)
    OBVIOUS
  <2>2. UpTo(a) \in W /\ UpTo(a) \subseteq Blocks /\ UpTo(b) \subseteq Blocks
    OBVIOUS
  <2> HIDE DEF UpTo, W
  <2>3. <<UpTo(a), UpTo(b)>> \in StrictSubsetOrdering(Blocks)
    BY <2>1, <2>2 DEF StrictSubsetOrdering
  <2> QED BY <1>2, <1>3, <2>2, <2>3
<1> QED BY <1>4

\* As long as libusb accepts what is submitted, the links of the allocated
\* blocks agree in both directions, and a walk from the head visits them all:
\* the lowest one it missed would follow one it found.
THEOREM ListCorrect == Spec => []ListIsOutstanding
<1>1. IInv /\ ~failed => DoublyLinked
  BY DEF IInv, List, Shape, DoublyLinked
<1>2. ASSUME IInv, ~failed PROVE Reached = live
  <2>1. PICK pos \in [Blocks -> Nat] :
          Shape(live, next, prev, head, pos, Cardinality(live))
    BY <1>2 DEF IInv, List
  <2>2. live \in SUBSET Blocks /\ FollowsLinks(live)
    BY <1>2, <2>1 DEF IInv, TypeOK, Shape, FollowsLinks
  <2>3. ASSUME NEW S \in SUBSET Blocks, FollowsLinks(S) PROVE live \subseteq S
    <3> SUFFICES ASSUME live \ S # {} PROVE FALSE
      OBVIOUS
    <3>1. PICK b \in live \ S : \A a \in live \ S : pos[b] <= pos[a]
      BY <2>2, LowestBlock
    <3>2. prev[b] # Null
      BY <2>1, <2>3, <3>1, BlocksAssumption DEF Shape, FollowsLinks
    <3>3. prev[b] \in live /\ next[prev[b]] = b
      BY <2>1, <3>1, <3>2 DEF Shape
    <3>4. prev[b] \notin S
      BY <2>2, <2>3, <3>1, <3>3, BlocksAssumption DEF FollowsLinks
    <3>5. pos[b] = pos[prev[b]] + 1
      BY <2>1, <2>2, <3>1, <3>3, BlocksAssumption DEF Shape
    <3> QED BY <2>2, <3>1, <3>3, <3>4, <3>5
  <2> QED BY <2>2, <2>3 DEF Reached
<1>3. IInv => ListIsOutstanding
  BY <1>1, <1>2 DEF ListIsOutstanding
<1> QED BY <1>3, Inductive, PTL

\* xfer_release leaves no transfer behind that is neither cancelled nor
\* finished: the walk misses no block and is never cut short.
THEOREM ReleaseComplete == Spec => ReleaseReachesAll
<1>1. ASSUME IInv, [Next]_vars, phase = "release", phase' = "final", ~failed,
             NEW b \in Blocks
      PROVE  xfr'[b] # "submitted"
  <2>1. ReleaseOne
    BY <1>1 DEF Next, Submit, SubmitRefused, Finish, Done, DoneCompleted,
                DoneCancelled, DoneError, ReadCbReturns, Disconnect, UsbClose,
                DrainAgain, DrainDone, CloseHandles, vars, closing
  <2>2. PICK pos \in [Blocks -> Nat] :
          /\ Shape(live, next, prev, head, pos, Cardinality(live))
          /\ Walked(pos)
    BY <1>1 DEF IInv, List
  <2>3. /\ cur \in live /\ steps = pos[cur]
        /\ \A a \in live : pos[a] < pos[cur] => xfr[a] # "submitted"
    BY <1>1, <2>2 DEF Walked
  <2>4. pos[cur] < Cardinality(live) /\ Cardinality(live) <= 2 * ReadMax
    <3>1. /\ infRead = Cardinality(reads) /\ infWrite = Cardinality(live \ reads)
          /\ infRead <= ReadMax /\ infWrite <= ReadMax
          /\ reads \subseteq live /\ live \in SUBSET Blocks
      BY <1>1, <2>1 DEF IInv, Books, CountsAreBlocks, TypeOK, ReleaseOne
    <3>2. /\ IsFiniteSet(reads) /\ IsFiniteSet(live \ reads)
          /\ Cardinality(reads) \in Nat /\ Cardinality(live \ reads) \in Nat
          /\ reads \cap (live \ reads) = {} /\ reads \cup (live \ reads) = live
      BY <3>1, SizeType
    <3>3. Cardinality(live) = Cardinality(reads) + Cardinality(live \ reads)
                              - Cardinality({})
      BY <3>2, FS_Union
    <3>4. Cardinality(live) = infRead + infWrite
      BY <3>1, <3>2, <3>3, FS_EmptySet
    <3>5. pos[cur] < Cardinality(live)
      BY <2>2, <2>3 DEF Shape
    <3>6. infRead + infWrite <= 2 * ReadMax
      BY <3>1, <3>2, BoundsAssumption
    <3> QED BY <3>4, <3>5, <3>6
  <2>5. next[cur] = Null
    <3>1. cur \in Blocks /\ pos[cur] \in Nat
      BY <1>1, <2>3 DEF IInv, TypeOK
    <3>2. ~(steps > WalkMax)
      BY <2>3, <2>4, <3>1, BoundsAssumption, SizeType, <1>1 DEF IInv, TypeOK
    <3>3. next[cur] # cur
      BY <2>2, <2>3, <3>1, BlocksAssumption DEF Shape
    <3> QED BY <1>1, <2>1, <3>2, <3>3 DEF ReleaseOne, WalkEnds
  <2>6. \A a \in live : a # cur => pos[a] < pos[cur]
    <3> SUFFICES ASSUME NEW a \in live, a # cur PROVE pos[a] < pos[cur]
      OBVIOUS
    <3>1. pos[a] <= pos[cur] /\ pos[a] # pos[cur]
      BY <2>2, <2>3, <2>5 DEF Shape
    <3>2. pos[a] \in Nat /\ pos[cur] \in Nat
      BY <1>1, <2>3 DEF IInv, TypeOK
    <3> QED BY <3>1, <3>2
  <2>7. b \notin live => xfr[b] = "none"
    BY <1>1, <2>1 DEF IInv, Books, BlockOutlivesTransfer, ReleaseOne
  <2> QED BY <1>1, <2>1, <2>3, <2>6, <2>7 DEF ReleaseOne, IInv, TypeOK
<1>2. IInv /\ [Next]_vars
        => [phase = "release" /\ phase' = "final" /\ ~failed
              => \A b \in Blocks : xfr'[b] # "submitted"]_vars
  BY <1>1
<1> QED BY <1>2, Inductive, PTL DEF Spec, ReleaseReachesAll
-----------------------------------------------------------------------------
(* The contract of the transfer layer *)

\* Nothing is reported once the handles are closed.
Quiet == phase = "closed" => cb = Null

\* CloseHandles waits for usb_read_cb to return, and nothing is handled after it.
LEMMA QuietAlways == Spec => []Quiet
<1>1. Init => Quiet
  BY DEF Init, Quiet
<1>2. Quiet /\ [Next]_vars => Quiet'
  BY DEF Quiet, Next, Submit, SubmitRefused, Finish, Done, DoneCompleted,
         DoneCancelled, DoneError, ReadCbReturns, Disconnect, UsbClose, DrainAgain,
         DrainDone, ReleaseOne, CloseHandles, Handling, vars, closing
<1> QED BY <1>1, <1>2, PTL DEF Spec

\* Only a device that is being closed has cancelled transfers: xfer_release is
\* the one place that cancels.
Closing ==
  (\E b \in Blocks : xfr[b] \in {"cancelling", "cancelled"}) => phase # "open"

\* The device is never open again once xfer_release has run.
LEMMA ClosingAlways == Spec => []Closing
<1>1. Init => Closing
  BY DEF Init, Closing
<1>2. IInv /\ Closing /\ [Next]_vars => Closing'
  <2> SUFFICES ASSUME IInv, Closing, [Next]_vars PROVE Closing'
    OBVIOUS
  <2>1. phase # "open" => phase' # "open"
    BY DEF Next, Submit, SubmitRefused, Finish, Done, DoneCompleted,
           DoneCancelled, DoneError, ReadCbReturns, Disconnect, UsbClose, DrainAgain,
           DrainDone, ReleaseOne, CloseHandles, vars, closing
  <2>2. ASSUME phase = "open", NEW b \in Blocks, xfr'[b] \in {"cancelling", "cancelled"}
        PROVE  xfr[b] \in {"cancelling", "cancelled"}
    BY <2>2 DEF IInv, TypeOK, Next, Submit, SubmitRefused, Finish, Finished, Done,
           DoneCompleted, DoneCancelled, DoneError, ReadCbReturns, Retire, Disconnect,
           UsbClose, DrainAgain, DrainDone, ReleaseOne, CloseHandles, vars, links
  <2> QED BY <2>1, <2>2 DEF Closing
<1> QED BY <1>1, <1>2, Inductive, PTL DEF Spec

\* What is under way are the live blocks, the reads among them as reads.
LEMMA WayOfBlocks ==
  ASSUME IInv, fault = "none"
  PROVE  /\ Promise!Under("read") = reads /\ Promise!Under("write") = live \ reads
         /\ \A b \in Blocks : Way[b] = "nothing" <=> b \notin live
  BY DEF IInv, Books, TypeOK, BlockOutlivesTransfer, Promise!Under, Way

\* A step that retires a block takes it off what is under way.
LEMMA RetireWay ==
  ASSUME IInv, NEW b \in Blocks, Retire(b)
  PROVE  Way' = [Way EXCEPT ![b] = "nothing"]
  BY DEF IInv, TypeOK, Retire, Way

\* A step that leaves transfers in libusb's hands, and the kinds of their blocks,
\* changes nothing under way.
LEMMA SameWay ==
  ASSUME \A b \in Blocks : xfr'[b] = "none" <=> xfr[b] = "none",
         \A b \in Blocks : xfr[b] # "none" => (b \in reads' <=> b \in reads)
  PROVE  Way' = Way
  BY DEF Way

\* Submitting is accepting, within the limit of the direction.
LEMMA AcceptStep ==
  ASSUME IInv, Quiet, NEW b \in Blocks, NEW k \in Kinds, Submit(b, k)
  PROVE  Promise!Accept(b, IF k = "read" THEN "read" ELSE "write")
<1> DEFINE kind == IF k = "read" THEN "read" ELSE "write"
<1>1. fault = "none" /\ b \notin live
  BY DEF Submit
<1>2. Device # "closed"
  BY DEF Submit, MaySubmit, Quiet, Device
<1>3. Way[b] = "nothing"
  BY <1>1, WayOfBlocks
<1>4. Cardinality(Promise!Under(kind)) < ReadMax
  BY <1>1, WayOfBlocks DEF IInv, Books, CountsAreBlocks, Submit, Inflight
<1>5. Way' = [Way EXCEPT ![b] = kind]
  BY <1>1 DEF IInv, Books, TypeOK, Submit, Insert, Way, Kinds
<1>6. Telling' = Telling /\ Device' = Device
  BY DEF Submit, Telling, Device, closing
<1> HIDE DEF kind
<1>7. \A S : Promise!Cardinality(S) = Cardinality(S)
  BY Zenon DEF Promise!Cardinality, Cardinality
<1>8. Promise!Accept(b, kind)
  BY <1>2, <1>3, <1>4, <1>5, <1>6, <1>7 DEF Promise!Accept
<1> QED BY <1>8 DEF kind

\* A refused submission is no transfer: the driver's data is dropped.
LEMMA RefusedStep ==
  ASSUME IInv, NEW b \in Blocks, NEW k \in Kinds, SubmitRefused(b, k)
  PROVE  UNCHANGED <<Way, Telling, Device>>
<1>1. xfr[b] = "none"
  BY DEF IInv, Books, BlockOutlivesTransfer, SubmitRefused
<1>2. Way' = Way
  BY <1>1, SameWay DEF SubmitRefused, Insert
<1> QED BY <1>2 DEF SubmitRefused, Telling, Device, closing

\* The completion callback tells the driver, with nothing else being told;
LEMMA TellStep ==
  ASSUME IInv, NEW b \in Blocks, DoneCompleted(b)
  PROVE  Promise!Tell(b)
<1>1. cb = Null /\ Device # "closed"
  BY DEF DoneCompleted, Handling, Device
<1>2. Way[b] # "nothing"
  BY DEF DoneCompleted, Way
<1>3. Way' = Way
  BY SameWay DEF DoneCompleted, IInv, TypeOK
<1>4. Telling = {} /\ Telling' = {b}
  BY <1>1, BlocksAssumption DEF DoneCompleted, Telling
<1>5. Device' = Device
  BY DEF DoneCompleted, Device, closing
<1> QED BY <1>1, <1>2, <1>3, <1>4, <1>5 DEF Promise!Tell

\* and is done with the block when the driver is.
LEMMA ToldStep ==
  ASSUME IInv, ReadCbReturns
  PROVE  cb \in Blocks /\ Promise!Told(cb)
<1>1. cb \in Blocks /\ Retire(cb) /\ cb' = Null
  BY DEF ReadCbReturns, IInv, TypeOK
<1>2. Way' = [Way EXCEPT ![cb] = "nothing"]
  BY <1>1, RetireWay
<1>3. Telling = {cb} /\ Telling' = {}
  BY <1>1, BlocksAssumption DEF Telling
<1>4. Device' = Device
  BY DEF ReadCbReturns, Device, closing
<1> QED BY <1>1, <1>2, <1>3, <1>4 DEF Promise!Told

\* A transfer goes untold because it was cancelled, for the device is closing,
LEMMA CancelledStep ==
  ASSUME IInv, Closing, NEW b \in Blocks, DoneCancelled(b)
  PROVE  Promise!Lose(b)
<1>1. Handling /\ cb = Null /\ xfr[b] = "cancelled" /\ Retire(b)
  BY DEF DoneCancelled, Handling
<1>2. Device = "closing" /\ Device' = Device
  BY <1>1 DEF DoneCancelled, Handling, Closing, Device, closing
<1>3. Way[b] # "nothing" /\ Way' = [Way EXCEPT ![b] = "nothing"]
  BY <1>1, RetireWay DEF Way
<1>4. Telling = {} /\ Telling' = Telling
  BY <1>1 DEF DoneCancelled, Telling
<1> QED BY <1>2, <1>3, <1>4 DEF Promise!Lose

\* or by an error, with which the device has failed.
LEMMA ErrorStep ==
  ASSUME IInv, NEW b \in Blocks, DoneError(b)
  PROVE  Promise!Lose(b)
<1>1. Handling /\ cb = Null /\ xfr[b] = "error" /\ Retire(b)
  BY DEF DoneError, Handling
<1>2. \/ Device \in {"works", "failed"} /\ Device' = "failed"
      \/ Device = "closing" /\ Device' = Device
  BY <1>1 DEF DoneError, Handling, Device, closing
<1>3. Way[b] # "nothing" /\ Way' = [Way EXCEPT ![b] = "nothing"]
  BY <1>1, RetireWay DEF Way
<1>4. Telling = {} /\ Telling' = Telling
  BY <1>1 DEF DoneError, Telling
<1> QED BY <1>2, <1>3, <1>4 DEF Promise!Lose

\* The kernel finishing a transfer, and the turns of the drain loop and of
\* xfer_release, change nothing that was promised.
LEMMA InsideStep ==
  ASSUME IInv,
         \/ \E b \in Blocks : Finish(b)
         \/ UsbClose \/ DrainAgain \/ DrainDone \/ ReleaseOne
  PROVE  UNCHANGED <<Way, Telling, Device>>
<1>1. Way' = Way
  <2>1. ASSUME NEW b \in Blocks, Finish(b) PROVE Way' = Way
    BY <2>1, SameWay DEF Finish, Finished, IInv, TypeOK
  <2>2. ASSUME ReleaseOne PROVE Way' = Way
    BY <2>2, SameWay DEF ReleaseOne, IInv, TypeOK
  <2>3. ASSUME UsbClose \/ DrainAgain \/ DrainDone PROVE Way' = Way
    BY <2>3 DEF UsbClose, DrainAgain, DrainDone, links, Way
  <2> QED BY <2>1, <2>2, <2>3
<1>2. Telling' = Telling
  BY DEF Telling, Finish, UsbClose, DrainAgain, DrainDone, ReleaseOne
<1>3. Device' = Device
  BY DEF Device, Finish, UsbClose, DrainAgain, DrainDone, ReleaseOne, closing, IInv
<1> QED BY <1>1, <1>2, <1>3

\* Closing begins with ctlra_dev_disconnect and ends with the handles.
LEMMA CloseStep ==
  ASSUME IInv, Disconnect \/ CloseHandles
  PROVE  Promise!BeginClose \/ Promise!EndClose
<1>1. Way' = Way /\ Telling' = Telling /\ Telling = {}
  BY DEF Disconnect, CloseHandles, Way, Telling, links
<1>2. \/ Device \in {"works", "failed"} /\ Device' = "closing"
      \/ Device = "closing" /\ Device' = "closed"
  BY DEF Disconnect, CloseHandles, Device
<1> QED BY <1>1, <1>2 DEF Promise!BeginClose, Promise!EndClose

\* Every step of usb.c is a step of the contract or none of its concern.
LEMMA PromiseStep ==
  IInv /\ Quiet /\ Closing /\ [Next]_vars => [Promise!Next]_(Promise!vars)
<1> SUFFICES ASSUME IInv, Quiet, Closing, [Next]_vars
             PROVE  Promise!Next \/ UNCHANGED <<Way, Telling, Device>>
  BY DEF Promise!vars
<1>1. ASSUME NEW b \in Blocks, NEW k \in Kinds, Submit(b, k) PROVE Promise!Next
  BY <1>1, AcceptStep DEF Promise!Next
<1>2. ASSUME NEW b \in Blocks, Done(b) PROVE Promise!Next
  BY <1>2, TellStep, CancelledStep, ErrorStep DEF Promise!Next, Done
<1>3. ASSUME ReadCbReturns PROVE Promise!Next
  BY <1>3, ToldStep DEF Promise!Next
<1>4. ASSUME Disconnect \/ CloseHandles PROVE Promise!Next
  BY <1>4, CloseStep DEF Promise!Next
<1>5. ASSUME UNCHANGED vars PROVE UNCHANGED <<Way, Telling, Device>>
  BY <1>5 DEF vars, links, closing, Way, Telling, Device
<1> QED
  BY <1>1, <1>2, <1>3, <1>4, <1>5, RefusedStep, InsideStep DEF Next

\* Whatever the kernel, the driver's re-entrant submissions and refusals do, the
\* transfer layer keeps its contract, for any number of blocks and any limits.
THEOREM PromiseKept == Spec => KeepsPromise
<1>1. Init => Promise!Init
  BY DEF Init, Promise!Init, Way, Telling, Device
<1> QED BY <1>1, PromiseStep, Inductive, QuietAlways, ClosingAlways, PTL
        DEF Spec, KeepsPromise, Promise!Spec
=============================================================================
