----------------------------- MODULE OwnersProofs -----------------------------
(***************************************************************************)
(* Theorems about the three components that own something: Ownership's     *)
(* classes, v1's store, the progress bar; for any number of slots,         *)
(* descriptors, blocks, nodes and bars.                                    *)
(***************************************************************************)
EXTENDS Ownership, PtrStore, Progress, SpanTheorems

-----------------------------------------------------------------------------
(***************************************************************************)
(* Ownership: objects, descriptors, mappings and temporary files.          *)
(***************************************************************************)

\* No two owners share anything: OwnedOnce's first part.
Apart == \A s, t \in Owners : s # t =>
    /\ obj[s].fd # obj[t].fd
    /\ obj[s].ptr # None => obj[s].ptr # obj[t].ptr
    /\ obj[s].temp # None => obj[s].temp # obj[t].temp

\* And the kernel has what they own, no more: the rest of it.
Accounted ==
    /\ \A s \in Owners : obj[s].fd \in open \ raw
    /\ open = raw \cup { obj[s].fd : s \in Owners }
    /\ mapped = { obj[s].ptr : s \in Owners } \ {None}
    /\ names = { obj[s].temp : s \in Owners } \ {None}

LEMMA OwnedParts == OwnedOnce <=> (status = "running" => Apart /\ Accounted)
BY DEF OwnedOnce, Apart, Accounted

\* A new object that owns what nobody owned.
LEMMA PutKeeps ==
    ASSUME IInv, NEW s \in Slot, Free(s),
           NEW kind \in {"mmap", "mvec", "fbuf"}, NEW f \in Fd,
           NEW a \in Addr \cup {None}, NEW n \in Name \cup {None},
           Put(s, kind, f, a, n),
           kind = "fbuf" => a = None, kind # "fbuf" => a # None,
           f \notin { obj[t].fd : t \in Owners }, a \notin mapped, n \notin names,
           raw' = raw \ {f}, open' = open \cup {f},
           mapped' = mapped \cup ({a} \ {None}), names' = names \cup ({n} \ {None}),
           status' = status
    PROVE  IInv'
<1> DEFINE new == [kind |-> kind, fd |-> f, ptr |-> a, temp |-> n]
<1>0. TypeOK /\ Shape /\ Apart /\ Accounted /\ status = "running"
  BY OwnedParts DEF IInv, Free
<1>1. obj' = [obj EXCEPT ![s] = new] /\ obj \in [Slot -> Object] /\ new \in Object
  BY <1>0 DEF Put, TypeOK, Object
<1>2. obj'[s] = new /\ \A t \in Slot : t # s => obj'[t] = obj[t]
  BY <1>1
<1>3. new.kind = kind /\ new.fd = f /\ new.ptr = a /\ new.temp = n /\ Owns(new)
  BY NoneAssumption DEF Owns
<1>4. ~Owns(obj[s])
  BY DEF Free, Nothing, Owns
<1>5. Owners' = Owners \cup {s} /\ s \notin Owners
  BY <1>2, <1>3, <1>4 DEF Owners
<1>6. TypeOK'
  BY <1>0, <1>1 DEF TypeOK
<1>7. Shape'
  BY <1>0, <1>2, <1>3, NoneAssumption DEF Shape
<1>8. \A t \in Owners : t \in Slot /\ t # s /\ obj'[t] = obj[t]
  BY <1>2, <1>5 DEF Owners
<1> HIDE DEF new
<1>9. Apart'
  <2> SUFFICES ASSUME NEW x \in Owners', NEW y \in Owners', x # y
               PROVE  /\ obj'[x].fd # obj'[y].fd
                      /\ obj'[x].ptr # None => obj'[x].ptr # obj'[y].ptr
                      /\ obj'[x].temp # None => obj'[x].temp # obj'[y].temp
    BY DEF Apart
  <2>1. CASE x \in Owners /\ y \in Owners
    BY <1>0, <1>8, <2>1 DEF Apart
  <2>2. CASE x = s /\ y \in Owners
    BY <1>0, <1>2, <1>3, <1>8, <2>2 DEF Accounted
  <2>3. CASE y = s /\ x \in Owners
    BY <1>0, <1>2, <1>3, <1>8, <2>3 DEF Accounted
  <2> QED
    BY <1>5, <2>1, <2>2, <2>3
<1>10. { obj'[t].fd : t \in Owners' } = { obj[t].fd : t \in Owners } \cup {f}
  BY <1>2, <1>3, <1>5, <1>8
<1>11. { obj'[t].ptr : t \in Owners' } = { obj[t].ptr : t \in Owners } \cup {a}
  BY <1>2, <1>3, <1>5, <1>8
<1>12. { obj'[t].temp : t \in Owners' } = { obj[t].temp : t \in Owners } \cup {n}
  BY <1>2, <1>3, <1>5, <1>8
<1>13. Accounted'
  <2>1. \A t \in Owners' : obj'[t].fd \in open' \ raw'
    BY <1>0, <1>2, <1>3, <1>5, <1>8 DEF Accounted
  <2>2. open' = raw' \cup { obj'[t].fd : t \in Owners' }
    BY <1>0, <1>10 DEF Accounted
  <2>3. mapped' = { obj'[t].ptr : t \in Owners' } \ {None}
    BY <1>0, <1>11 DEF Accounted
  <2>4. names' = { obj'[t].temp : t \in Owners' } \ {None}
    BY <1>0, <1>12 DEF Accounted
  <2> QED
    BY <2>1, <2>2, <2>3, <2>4 DEF Accounted
<1> QED
  BY <1>0, <1>6, <1>7, <1>9, <1>13, OwnedParts DEF IInv, OwnedOnce, Apart, Accounted, NothingLeft

LEMMA ConstructKeeps ==
    ASSUME IInv, NEW s \in Slot, Construct(s)
    PROVE  IInv'
<1>0. TypeOK /\ status = "running" /\ Accounted
  BY OwnedParts DEF IInv, Construct, OpenAndMap, MapRawFd, FromTemp, FileBackBuffer, Free
<1>1. { obj[t].fd : t \in Owners } \subseteq open \ raw /\ None \notin Fd /\ None \notin Addr
      /\ None \notin Name /\ None \notin mapped /\ None \notin names /\ raw \subseteq open
  BY <1>0, NoneAssumption DEF Accounted, TypeOK
<1>2. CASE OpenAndMap(s)
  <2>1. PICK f \in Fd \ open, a \in Addr \ mapped :
           Put(s, "mmap", f, a, None) /\ open' = open \cup {f} /\ mapped' = mapped \cup {a}
    BY <1>2 DEF OpenAndMap
  <2>2. Free(s) /\ raw' = raw \ {f} /\ UNCHANGED <<names, status>>
    BY <1>1, <1>2, <2>1 DEF OpenAndMap
  <2> QED
    BY <1>1, <2>1, <2>2, PutKeeps
<1>3. CASE MapRawFd(s)
  <2>1. PICK f \in raw, a \in Addr \ mapped :
           Put(s, "mmap", f, a, None) /\ raw' = raw \ {f} /\ mapped' = mapped \cup {a}
    BY <1>3 DEF MapRawFd
  <2>2. Free(s) /\ open' = open \cup {f} /\ UNCHANGED <<names, status>> /\ f \in Fd
    BY <1>0, <1>1, <1>3, <2>1 DEF MapRawFd, TypeOK
  <2> QED
    BY <1>1, <2>1, <2>2, PutKeeps
<1>4. CASE FromTemp(s)
  <2>1. PICK f \in Fd \ open, a \in Addr \ mapped, n \in Name \ names :
           Put(s, "mvec", f, a, n) /\ open' = open \cup {f} /\ mapped' = mapped \cup {a}
           /\ names' = names \cup {n}
    BY <1>4 DEF FromTemp
  <2>2. Free(s) /\ raw' = raw \ {f} /\ UNCHANGED status
    BY <1>1, <1>4, <2>1 DEF FromTemp
  <2> QED
    BY <1>1, <2>1, <2>2, PutKeeps
<1>5. CASE FileBackBuffer(s)
  <2>1. PICK f \in Fd \ open, n \in Name \ names :
           Put(s, "fbuf", f, None, n) /\ open' = open \cup {f} /\ names' = names \cup {n}
    BY <1>5 DEF FileBackBuffer
  <2>2. Free(s) /\ raw' = raw \ {f} /\ UNCHANGED <<mapped, status>>
    BY <1>1, <1>5, <2>1 DEF FileBackBuffer
  <2> QED
    BY <1>1, <2>1, <2>2, PutKeeps
<1> QED
  BY <1>2, <1>3, <1>4, <1>5 DEF Construct

\* A destructor closes what its object owns and nobody else does.
LEMMA DestroyKeeps ==
    ASSUME IInv, NEW s \in Slot, Destroy(s)
    PROVE  IInv'
<1>0. TypeOK /\ Shape /\ Apart /\ Accounted /\ status = "running" /\ status' = "running"
  BY OwnedParts DEF IInv, Destroy
<1>1. obj' = [obj EXCEPT ![s] = Nothing] /\ obj \in [Slot -> Object] /\ Nothing \in Object
  BY <1>0 DEF Destroy, TypeOK, Object, Nothing
<1>2. obj'[s] = Nothing /\ ~Owns(Nothing) /\ \A t \in Slot : t # s => obj'[t] = obj[t]
  BY <1>1 DEF Owns, Nothing
<1>3. Owners' = Owners \ {s} /\ \A t \in Owners' : obj'[t] = obj[t] /\ t \in Owners /\ t # s
  BY <1>2 DEF Owners
<1>4. TypeOK'
  BY <1>0, <1>1 DEF TypeOK, Destroy
<1>5. Shape'
  BY <1>0, <1>2 DEF Shape, Nothing
<1>6. Apart'
  BY <1>0, <1>3 DEF Apart
<1>7. CASE ~Owns(obj[s])
  <2>1. Owners' = Owners /\ UNCHANGED <<raw, open, mapped, names>>
    BY <1>3, <1>7 DEF Owners, Destroy
  <2>2. Accounted'
    BY <1>0, <1>3, <2>1 DEF Accounted
  <2> QED
    BY <1>0, <1>4, <1>5, <1>6, <2>2 DEF IInv, OwnedOnce, Apart, Accounted, NothingLeft
<1>8. CASE Owns(obj[s])
  <2>1. /\ open' = open \ {obj[s].fd} /\ mapped' = mapped \ {obj[s].ptr}
        /\ names' = names \ {obj[s].temp} /\ raw' = raw
        /\ s \in Owners
    BY <1>8 DEF Owners, Destroy
  <2>2. { obj'[t].fd : t \in Owners' } = { obj[t].fd : t \in Owners } \ {obj[s].fd}
    BY <1>0, <1>3, <2>1 DEF Apart
  <2>3. { obj'[t].ptr : t \in Owners' } \ {None}
        = ({ obj[t].ptr : t \in Owners } \ {None}) \ {obj[s].ptr}
    BY <1>0, <1>3, <2>1 DEF Apart
  <2>4. { obj'[t].temp : t \in Owners' } \ {None}
        = ({ obj[t].temp : t \in Owners } \ {None}) \ {obj[s].temp}
    BY <1>0, <1>3, <2>1 DEF Apart
  <2>5. \A t \in Owners' : obj'[t].fd \in open' \ raw'
    BY <1>0, <1>3, <2>1 DEF Accounted, Apart
  <2>6. open' = raw' \cup { obj'[t].fd : t \in Owners' }
    BY <1>0, <2>1, <2>2 DEF Accounted
  <2>7. Accounted'
    BY <1>0, <2>1, <2>3, <2>4, <2>5, <2>6 DEF Accounted
  <2> QED
    BY <1>0, <1>4, <1>5, <1>6, <2>7 DEF IInv, OwnedOnce, Apart, Accounted, NothingLeft
<1> QED
  BY <1>7, <1>8

\* A move hands everything over.
LEMMA MoveKeeps ==
    ASSUME IInv, NEW s \in Slot, NEW t \in Slot, Move(s, t)
    PROVE  IInv'
<1>0. /\ TypeOK /\ Shape /\ Apart /\ Accounted /\ status = "running" /\ status' = "running"
      /\ UNCHANGED <<raw, open, mapped, names>> /\ s # t
      /\ obj[t] = Nothing
  BY OwnedParts DEF IInv, Move, Free
<1>1. obj' = [obj EXCEPT ![t] = obj[s], ![s] = Moved(obj[s])]
      /\ obj \in [Slot -> Object] /\ obj[s] \in Object /\ obj[s] # Nothing
  BY <1>0 DEF Move, TypeOK
<1>2. Moved(obj[s]) \in Object
  BY <1>1 DEF Moved, Object
<1>3. obj'[t] = obj[s] /\ obj'[s] = Moved(obj[s])
      /\ \A u \in Slot : u # s /\ u # t => obj'[u] = obj[u]
  BY <1>0, <1>1
<1>4. /\ Moved(obj[s]).kind = obj[s].kind /\ Moved(obj[s]).ptr = None
      /\ Moved(obj[s]).temp = None
      /\ (obj[s].kind = "fbuf" => Moved(obj[s]).fd = None)
  BY <1>1 DEF Moved, Object
<1>5. ~Owns(Moved(obj[s])) /\ ~Owns(obj[t])
  BY <1>0, <1>4 DEF Owns, Nothing
<1>6. TypeOK'
  BY <1>0, <1>1, <1>2 DEF TypeOK
<1>7. obj[s].kind # "none"
  BY <1>0, <1>1 DEF Shape
<1>8. Shape'
  BY <1>0, <1>3, <1>4, <1>5, <1>7 DEF Shape
<1>9. CASE ~Owns(obj[s])
  <2>1. Owners' = Owners /\ \A u \in Owners : obj'[u] = obj[u]
    BY <1>3, <1>5, <1>9 DEF Owners
  <2>2. Apart' /\ Accounted'
    BY <1>0, <2>1 DEF Apart, Accounted
  <2> QED
    BY <1>0, <1>6, <1>8, <2>2 DEF IInv, OwnedOnce, Apart, Accounted, NothingLeft
<1>10. CASE Owns(obj[s])
  <2>1. s \in Owners /\ t \notin Owners /\ Owners' = (Owners \ {s}) \cup {t}
    BY <1>3, <1>5, <1>10 DEF Owners
  <2>2. \A u \in Owners : u # s => u # t /\ obj'[u] = obj[u]
    BY <1>3, <2>1 DEF Owners
  <2>3. Apart'
    BY <1>0, <1>3, <2>1, <2>2 DEF Apart
  <2>4. /\ { obj'[u].fd : u \in Owners' } = { obj[u].fd : u \in Owners }
        /\ { obj'[u].ptr : u \in Owners' } = { obj[u].ptr : u \in Owners }
        /\ { obj'[u].temp : u \in Owners' } = { obj[u].temp : u \in Owners }
    BY <1>3, <2>1, <2>2
  <2>5. \A u \in Owners' : obj'[u].fd \in open' \ raw'
    BY <1>0, <1>3, <2>1, <2>2 DEF Accounted
  <2>6. Accounted'
    BY <1>0, <2>4, <2>5 DEF Accounted
  <2> QED
    BY <1>0, <1>6, <1>8, <2>3, <2>6 DEF IInv, OwnedOnce, Apart, Accounted, NothingLeft
<1> QED
  BY <1>9, <1>10

\* When the process goes, its objects and what they held go with it.
LEMMA GoneKeeps ==
    ASSUME IInv, NEW how \in {"exited", "dead"}, NEW created \in SUBSET Name,
           Gone(how, created),
           how = "exited" => created = {} /\ \A s \in Slot : Free(s)
    PROVE  IInv'
<1>1. TypeOK'
  BY DEF IInv, TypeOK, Gone, Object, Nothing
<1>2. Shape'
  BY DEF Gone, Shape, Nothing, Owns
<1>3. OwnedOnce'
  BY DEF Gone, OwnedOnce
<1>4. ASSUME how = "exited" PROVE names' = {}
  <2>1. Accounted
    BY OwnedParts DEF IInv, Gone
  <2>2. Owners = {}
    BY <1>4 DEF Owners, Free, Nothing, Owns
  <2> QED
    BY <1>4, <2>1, <2>2 DEF Accounted, Gone
<1>5. NothingLeft'
  BY <1>4 DEF NothingLeft, Gone
<1> QED
  BY <1>1, <1>2, <1>3, <1>5 DEF IInv

LEMMA ClientKeeps ==
    ASSUME IInv, ClientOpen \/ ClientClose
    PROVE  IInv'
<1>0. /\ TypeOK /\ Shape /\ Accounted /\ status = "running"
      /\ UNCHANGED <<obj, mapped, names, status>> /\ Owners' = Owners
  BY OwnedParts DEF IInv, ClientOpen, ClientClose, Owners
<1>1. TypeOK' /\ Shape'
  BY <1>0 DEF TypeOK, Shape, ClientOpen, ClientClose
<1>2. Accounted'
  BY <1>0 DEF Accounted, ClientOpen, ClientClose, TypeOK
<1>3. Apart'
  BY <1>0, OwnedParts DEF IInv, Apart
<1> QED
  BY <1>0, <1>1, <1>2, <1>3 DEF IInv, OwnedOnce, Apart, Accounted, NothingLeft

-----------------------------------------------------------------------------
LEMMA InitIInv == Init => IInv
<1> SUFFICES ASSUME Init PROVE IInv
  OBVIOUS
<1>1. Owners = {}
  BY DEF Init, Owners, Owns, Nothing
<1>2. TypeOK /\ Shape
  BY DEF Init, TypeOK, Object, Nothing, Shape, Owns
<1>3. OwnedOnce
  BY <1>1 DEF Init, OwnedOnce
<1> QED
  BY <1>2, <1>3 DEF Init, IInv, NothingLeft

LEMMA NextIInv == IInv /\ [Next]_vars => IInv'
<1> SUFFICES ASSUME IInv, [Next]_vars PROVE IInv'
  OBVIOUS
<1>1. ASSUME NEW s \in Slot, Construct(s) PROVE IInv'
  BY <1>1, ConstructKeeps
<1>2. ASSUME NEW s \in Slot, Destroy(s) PROVE IInv'
  BY <1>2, DestroyKeeps
<1>3. ASSUME NEW s \in Slot, DestroyMovedBuffer(s) PROVE IInv'
  BY <1>3, GoneKeeps DEF DestroyMovedBuffer
<1>4. ASSUME NEW s \in Slot, NEW t \in Slot, Move(s, t) PROVE IInv'
  BY <1>4, MoveKeeps
<1>5. CASE Panic
  BY <1>5, GoneKeeps DEF Panic
<1>6. CASE Exit
  BY <1>6, GoneKeeps DEF Exit
<1>7. CASE ClientOpen \/ ClientClose
  BY <1>7, ClientKeeps
<1>8. CASE UNCHANGED vars
  BY <1>8 DEF vars, IInv, TypeOK, Shape, OwnedOnce, NothingLeft, Owners
<1> QED
  BY <1>1, <1>2, <1>3, <1>4, <1>5, <1>6, <1>7, <1>8 DEF Next

\* However objects are constructed, moved and destroyed, each descriptor,
\* mapping and temporary file has one owner, which will release it (map.h
\* 93-105, tempfile.hpp 18-33, fsvec.cpp 29-34).
THEOREM OwnershipTheorem == Spec => []OwnedOnce
<1>1. IInv => OwnedOnce
  BY DEF IInv
<1> QED
  BY <1>1, InitIInv, NextIInv, PTL DEF Spec

\* A process that ends well leaves no temporary file (tempfile.hpp 23-33).
THEOREM NothingLeftTheorem == Spec => []NothingLeft
<1>1. IInv => NothingLeft
  BY DEF IInv
<1> QED
  BY <1>1, InitIInv, NextIInv, PTL DEF Spec

-----------------------------------------------------------------------------
(***************************************************************************)
(* PtrStore: the loop over the chain, one node after the other.            *)
(***************************************************************************)

\* h is the recursive function inside the fold of AllFreed, n = Len(c).
Folds(h, m, c, n) ==
    h = [s \in SUBSET (1 .. n) |->
            IF s = {} THEN m ELSE NodeFreed(h[s \ {Max(s)}], c[Max(s)])]

LEMMA MaxIs ==
    ASSUME NEW j \in Nat, NEW s \in SUBSET (1 .. j), j \in s
    PROVE  Max(s) = j
<1>1. \A y \in s : j >= y /\ y \in Nat
  OBVIOUS
<1>2. \A x \in s : (\A y \in s : x >= y) => x = j
  BY <1>1
<1> QED  BY <1>1, <1>2 DEF Max

LEMMA FoldsExists ==
    ASSUME NEW m, NEW c, NEW n \in Nat
    PROVE  \E h : Folds(h, m, c, n)
<1> DEFINE S == { l \in Nat : \E h : Folds(h, m, c, l) }
<1>1. 0 \in S
  <2> DEFINE h == [s \in SUBSET (1 .. 0) |-> m]
  <2>1. \A s \in SUBSET (1 .. 0) : s = {}
    OBVIOUS
  <2>2. Folds(h, m, c, 0)
    BY <2>1 DEF Folds
  <2> HIDE DEF h
  <2> QED  BY <2>2
<1>2. ASSUME NEW l \in Nat, l \in S PROVE l + 1 \in S
  <2>1. PICK h : Folds(h, m, c, l)
    BY <1>2
  <2> DEFINE j == l + 1
             g == [s \in SUBSET (1 .. j) |->
                      IF j \in s THEN NodeFreed(h[s \ {j}], c[j]) ELSE h[s]]
  <2>2. j \in Nat /\ 1 .. l \subseteq 1 .. j /\ \A x \in 1 .. j : x = j \/ x \in 1 .. l
    OBVIOUS
  <2>3. \A s \in SUBSET (1 .. l) : j \notin s /\ s \in SUBSET (1 .. j)
    <3>1. j \notin 1 .. l
      OBVIOUS
    <3> QED  BY <2>2, <3>1
  <2> HIDE DEF j
  <2>4. \A s \in SUBSET (1 .. j) : s \ {j} \in SUBSET (1 .. l) /\ (j \notin s => s \in SUBSET (1 .. l))
    BY <2>2
  <2>5. \A s \in SUBSET (1 .. l) : g[s] = h[s]
    BY <2>3
  <2>6. \A s \in SUBSET (1 .. l) :
            h[s] = IF s = {} THEN m ELSE NodeFreed(h[s \ {Max(s)}], c[Max(s)])
    <3> DEFINE f(s) == IF s = {} THEN m ELSE NodeFreed(h[s \ {Max(s)}], c[Max(s)])
    <3>1. h = [s \in SUBSET (1 .. l) |-> f(s)]
      BY <2>1 DEF Folds
    <3> HIDE DEF f
    <3>2. \A s \in SUBSET (1 .. l) : h[s] = f(s)
      BY <3>1
    <3> QED  BY <3>2 DEF f
  <2>7. ASSUME NEW s \in SUBSET (1 .. j)
        PROVE  g[s] = IF s = {} THEN m ELSE NodeFreed(g[s \ {Max(s)}], c[Max(s)])
    <3>1. CASE j \in s
      <4>1. Max(s) = j
        BY <2>2, <3>1, MaxIs
      <4>2. g[s] = NodeFreed(h[s \ {j}], c[j]) /\ s # {}
        BY <3>1
      <4>3. g[s \ {j}] = h[s \ {j}]
        BY <2>4, <2>5
      <4> QED  BY <4>1, <4>2, <4>3, Zenon
    <3>2. CASE j \notin s
      <4>1. s \in SUBSET (1 .. l) /\ s \ {Max(s)} \in SUBSET (1 .. l)
        BY <2>4, <3>2
      <4>2. g[s] = h[s] /\ g[s \ {Max(s)}] = h[s \ {Max(s)}]
        BY <2>5, <4>1
      <4> QED  BY <2>6, <4>1, <4>2, Zenon
    <3> QED  BY <3>1, <3>2
  <2>8. g = [s \in SUBSET (1 .. j) |-> g[s]]
    OBVIOUS
  <2> HIDE DEF g
  <2>9. Folds(g, m, c, j)
    BY <2>7, <2>8, Zenon DEF Folds
  <2> QED  BY <2>2, <2>9 DEF j
<1>3. S = Nat
  <2> HIDE DEF S
  <2>1. S \in SUBSET Nat
    BY DEF S
  <2> QED  BY <1>1, <1>2, <2>1, AllNaturals
<1>4. n \in S
  <2> HIDE DEF S
  <2> QED  BY <1>3
<1> QED  BY <1>4

LEMMA FoldIs ==
    ASSUME NEW m, NEW c, NEW n, DOMAIN c = 1 .. n
    PROVE  AllFreed(m, c) = (CHOOSE h : Folds(h, m, c, n))[1 .. n]
BY Zenon DEF AllFreed, FoldLeft, MapThenFoldSet, Folds

\* g[j] is the memory after the first j of the n nodes of c.
Loop(g, m, c, n) ==
    /\ g[0] = m /\ g[n] = AllFreed(m, c)
    /\ \A j \in 1 .. n : g[j] = NodeFreed(g[j-1], c[j])

\* What the fold over a chain does, node by node.
LEMMA FoldSteps ==
    ASSUME NEW m, NEW c, NEW n, n \in Nat, DOMAIN c = 1 .. n
    PROVE  \E g : Loop(g, m, c, n)
<1> DEFINE h == CHOOSE f : Folds(f, m, c, n)
           g == [j \in 0 .. n |-> h[1 .. j]]
<1>1. Folds(h, m, c, n)
  BY FoldsExists
<1>2. AllFreed(m, c) = h[1 .. n]
  BY FoldIs
<1> HIDE DEF h
<1>3. \A s \in SUBSET (1 .. n) :
          h[s] = IF s = {} THEN m ELSE NodeFreed(h[s \ {Max(s)}], c[Max(s)])
  <2> DEFINE f(s) == IF s = {} THEN m ELSE NodeFreed(h[s \ {Max(s)}], c[Max(s)])
  <2>1. h = [s \in SUBSET (1 .. n) |-> f(s)]
    BY <1>1 DEF Folds
  <2> HIDE DEF f
  <2>2. \A s \in SUBSET (1 .. n) : h[s] = f(s)
    BY <2>1
  <2> QED  BY <2>2 DEF f
<1>4. g[0] = m
  <2>1. 1 .. 0 = {} /\ {} \in SUBSET (1 .. n) /\ g[0] = h[1 .. 0]
    OBVIOUS
  <2> HIDE DEF g
  <2>2. h[{}] = m
    BY <1>3, <2>1
  <2> QED  BY <2>1, <2>2
<1>5. g[n] = h[1 .. n]
  OBVIOUS
<1>6. ASSUME NEW j \in 1 .. n PROVE g[j] = NodeFreed(g[j-1], c[j])
  <2>1. /\ 1 .. j \in SUBSET (1 .. n) /\ 1 .. j # {} /\ j \in 1 .. j
    OBVIOUS
  <2>6. (1 .. j) \ {j} = 1 .. j-1
    <3>1. \A x : x \in 1 .. j /\ x # j <=> x \in 1 .. j-1
      OBVIOUS
    <3> QED  BY <3>1
  <2>2. g[j] = h[1 .. j] /\ g[j-1] = h[1 .. j-1]
    OBVIOUS
  <2>3. Max(1 .. j) = j
    BY <2>1, MaxIs
  <2> HIDE DEF g
  <2> DEFINE s == 1 .. j
  <2>4. h[s] = NodeFreed(h[s \ {Max(s)}], c[Max(s)])
    <3>1. s \in SUBSET (1 .. n) /\ s # {}
      BY <2>1
    <3> HIDE DEF s
    <3> QED  BY <1>3, <3>1
  <2> HIDE DEF s
  <2>5. s = 1 .. j
    BY DEF s
  <2> QED  BY <2>1, <2>2, <2>3, <2>4, <2>5, <2>6, Zenon
<1> HIDE DEF g
<1>7. Loop(g, m, c, n)
  BY <1>2, <1>4, <1>5, <1>6 DEF Loop
<1> QED  BY <1>7

-----------------------------------------------------------------------------
BlockValue == {FreeBlock, Raw} \cup { ObjectOf(s) : s \in Block \cup {NULL} }
Memory == [heap : [Block -> BlockValue], fault : BOOLEAN]

Filled(c) == { k \in DOMAIN c : c[k].ptr # NULL }

\* BlocksOwnedOnce of any heap, chain and client: all it says, and what its
\* induction needs; the state of an object is no object.
Owned(h, c, cl) ==
    /\ \A o \in Block : h[o].state # NULL => h[h[o].state] = Raw
    /\ \A k \in Filled(c) : /\ h[c[k].ptr] # FreeBlock
                            /\ c[k].is_obj <=> h[c[k].ptr].is = "object"
    /\ \A k \in DOMAIN c : c[k].ptr = NULL => ~c[k].is_obj
    /\ \A b \in cl : h[b] # FreeBlock
    /\ \A k, l \in Filled(c) : c[k].ptr = c[l].ptr => k = l
    /\ \A o, p \in Block : h[o].state # NULL /\ h[o].state = h[p].state => o = p
    /\ \A k \in Filled(c), o \in Block : c[k].ptr # h[o].state
    /\ \A k \in Filled(c) : c[k].ptr \notin cl
    /\ \A o \in Block : h[o].state \notin cl
    /\ \A b \in Block : h[b] # FreeBlock =>
          \/ b \in cl
          \/ \E k \in Filled(c) : c[k].ptr = b
          \/ \E o \in Block : h[o].state = b

\* A chain, as the lemmas see it.
IsChain(c) == \A k \in DOMAIN c : c[k] \in Node

\* d is the chain c with block b in node f, which held nothing.
Puts(c, d, f, b, is_obj) ==
    /\ DOMAIN d = DOMAIN c \cup {f} /\ f \notin Filled(c)
    /\ d[f].ptr = b /\ (d[f].is_obj <=> is_obj)
    /\ \A k \in DOMAIN c \ {f} : d[k] = c[k]

\* The values of a heap.
LEMMA ValueIs ==
    ASSUME NEW v \in BlockValue
    PROVE  /\ v.state \in Block \cup {NULL}
           /\ v = FreeBlock <=> v.is = "free"
           /\ v = Raw <=> v.is = "raw"
           /\ v.is = "object" <=> v = ObjectOf(v.state)
           /\ v.is # "object" => v.state = NULL
           /\ v = FreeBlock \/ v = Raw \/ v.is = "object"
BY DEF BlockValue, FreeBlock, Raw, ObjectOf

\* A new block of the client, around a state of the client or around none.
LEMMA ClientOwned ==
    ASSUME NEW h \in [Block -> BlockValue], NEW c, IsChain(c), NEW cl \in SUBSET Block,
           Owned(h, c, cl), NEW b \in Block, h[b] = FreeBlock,
           NEW s, s = NULL \/ (s \in cl /\ h[s] = Raw)
    PROVE  Owned([h EXCEPT ![b] = IF s = NULL THEN Raw ELSE ObjectOf(s)], c, (cl \cup {b}) \ {s})
<1> DEFINE v == IF s = NULL THEN Raw ELSE ObjectOf(s)
           g == [h EXCEPT ![b] = v]
           dl == (cl \cup {b}) \ {s}
<1>1. /\ v # FreeBlock /\ v.state = s /\ g[b] = v
      /\ \A o \in Block \ {b} : g[o] = h[o]
      /\ g \in [Block -> BlockValue]
  BY DEF Raw, ObjectOf, FreeBlock, BlockValue
<1>2. s \in Block \cup {NULL} /\ s # b /\ Raw # FreeBlock
  BY StoreAssumption DEF Raw, FreeBlock
<1>3. h[b].state = NULL /\ FreeBlock.state = NULL /\ Raw.state = NULL /\ NULL \notin Block
  BY StoreAssumption DEF FreeBlock, Raw
<1>4. \A o \in Block : h[o].state \in Block \cup {NULL}
  BY ValueIs
<1>5. \A k \in Filled(c) : c[k].ptr \in Block
  BY DEF Filled, IsChain, Node
<1> HIDE DEF v, g
<1>6. \A o \in Block : h[o].state # b
  BY <1>2, <1>3 DEF Owned
<1>7. \A k \in Filled(c) : c[k].ptr # b
  BY DEF Owned
<1>8. b \notin cl
  BY DEF Owned
<1>9. \A o \in Block : g[o].state = IF o = b THEN s ELSE h[o].state
  BY <1>1
<1>a. \A o \in Block : g[o].state # NULL => g[g[o].state] = Raw
  <2> TAKE o \in Block
  <2>1. CASE o = b
    BY <1>1, <1>2, <2>1
  <2>2. CASE o # b
    BY <1>1, <1>4, <1>6, <2>2 DEF Owned
  <2> QED  BY <2>1, <2>2
<1>b. \A k \in Filled(c) : /\ g[c[k].ptr] # FreeBlock
                           /\ c[k].is_obj <=> g[c[k].ptr].is = "object"
  BY <1>1, <1>5, <1>7 DEF Owned
<1>c. \A x \in dl : g[x] # FreeBlock
  BY <1>1 DEF Owned
<1>d. \A o, p \in Block : g[o].state # NULL /\ g[o].state = g[p].state => o = p
  BY <1>9 DEF Owned
<1>e. \A k \in Filled(c), o \in Block : c[k].ptr # g[o].state
  BY <1>5, <1>3, <1>9 DEF Owned
<1>f. (\A k \in Filled(c) : c[k].ptr \notin dl) /\ \A o \in Block : g[o].state \notin dl
  BY <1>6, <1>7, <1>9 DEF Owned
<1>g. \A x \in Block : g[x] # FreeBlock =>
          \/ x \in dl
          \/ \E k \in Filled(c) : c[k].ptr = x
          \/ \E o \in Block : g[o].state = x
  <2> SUFFICES ASSUME NEW x \in Block, g[x] # FreeBlock, x \notin dl,
                      ~\E k \in Filled(c) : c[k].ptr = x
               PROVE  \E o \in Block : g[o].state = x
    OBVIOUS
  <2>1. CASE x = s
    BY <1>9, <2>1
  <2>2. CASE x # s
    <3>1. x # b /\ x \notin cl /\ h[x] # FreeBlock
      BY <1>1, <2>2
    <3>2. PICK o \in Block : h[o].state = x
      BY <3>1 DEF Owned
    <3>3. o # b
      BY <1>3, <3>2
    <3> QED  BY <1>9, <3>2, <3>3
  <2> QED  BY <2>1, <2>2
<1>h. \A k \in DOMAIN c : c[k].ptr = NULL => ~c[k].is_obj
  BY DEF Owned
<1>i. \A k, l \in Filled(c) : c[k].ptr = c[l].ptr => k = l
  BY DEF Owned
<1> HIDE DEF dl
<1>z. Owned(g, c, dl)
  BY <1>a, <1>b, <1>c, <1>d, <1>e, <1>f, <1>g, <1>h, <1>i DEF Owned
<1> QED  BY <1>z DEF g, dl, v

\* The client's block b becomes the block of an empty node, f.
LEMMA AdoptOwned ==
    ASSUME NEW h \in [Block -> BlockValue], NEW c, IsChain(c), NEW cl \in SUBSET Block,
           Owned(h, c, cl), NEW b \in cl, NEW f, NEW d, NEW is_obj,
           Puts(c, d, f, b, is_obj), is_obj <=> h[b].is = "object"
    PROVE  Owned(h, d, cl \ {b})
<1>1. b \in Block /\ b # NULL /\ d[f].ptr = b /\ (d[f].is_obj <=> h[b].is = "object")
  BY StoreAssumption DEF Puts
<1>2. Filled(d) = Filled(c) \cup {f} /\ \A k \in Filled(c) : d[k] = c[k] /\ k # f
  BY <1>1 DEF Filled, Puts
<1>3. h[b] # FreeBlock /\ \A k \in Filled(c) : c[k].ptr # b
  BY DEF Owned
<1>4. \A o \in Block : h[o].state # b
  BY DEF Owned
<1>a. \A k \in Filled(d) : /\ h[d[k].ptr] # FreeBlock
                           /\ d[k].is_obj <=> h[d[k].ptr].is = "object"
  BY <1>1, <1>2, <1>3 DEF Owned
<1>b. \A k \in DOMAIN d : d[k].ptr = NULL => ~d[k].is_obj
  BY <1>1 DEF Owned, Puts
<1>c. \A k, l \in Filled(d) : d[k].ptr = d[l].ptr => k = l
  BY <1>1, <1>2, <1>3 DEF Owned
<1>d. \A k \in Filled(d), o \in Block : d[k].ptr # h[o].state
  BY <1>1, <1>2, <1>4 DEF Owned
<1>e. \A k \in Filled(d) : d[k].ptr \notin cl \ {b}
  BY <1>1, <1>2 DEF Owned
<1>f. \A x \in Block : h[x] # FreeBlock =>
          \/ x \in cl \ {b}
          \/ \E k \in Filled(d) : d[k].ptr = x
          \/ \E o \in Block : h[o].state = x
  <2> SUFFICES ASSUME NEW x \in Block, h[x] # FreeBlock, x \notin cl \ {b},
                      ~\E o \in Block : h[o].state = x
               PROVE  \E k \in Filled(d) : d[k].ptr = x
    OBVIOUS
  <2>1. CASE x = b
    BY <1>1, <1>2, <2>1
  <2>2. CASE x # b
    <3>1. PICK k \in Filled(c) : c[k].ptr = x
      BY <2>2 DEF Owned
    <3> QED  BY <1>2, <3>1
  <2> QED  BY <2>1, <2>2
<1>g. /\ \A o \in Block : h[o].state # NULL => h[h[o].state] = Raw
      /\ \A x \in cl \ {b} : h[x] # FreeBlock
      /\ \A o, p \in Block : h[o].state # NULL /\ h[o].state = h[p].state => o = p
      /\ \A o \in Block : h[o].state \notin cl \ {b}
  BY DEF Owned
<1> QED
  BY <1>a, <1>b, <1>c, <1>d, <1>e, <1>f, <1>g DEF Owned

\* A new block in an empty node, f, around a state of the client or around none.
LEMMA NewOwned ==
    ASSUME NEW h \in [Block -> BlockValue], NEW c, IsChain(c), NEW cl \in SUBSET Block,
           Owned(h, c, cl), NEW b \in Block, h[b] = FreeBlock,
           NEW s, s = NULL \/ (s \in cl /\ h[s] = Raw),
           NEW f, NEW d, NEW is_obj, Puts(c, d, f, b, is_obj), is_obj <=> s # NULL
    PROVE  Owned([h EXCEPT ![b] = IF s = NULL THEN Raw ELSE ObjectOf(s)], d, cl \ {s})
<1> DEFINE v == IF s = NULL THEN Raw ELSE ObjectOf(s)
           g == [h EXCEPT ![b] = v]
           bl == (cl \cup {b}) \ {s}
<1>1. Owned(g, c, bl)
  BY ClientOwned
<1>2. b \notin cl /\ s # b
  BY StoreAssumption DEF Owned, Raw, FreeBlock
<1>3. bl \in SUBSET Block /\ b \in bl /\ bl \ {b} = cl \ {s}
  BY <1>2
<1>4. v \in BlockValue /\ (v.is = "object" <=> s # NULL)
  BY DEF Raw, ObjectOf, BlockValue
<1> HIDE DEF v
<1>5. g \in [Block -> BlockValue] /\ g[b] = v
  BY <1>4
<1> HIDE DEF g, bl
<1>6. is_obj <=> g[b].is = "object"
  BY <1>4, <1>5
<1>7. Owned(g, d, bl \ {b})
  BY <1>1, <1>3, <1>5, <1>6, AdoptOwned
<1>8. Owned(g, d, cl \ {s})
  BY <1>3, <1>7
<1> QED  BY <1>8 DEF g, v

\* The other way: node k gives its block to the client.
LEMMA DropOwned ==
    ASSUME NEW h \in [Block -> BlockValue], NEW c, IsChain(c), NEW cl \in SUBSET Block,
           Owned(h, c, cl), NEW k \in Filled(c)
    PROVE  Owned(h, [c EXCEPT ![k] = NewNode], cl \cup {c[k].ptr})
<1> DEFINE d == [c EXCEPT ![k] = NewNode]
           b == c[k].ptr
<1>1. k \in DOMAIN c /\ b \in Block /\ b # NULL
  BY DEF Filled, IsChain, Node
<1>2. /\ DOMAIN d = DOMAIN c /\ d[k] = NewNode
      /\ \A l \in DOMAIN c \ {k} : d[l] = c[l]
  BY <1>1
<1>3. NewNode.ptr = NULL /\ ~NewNode.is_obj
  BY DEF NewNode
<1>4. h[b] # FreeBlock /\ \A o \in Block : h[o].state # b
  BY DEF Owned
<1> HIDE DEF d, b
<1>5. Filled(d) = Filled(c) \ {k} /\ \A l \in Filled(d) : d[l] = c[l]
  BY <1>1, <1>2, <1>3 DEF Filled
<1>6. \A l \in Filled(d) : c[l].ptr # b
  BY <1>5 DEF Owned, b
<1>a. \A l \in Filled(d) : /\ h[d[l].ptr] # FreeBlock
                           /\ d[l].is_obj <=> h[d[l].ptr].is = "object"
  BY <1>5 DEF Owned
<1>b. \A l \in DOMAIN d : d[l].ptr = NULL => ~d[l].is_obj
  BY <1>2, <1>3 DEF Owned
<1>c. \A x \in cl \cup {b} : h[x] # FreeBlock
  BY <1>4 DEF Owned
<1>d. \A l, m \in Filled(d) : d[l].ptr = d[m].ptr => l = m
  BY <1>5 DEF Owned
<1>e. \A l \in Filled(d), o \in Block : d[l].ptr # h[o].state
  BY <1>5 DEF Owned
<1>f. \A l \in Filled(d) : d[l].ptr \notin cl \cup {b}
  BY <1>5, <1>6 DEF Owned
<1>g. \A o \in Block : h[o].state \notin cl \cup {b}
  BY <1>4 DEF Owned
<1>h. \A x \in Block : h[x] # FreeBlock =>
          \/ x \in cl \cup {b}
          \/ \E l \in Filled(d) : d[l].ptr = x
          \/ \E o \in Block : h[o].state = x
  <2> SUFFICES ASSUME NEW x \in Block, h[x] # FreeBlock, x \notin cl \cup {b},
                      ~\E o \in Block : h[o].state = x
               PROVE  \E l \in Filled(d) : d[l].ptr = x
    OBVIOUS
  <2>1. PICK l \in Filled(c) : c[l].ptr = x
    BY DEF Owned
  <2>2. l # k
    BY <2>1 DEF b
  <2> QED  BY <1>5, <2>1, <2>2
<1>i. /\ \A o \in Block : h[o].state # NULL => h[h[o].state] = Raw
      /\ \A o, p \in Block : h[o].state # NULL /\ h[o].state = h[p].state => o = p
  BY DEF Owned
<1>z. Owned(h, d, cl \cup {b})
  BY <1>a, <1>b, <1>c, <1>d, <1>e, <1>f, <1>g, <1>h, <1>i DEF Owned
<1> QED  BY <1>z DEF d, b

\* b is the client's, and node is right about it.
Holds(m, c, cl, b, node) ==
    /\ m \in Memory /\ IsChain(c) /\ cl \in SUBSET Block /\ Owned(m.heap, c, cl)
    /\ b \in cl /\ node.ptr = b /\ (node.is_obj <=> m.heap[b].is = "object")

\* What free() of a block of the client leaves, the destructor first.
LEMMA FreedOwned ==
    ASSUME NEW m, NEW c, NEW cl, NEW b, NEW node, Holds(m, c, cl, b, node)
    PROVE  /\ Owned(NodeFreed(m, node).heap, c, cl \ {b})
           /\ NodeFreed(m, node).fault = m.fault
<1> USE DEF Holds
<1> DEFINE h == m.heap
           s == h[b].state
           g == [o \in Block |-> IF o = b \/ o = s THEN FreeBlock ELSE h[o]]
<1>1. h \in [Block -> BlockValue] /\ m.fault \in BOOLEAN /\ b \in Block /\ b # NULL
  BY StoreAssumption DEF Memory
<1>2. /\ s \in Block \cup {NULL} /\ (h[b].is = "object" <=> h[b] = ObjectOf(s))
      /\ h[b].is # "object" => s = NULL
  BY <1>1, ValueIs
<1>3. h[b] # FreeBlock
  BY DEF Owned
<1>4. s # NULL => h[s] = Raw /\ s \in Block /\ s # b
  <2> SUFFICES ASSUME s # NULL PROVE h[s] = Raw /\ s \in Block /\ s # b
    OBVIOUS
  <2>1. h[s] = Raw
    BY <1>1 DEF Owned
  <2>2. Raw.state = NULL
    BY DEF Raw
  <2> QED  BY <1>2, <2>1, <2>2
<1>5. Raw # FreeBlock /\ FreeBlock.state = NULL /\ NULL \notin Block
  BY StoreAssumption DEF Raw, FreeBlock
<1>6. NodeFreed(m, node) = [heap |-> g, fault |-> m.fault]
  <2>1. CASE ~node.is_obj
    <3>1. s = NULL
      BY <1>2, <2>1
    <3>2. NodeFreed(m, node) = Freed(m, b)
      BY <1>1, <2>1 DEF NodeFreed
    <3>3. Freed(m, b) = [heap |-> [h EXCEPT ![b] = FreeBlock], fault |-> m.fault]
      BY <1>1, <1>3 DEF Freed
    <3>4. [h EXCEPT ![b] = FreeBlock] = g
      BY <1>1, <3>1, <1>5
    <3> QED  BY <3>2, <3>3, <3>4
  <2>2. CASE node.is_obj /\ s = NULL
    <3>1. Destructed(m, b) = m
      BY <1>2, <2>2 DEF Destructed
    <3>2. NodeFreed(m, node) = Freed(m, b)
      BY <1>1, <2>2, <3>1 DEF NodeFreed
    <3>3. Freed(m, b) = [heap |-> [h EXCEPT ![b] = FreeBlock], fault |-> m.fault]
      BY <1>1, <1>3 DEF Freed
    <3>4. [h EXCEPT ![b] = FreeBlock] = g
      BY <1>1, <2>2, <1>5
    <3> QED  BY <3>2, <3>3, <3>4
  <2>3. CASE node.is_obj /\ s # NULL
    <3>1. Destructed(m, b) = Freed(m, s)
      BY <1>2, <2>3 DEF Destructed
    <3>2. NodeFreed(m, node) = Freed(Freed(m, s), b)
      BY <1>1, <2>3, <3>1 DEF NodeFreed
    <3>3. Freed(m, s) = [heap |-> [h EXCEPT ![s] = FreeBlock], fault |-> m.fault]
      BY <1>1, <1>4, <1>5, <2>3 DEF Freed
    <3> DEFINE i == [h EXCEPT ![s] = FreeBlock]
               n == [heap |-> i, fault |-> m.fault]
    <3>4. i[b] = h[b] /\ n.heap = i /\ n.fault = m.fault
      BY <1>1, <1>4, <2>3
    <3> HIDE DEF i
    <3>5. Freed(n, b) = [heap |-> [i EXCEPT ![b] = FreeBlock], fault |-> m.fault]
      BY <1>1, <1>3, <3>4 DEF Freed
    <3>6. [i EXCEPT ![b] = FreeBlock] = g
      BY <1>1, <1>4, <2>3 DEF i
    <3> QED  BY <3>2, <3>3, <3>5, <3>6 DEF i
  <2> QED  BY <2>1, <2>2, <2>3
<1>7. \A o \in Block : g[o] = IF o = b \/ o = s THEN FreeBlock ELSE h[o]
  OBVIOUS
<1> HIDE DEF h, g
<1>o. Owned(h, c, cl)
  BY DEF h
<1>8. (\A o \in Block : h[o].state # b) /\ (\A k \in Filled(c) : c[k].ptr # b /\ c[k].ptr # s)
  BY <1>o, <1>1 DEF Owned
<1>9. s \notin cl
  BY <1>o, <1>1 DEF Owned
<1>10. \A k \in Filled(c) : c[k].ptr \in Block
  BY DEF Filled, IsChain, Node
<1>11. \A o \in Block : h[o].state \in Block \cup {NULL}
  BY <1>1, ValueIs
<1>12. \A o \in Block : g[o].state = IF o = b \/ o = s THEN NULL ELSE h[o].state
  BY <1>5, <1>7
<1>a. \A o \in Block : g[o].state # NULL => g[g[o].state] = Raw
  <2> SUFFICES ASSUME NEW o \in Block, g[o].state # NULL PROVE g[g[o].state] = Raw
    OBVIOUS
  <2>1. o # b /\ o # s /\ g[o].state = h[o].state
    BY <1>12
  <2>2. h[o].state # s
    BY <1>1, <1>o, <2>1 DEF Owned
  <2>3. h[o].state # b /\ h[o].state \in Block /\ h[h[o].state] = Raw
    BY <1>8, <1>11, <1>o, <2>1 DEF Owned
  <2> QED  BY <1>7, <2>1, <2>2, <2>3
<1>b. \A k \in Filled(c) : /\ g[c[k].ptr] # FreeBlock
                           /\ c[k].is_obj <=> g[c[k].ptr].is = "object"
  BY <1>o, <1>7, <1>8, <1>10 DEF Owned
<1>c. \A x \in cl \ {b} : g[x] # FreeBlock
  BY <1>o, <1>7, <1>9 DEF Owned
<1>d. \A o, p \in Block : g[o].state # NULL /\ g[o].state = g[p].state => o = p
  BY <1>o, <1>12 DEF Owned
<1>e. \A k \in Filled(c), o \in Block : c[k].ptr # g[o].state
  BY <1>o, <1>5, <1>10, <1>12 DEF Owned
<1>f. \A o \in Block : g[o].state \notin cl \ {b}
  BY <1>o, <1>5, <1>12 DEF Owned
<1>g. \A x \in Block : g[x] # FreeBlock =>
          \/ x \in cl \ {b}
          \/ \E k \in Filled(c) : c[k].ptr = x
          \/ \E o \in Block : g[o].state = x
  <2> SUFFICES ASSUME NEW x \in Block, g[x] # FreeBlock, x \notin cl \ {b},
                      ~\E k \in Filled(c) : c[k].ptr = x
               PROVE  \E o \in Block : g[o].state = x
    OBVIOUS
  <2>1. x # b /\ x # s /\ h[x] # FreeBlock
    BY <1>7
  <2>2. PICK o \in Block : h[o].state = x
    BY <1>o, <2>1 DEF Owned
  <2>3. o # b /\ o # s
    <3>1. o # b
      BY <2>1, <2>2 DEF h
    <3>2. Raw.state = NULL /\ x # NULL /\ o # NULL
      BY <1>5 DEF Raw
    <3>3. s # NULL => h[s].state = NULL
      BY <1>4, <3>2 DEF h
    <3> QED  BY <2>2, <3>1, <3>2, <3>3
  <2> QED  BY <1>12, <2>2, <2>3
<1>h. /\ \A k \in DOMAIN c : c[k].ptr = NULL => ~c[k].is_obj
      /\ \A k, l \in Filled(c) : c[k].ptr = c[l].ptr => k = l
      /\ \A k \in Filled(c) : c[k].ptr \notin cl \ {b}
  BY <1>o DEF Owned
<1>z. Owned(g, c, cl \ {b})
  BY <1>a, <1>b, <1>c, <1>d, <1>e, <1>f, <1>g, <1>h DEF Owned
<1> QED  BY <1>6, <1>z

-----------------------------------------------------------------------------
LEMMA NodeFreedType ==
    ASSUME NEW m \in Memory, NEW node \in Node
    PROVE  NodeFreed(m, node) \in Memory
<1>1. \A n \in Memory, b \in Block : Freed(n, b) \in Memory
  BY DEF Freed, Memory, BlockValue
<1>2. \A n \in Memory, b \in Block : Destructed(n, b) \in Memory
  <2> TAKE n \in Memory, b \in Block
  <2>1. n.heap[b].state \in Block \cup {NULL}
    BY ValueIs DEF Memory
  <2>2. [n EXCEPT !.fault = TRUE] \in Memory
    BY DEF Memory
  <2> QED  BY <1>1, <2>1, <2>2 DEF Destructed
<1>3. node.ptr \in Block \cup {NULL}
  BY DEF Node
<1> QED  BY <1>1, <1>2, <1>3 DEF NodeFreed

\* Nodes that hold nothing any more, up to and with j.
Emptied(c, j) == [k \in DOMAIN c |-> IF k <= j THEN NewNode ELSE c[k]]

LEMMA FoldType ==
    ASSUME NEW m \in Memory, NEW c \in Seq(Node)
    PROVE  AllFreed(m, c) \in Memory
<1> DEFINE n == Len(c)
<1>1. n \in Nat /\ DOMAIN c = 1 .. n /\ \A j \in 1 .. n : c[j] \in Node
  OBVIOUS
<1> HIDE DEF n
<1>2. PICK g : /\ g[0] = m /\ g[n] = AllFreed(m, c)
               /\ \A j \in 1 .. n : g[j] = NodeFreed(g[j-1], c[j])
  <2>1. \E g : Loop(g, m, c, n)
    BY <1>1, FoldSteps
  <2> QED  BY <2>1 DEF Loop
<1> DEFINE S == { j \in Nat : j <= n => g[j] \in Memory }
<1>3. 0 \in S
  BY <1>2
<1>4. ASSUME NEW j \in Nat, j \in S PROVE j + 1 \in S
  <2> SUFFICES ASSUME j + 1 <= n PROVE g[j + 1] \in Memory
    OBVIOUS
  <2>1. j <= n /\ j + 1 \in 1 .. n /\ (j + 1) - 1 = j
    BY <1>1
  <2>2. g[j] \in Memory /\ c[j + 1] \in Node /\ g[j + 1] = NodeFreed(g[j], c[j + 1])
    BY <1>1, <1>2, <1>4, <2>1
  <2> QED  BY <2>2, NodeFreedType
<1>5. S = Nat
  <2> HIDE DEF S
  <2>1. S \in SUBSET Nat
    BY DEF S
  <2> QED  BY <1>3, <1>4, <2>1, AllNaturals
<1>6. n \in S
  <2> HIDE DEF S
  <2> QED  BY <1>1, <1>5
<1> QED  BY <1>1, <1>2, <1>6

\* The loop of destroy_store frees each node's block once, and what it leaves
\* is the client's.
LEMMA DestroyOwned ==
    ASSUME NEW m \in Memory, NEW c \in Seq(Node), NEW cl \in SUBSET Block,
           Owned(m.heap, c, cl)
    PROVE  LET l == AllFreed(m, c)
           IN  Owned(l.heap, <<NewNode>>, cl) /\ l.fault = m.fault
<1> DEFINE n == Len(c)
<1>1. n \in Nat /\ DOMAIN c = 1 .. n /\ \A j \in 1 .. n : c[j] \in Node
  OBVIOUS
<1> HIDE DEF n
<1>2. PICK g : /\ g[0] = m /\ g[n] = AllFreed(m, c)
               /\ \A j \in 1 .. n : g[j] = NodeFreed(g[j-1], c[j])
  <2>1. \E g : Loop(g, m, c, n)
    BY <1>1, FoldSteps
  <2> QED  BY <2>1 DEF Loop
<1> DEFINE Left(j) == /\ g[j] \in Memory /\ g[j].fault = m.fault
                      /\ Owned(g[j].heap, Emptied(c, j), cl)
           S == { j \in Nat : j <= n => Left(j) }
<1>n. NewNode \in Node /\ NewNode.ptr = NULL /\ ~NewNode.is_obj
  BY DEF NewNode, Node
<1>e. \A j \in Nat : /\ IsChain(Emptied(c, j)) /\ DOMAIN Emptied(c, j) = 1 .. n
                     /\ \A k \in 1 .. n : Emptied(c, j)[k] = IF k <= j THEN NewNode ELSE c[k]
  BY <1>1, <1>n DEF Emptied, IsChain
<1>3. 0 \in S
  <2>1. Emptied(c, 0) = c
    BY <1>1 DEF Emptied
  <2> QED  BY <1>2, <2>1
<1>4. ASSUME NEW j \in Nat, j \in S PROVE j + 1 \in S
  <2> SUFFICES ASSUME j + 1 <= n PROVE Left(j + 1)
    OBVIOUS
  <2>1. j <= n /\ j + 1 \in 1 .. n /\ (j + 1) - 1 = j
    BY <1>1
  <2> DEFINE k == j + 1
             e == Emptied(c, j)
             d == Emptied(c, k)
  <2>2. Left(j) /\ c[k] \in Node /\ g[k] = NodeFreed(g[j], c[k])
    BY <1>1, <1>2, <1>4, <2>1
  <2>3. g[k] \in Memory
    BY <2>2, NodeFreedType
  <2>4. IsChain(e) /\ DOMAIN e = 1 .. n /\ k \in 1 .. n /\ e[k] = c[k]
    BY <1>1, <1>e, <2>1
  <2>5. d = [e EXCEPT ![k] = NewNode]
    <3>1. \A x \in 1 .. n : (x <= j + 1 <=> x <= j \/ x = j + 1)
      OBVIOUS
    <3> QED  BY <1>1, <2>1, <3>1 DEF Emptied
  <2> HIDE DEF k, e, d
  <2>6. g[j] \in Memory /\ g[j].fault = m.fault /\ Owned(g[j].heap, e, cl)
    BY <2>2 DEF e
  <2>7. CASE c[k].ptr = NULL
    <3>1. g[k] = g[j]
      BY <2>2, <2>7 DEF NodeFreed
    <3>2. ~c[k].is_obj
      BY <2>4, <2>6, <2>7 DEF Owned
    <3>3. c[k] = NewNode
      BY <2>2, <2>7, <3>2 DEF NewNode, Node
    <3>4. d = e
      <4>1. e = [x \in DOMAIN c |-> e[x]] /\ DOMAIN e = DOMAIN c
        BY DEF e, Emptied
      <4> QED  BY <2>4, <2>5, <3>3, <4>1
    <3> QED  BY <2>6, <3>1, <3>4 DEF d, k
  <2>8. CASE c[k].ptr # NULL
    <3>1. k \in Filled(e) /\ e[k].ptr = c[k].ptr
      BY <2>4, <2>8 DEF Filled
    <3>2. g[j].heap \in [Block -> BlockValue] /\ c[k].ptr \in Block
      BY <2>2, <2>6, <2>8 DEF Memory, Node
    <3>3. Owned(g[j].heap, d, cl \cup {c[k].ptr})
      BY <2>4, <2>5, <2>6, <3>1, <3>2, DropOwned
    <3>4. c[k].is_obj <=> g[j].heap[c[k].ptr].is = "object"
      BY <2>4, <2>6, <3>1 DEF Owned
    <3>5. IsChain(d)
      BY <1>e, <2>1 DEF d, k
    <3>6. /\ Owned(g[k].heap, d, (cl \cup {c[k].ptr}) \ {c[k].ptr})
          /\ g[k].fault = g[j].fault
      <4> DEFINE dl == cl \cup {c[k].ptr}
      <4>1. dl \in SUBSET Block /\ c[k].ptr \in dl
        BY <3>2
      <4> HIDE DEF dl
      <4>2. /\ Owned(NodeFreed(g[j], c[k]).heap, d, dl \ {c[k].ptr})
            /\ NodeFreed(g[j], c[k]).fault = g[j].fault
        <5>1. PICK l, e1, b, x : l = g[j] /\ e1 = dl /\ b = c[k].ptr /\ x = c[k]
          OBVIOUS
        <5>2. Holds(l, d, e1, b, x)
          BY <2>6, <3>3, <3>4, <3>5, <4>1, <5>1 DEF dl, Holds
        <5>3. Owned(NodeFreed(l, x).heap, d, e1 \ {b}) /\ NodeFreed(l, x).fault = l.fault
          BY <5>2, FreedOwned
        <5> QED  BY <5>1, <5>3
      <4> QED  BY <2>2, <4>2 DEF dl
    <3>7. c[k].ptr \notin cl
      BY <2>6, <3>1 DEF Owned
    <3>8. (cl \cup {c[k].ptr}) \ {c[k].ptr} = cl
      BY <3>7
    <3> QED  BY <2>3, <2>6, <3>6, <3>8 DEF d, k
  <2> QED  BY <2>7, <2>8
<1>5. S = Nat
  <2> HIDE DEF S
  <2>1. S \in SUBSET Nat
    BY DEF S
  <2> QED  BY <1>3, <1>4, <2>1, AllNaturals
<1>6. n \in S
  <2> HIDE DEF S
  <2> QED  BY <1>1, <1>5
<1>7. Left(n)
  BY <1>1, <1>6
<1> HIDE DEF S
<1>8. Filled(Emptied(c, n)) = {} /\ Filled(<<NewNode>>) = {}
  BY <1>1, <1>e, <1>n DEF Filled
<1>9. Owned(g[n].heap, <<NewNode>>, cl)
  <2>1. \A k \in DOMAIN <<NewNode>> : ~(<<NewNode>>[k]).is_obj
    BY <1>n
  <2> QED  BY <1>7, <1>8, <2>1 DEF Owned
<1> QED  BY <1>2, <1>7, <1>9

-----------------------------------------------------------------------------
\* Once an object was cloned, or blocks were collected, only types are left.
StoreInv ==
    /\ StoreTypeOK
    /\ store = "collected" => misused
    /\ ~misused => /\ ~mem.fault
                   /\ Owned(mem.heap, chain, client)
                   /\ store = "destroyed" => Filled(chain) = {}

LEMMA StoreTypes ==
    ASSUME StoreTypeOK
    PROVE  /\ mem \in Memory /\ mem.heap \in [Block -> BlockValue] /\ mem.fault \in BOOLEAN
           /\ chain \in Seq(Node) /\ IsChain(chain)
           /\ Len(chain) \in 1 .. MaxNodes /\ DOMAIN chain = 1 .. Len(chain)
           /\ \A k \in 1 .. Len(chain) : chain[k] \in Node
  <1>1. chain \in Seq(Node) /\ Len(chain) \in 1 .. MaxNodes /\ mem \in Memory
    BY DEF StoreTypeOK, Memory, BlockValue
  <1>2. DOMAIN chain = 1 .. Len(chain) /\ \A k \in 1 .. Len(chain) : chain[k] \in Node
    BY <1>1
  <1> QED  BY <1>1, <1>2 DEF IsChain, Memory

\* There is a node to use.
LEMMA FirstEmptyIs ==
    ASSUME StoreTypeOK
    PROVE  /\ FirstEmpty \in 1 .. Len(chain) + 1
           /\ FirstEmpty <= Len(chain) => chain[FirstEmpty].ptr = NULL
<1> DEFINE n == Len(chain)
           S == { k \in 1 .. n+1 : k <= n => chain[k].ptr = NULL }
<1>1. n \in Nat
  BY StoreTypes
<1>2. S \in SUBSET Nat /\ n + 1 \in S
  BY <1>1
<1> HIDE DEF n
<1>3. PICK k \in S : \A l \in S : k <= l
  <2> HIDE DEF S
  <2> QED  BY <1>2, LeastOf
<1>4. /\ k \in 1 .. n+1 /\ k <= n => chain[k].ptr = NULL
      /\ \A l \in 1 .. k-1 : chain[l].ptr # NULL
  <2>1. k \in 1 .. n+1 /\ (k <= n => chain[k].ptr = NULL)
    OBVIOUS
  <2>2. ASSUME NEW l \in 1 .. k-1, chain[l].ptr = NULL PROVE FALSE
    <3>1. l \in S /\ l < k
      BY <1>1, <2>1, <2>2
    <3> QED  BY <1>1, <1>3, <2>1, <3>1
  <2> QED  BY <2>1, <2>2
<1> QED  BY <1>4 DEF FirstEmpty, n

LEMMA PutIs ==
    ASSUME StoreTypeOK, NEW b \in Block, NEW is_obj \in BOOLEAN, PutNode(b, is_obj)
    PROVE  /\ chain' \in Seq(Node) /\ Len(chain') \in 1 .. MaxNodes
           /\ \E f : Puts(chain, chain', f, b, is_obj)
<1> DEFINE n == Len(chain)
           f == FirstEmpty
           m == IF f > n THEN f ELSE n
           new == [ptr |-> b, is_obj |-> is_obj]
<1>1. /\ n \in 1 .. MaxNodes /\ DOMAIN chain = 1 .. n /\ MaxNodes \in Nat
      /\ \A k \in 1 .. n : chain[k] \in Node
  BY StoreTypes, StoreAssumption
<1>2. f \in 1 .. n+1 /\ (f <= n => chain[f].ptr = NULL)
  BY FirstEmptyIs
<1>3. f <= MaxNodes /\ chain' = [k \in 1 .. m |-> IF k = f THEN new ELSE chain[k]]
  BY DEF PutNode
<1>4. new \in Node /\ new.ptr = b /\ new.is_obj = is_obj
  BY DEF Node
<1> HIDE DEF n, f, new
<1>5. m \in 1 .. MaxNodes /\ 1 .. m = (1 .. n) \cup {f} /\ f \in 1 .. m
  BY <1>1, <1>2, <1>3
<1> HIDE DEF m
<1>6. \A k \in 1 .. m : (IF k = f THEN new ELSE chain[k]) \in Node
  BY <1>1, <1>4, <1>5
<1>7. chain' \in [1 .. m -> Node]
  BY <1>3, <1>6
<1>8. chain' \in Seq(Node) /\ Len(chain') = m /\ DOMAIN chain' = 1 .. m
  BY <1>5, <1>7
<1>9. f \notin Filled(chain)
  BY <1>1, <1>2 DEF Filled
<1>10. chain'[f] = new /\ \A k \in 1 .. m : k # f => chain'[k] = chain[k]
  BY <1>3, <1>5
<1>11. Puts(chain, chain', f, b, is_obj)
  BY <1>1, <1>4, <1>5, <1>8, <1>9, <1>10 DEF Puts
<1> QED  BY <1>8, <1>5, <1>11

\* A node that is used again has the is_obj it was left with.
LEMMA PutAsIsPuts ==
    ASSUME StoreTypeOK, NEW b \in Block, PutAsIs(b)
    PROVE  \E is_obj \in BOOLEAN :
              /\ PutNode(b, is_obj)
              /\ Owned(mem.heap, chain, client) => ~is_obj
<1> DEFINE is_obj == IF FirstEmpty <= Len(chain) THEN chain[FirstEmpty].is_obj ELSE FALSE
<1>1. PutNode(b, is_obj)
  BY DEF PutAsIs
<1>2. FirstEmpty <= Len(chain) =>
          FirstEmpty \in DOMAIN chain /\ chain[FirstEmpty].ptr = NULL /\ chain[FirstEmpty] \in Node
  BY FirstEmptyIs, StoreTypes
<1>3. is_obj \in BOOLEAN
  BY <1>2 DEF Node
<1>4. Owned(mem.heap, chain, client) => ~is_obj
  BY <1>2 DEF Owned
<1> HIDE DEF is_obj
<1> QED  BY <1>1, <1>3, <1>4

\* The block of a node, in its type.
LEMMA FilledType ==
    ASSUME StoreTypeOK, NEW k \in 1 .. Len(chain), chain[k].ptr # NULL
    PROVE  k \in Filled(chain) /\ chain[k].ptr \in Block /\ chain[k] \in Node
BY StoreTypes DEF Filled, Node

\* New blocks of the store, around a state of the client or around none.
LEMMA NewStep ==
    ASSUME StoreInv, NEW b \in Block, New(b), NEW s, s = NULL \/ (s \in client /\ mem.heap[s] = Raw),
           NEW is_obj \in BOOLEAN, PutNode(b, is_obj), ~misused => (is_obj <=> s # NULL),
           mem' = [mem EXCEPT !.heap[b] = IF s = NULL THEN Raw ELSE ObjectOf(s)],
           client' = client \ {s}, UNCHANGED <<store, misused>>
    PROVE  StoreInv'
<1> DEFINE v == IF s = NULL THEN Raw ELSE ObjectOf(s)
<1>1. StoreTypeOK /\ mem.heap[b] = FreeBlock /\ store = "live" /\ client \in SUBSET Block
  BY DEF StoreInv, New, StoreTypeOK
<1>2. /\ chain' \in Seq(Node) /\ Len(chain') \in 1 .. MaxNodes
      /\ \E f : Puts(chain, chain', f, b, is_obj)
  BY <1>1, PutIs
<1>3. v \in BlockValue
  BY <1>1 DEF BlockValue
<1> HIDE DEF v
<1>4. /\ mem' \in Memory /\ mem'.heap = [mem.heap EXCEPT ![b] = v] /\ mem'.fault = mem.fault
  <2>1. mem' = [mem EXCEPT !.heap[b] = v]
    BY DEF v
  <2> QED  BY <1>1, <1>3, <2>1, StoreTypes DEF Memory
<1>5. StoreTypeOK'
  BY <1>1, <1>2, <1>4 DEF StoreTypeOK, Memory, BlockValue, StoreInv
<1>6. ASSUME ~misused PROVE Owned(mem'.heap, chain', client')
  <2>1. PICK c, h, cl, d : c = chain /\ h = mem.heap /\ cl = client /\ d = chain'
    OBVIOUS
  <2>2. PICK f : Puts(c, d, f, b, is_obj)
    BY <1>2, <2>1
  <2>3. /\ Owned(h, c, cl) /\ cl \in SUBSET Block /\ h \in [Block -> BlockValue] /\ IsChain(c)
        /\ h[b] = FreeBlock /\ (s = NULL \/ (s \in cl /\ h[s] = Raw)) /\ (is_obj <=> s # NULL)
    BY <1>1, <1>6, <2>1, StoreTypes DEF StoreInv
  <2>4. Owned([h EXCEPT ![b] = IF s = NULL THEN Raw ELSE ObjectOf(s)], d, cl \ {s})
    BY <2>2, <2>3, NewOwned, Zenon
  <2> QED  BY <1>4, <2>1, <2>4 DEF v
<1> QED  BY <1>1, <1>4, <1>5, <1>6 DEF StoreInv

LEMMA MallocStep ==
    ASSUME StoreInv, NEW b \in Block, StoreMalloc(b)
    PROVE  StoreInv'
<1>1. PICK is_obj \in BOOLEAN : PutNode(b, is_obj) /\ (Owned(mem.heap, chain, client) => ~is_obj)
  BY PutAsIsPuts DEF StoreMalloc, StoreInv
<1>2. NULL \notin client
  BY StoreAssumption DEF StoreInv, StoreTypeOK
<1>3. client' = client \ {NULL} /\ (~misused => ~is_obj)
  BY <1>1, <1>2 DEF StoreMalloc, StoreInv
<1>4. PICK s : s = NULL
  OBVIOUS
<1>5. /\ New(b) /\ UNCHANGED <<store, misused>> /\ client' = client \ {s}
      /\ mem' = [mem EXCEPT !.heap[b] = IF s = NULL THEN Raw ELSE ObjectOf(s)]
  BY <1>3, <1>4 DEF StoreMalloc
<1>6. ~misused => (is_obj <=> s # NULL)
  BY <1>1, <1>3, <1>4 DEF StoreInv
<1> QED  BY <1>1, <1>4, <1>5, <1>6, NewStep

LEMMA ObjectStep ==
    ASSUME StoreInv, NEW b \in Block, NEW s \in Block \cup {NULL}, StoreObject(b, s)
    PROVE  StoreInv'
<1>1. s # NULL
  BY StoreAssumption DEF StoreObject, StoreInv, StoreTypeOK
<1> QED  BY <1>1, NewStep DEF StoreObject

LEMMA ClientStep ==
    ASSUME StoreInv, NEW b \in Block, NEW s \in Block \cup {NULL}, ClientNew(b, s)
    PROVE  StoreInv'
<1> DEFINE v == IF s = NULL THEN Raw ELSE ObjectOf(s)
<1>1. /\ StoreTypeOK /\ mem.heap[b] = FreeBlock /\ store = "live" /\ client \in SUBSET Block
      /\ client' = (client \cup {b}) \ {s} /\ UNCHANGED <<chain, store, misused>>
      /\ s = NULL \/ (s \in client /\ mem.heap[s] = Raw)
  BY DEF StoreInv, New, StoreTypeOK, ClientNew
<1>2. v \in BlockValue /\ mem' = [mem EXCEPT !.heap[b] = v]
  BY <1>1 DEF BlockValue, ClientNew
<1> HIDE DEF v
<1>3. mem' \in Memory /\ mem'.heap = [mem.heap EXCEPT ![b] = v] /\ mem'.fault = mem.fault
  BY <1>1, <1>2, StoreTypes DEF Memory
<1>4. StoreTypeOK'
  BY <1>1, <1>3 DEF StoreTypeOK, Memory, BlockValue, StoreInv
<1>5. ASSUME ~misused PROVE Owned(mem'.heap, chain', client')
  <2>1. Owned(mem.heap, chain, client)
    BY <1>5 DEF StoreInv
  <2>2. Owned([mem.heap EXCEPT ![b] = IF s = NULL THEN Raw ELSE ObjectOf(s)], chain,
              (client \cup {b}) \ {s})
    BY <1>1, <2>1, StoreTypes, ClientOwned
  <2> QED  BY <1>1, <1>3, <2>2 DEF v
<1> QED  BY <1>1, <1>3, <1>4, <1>5 DEF StoreInv

\* Deletions by the client.
LEMMA UnmanagedStep ==
    ASSUME StoreInv, NEW b \in Block, FreeUnmanaged(b)
    PROVE  StoreInv'
<1> DEFINE node == [ptr |-> b, is_obj |-> mem.heap[b] # Raw]
<1>1. /\ StoreTypeOK /\ client \in SUBSET Block /\ b \in client
      /\ mem' = NodeFreed(mem, node)
      /\ client' = client \ {b} /\ UNCHANGED <<chain, store, misused>>
  BY DEF StoreInv, StoreTypeOK, FreeUnmanaged
<1>2. node \in Node /\ node.ptr = b /\ (node.is_obj <=> mem.heap[b] # Raw)
  BY DEF Node
<1> HIDE DEF node
<1>3. mem' \in Memory
  BY <1>1, <1>2, StoreTypes, NodeFreedType
<1>4. StoreTypeOK'
  BY <1>1, <1>3 DEF StoreTypeOK, Memory, BlockValue, StoreInv
<1>5. ASSUME ~misused PROVE Owned(mem'.heap, chain', client') /\ ~mem'.fault
  <2>1. Owned(mem.heap, chain, client) /\ ~mem.fault
    BY <1>5 DEF StoreInv
  <2>2. mem.heap[b] # FreeBlock /\ mem.heap[b] \in BlockValue
    BY <1>1, <2>1, StoreTypes DEF Owned
  <2>3. node.is_obj <=> mem.heap[b].is = "object"
    BY <1>2, <2>2, ValueIs
  <2>4. /\ Owned(NodeFreed(mem, node).heap, chain, client \ {b})
        /\ NodeFreed(mem, node).fault = mem.fault
    <3>1. PICK c, cl, m, n : c = chain /\ cl = client /\ m = mem /\ n = node
      OBVIOUS
    <3>2. Holds(m, c, cl, b, n)
      BY <1>1, <1>2, <2>1, <2>3, <3>1, StoreTypes DEF Holds
    <3>3. Owned(NodeFreed(m, n).heap, c, cl \ {b}) /\ NodeFreed(m, n).fault = m.fault
      BY <3>2, FreedOwned, Zenon
    <3> QED  BY <3>1, <3>3
  <2> QED  BY <1>1, <2>1, <2>4
<1> QED  BY <1>1, <1>4, <1>5 DEF StoreInv

\* The client hands a block over.
LEMMA AdoptStep ==
    ASSUME StoreInv, NEW b \in Block, Adopt(b)
    PROVE  StoreInv'
<1>1. /\ StoreTypeOK /\ client \in SUBSET Block /\ b \in client /\ store = "live"
      /\ client' = client \ {b} /\ UNCHANGED <<mem, store, misused>>
  BY DEF StoreInv, StoreTypeOK, Adopt
<1>v. mem.heap[b] \in BlockValue
  BY <1>1, StoreTypes
<1>2. PICK is_obj \in BOOLEAN :
          /\ PutNode(b, is_obj)
          /\ Owned(mem.heap, chain, client) => (is_obj <=> mem.heap[b].is = "object")
  <2>1. CASE mem.heap[b] = Raw /\ PutAsIs(b)
    BY <1>1, <1>v, <2>1, PutAsIsPuts, ValueIs
  <2>2. CASE PutNode(b, mem.heap[b] # Raw)
    <3>1. PICK is_obj \in BOOLEAN : is_obj = (mem.heap[b] # Raw)
      OBVIOUS
    <3>2. PutNode(b, is_obj)
      BY <2>2, <3>1, Zenon
    <3>3. Owned(mem.heap, chain, client) => (is_obj <=> mem.heap[b].is = "object")
      BY <1>1, <1>v, <3>1, ValueIs DEF Owned
    <3> QED  BY <3>2, <3>3
  <2> QED  BY <2>1, <2>2 DEF Adopt
<1>3. /\ chain' \in Seq(Node) /\ Len(chain') \in 1 .. MaxNodes
      /\ \E f : Puts(chain, chain', f, b, is_obj)
  BY <1>1, <1>2, PutIs
<1>4. StoreTypeOK'
  BY <1>1, <1>3 DEF StoreTypeOK, StoreInv
<1>5. ASSUME ~misused PROVE Owned(mem'.heap, chain', client')
  <2>1. PICK c, h, cl, d : c = chain /\ h = mem.heap /\ cl = client /\ d = chain'
    OBVIOUS
  <2>2. PICK f : Puts(c, d, f, b, is_obj)
    BY <1>3, <2>1
  <2>3. /\ Owned(h, c, cl) /\ cl \in SUBSET Block /\ h \in [Block -> BlockValue] /\ IsChain(c)
        /\ b \in cl /\ (is_obj <=> h[b].is = "object")
    BY <1>1, <1>2, <1>5, <2>1, StoreTypes DEF StoreInv
  <2>4. Owned(h, d, cl \ {b})
    BY <2>2, <2>3, AdoptOwned, Zenon
  <2> QED  BY <1>1, <2>1, <2>4
<1> QED  BY <1>1, <1>4, <1>5 DEF StoreInv

\* Deletions by the store.
LEMMA NodeStep ==
    ASSUME StoreInv, store = "live", NEW k \in 1 .. Len(chain), chain[k].ptr # NULL,
           NEW n \in Node, n.ptr = chain[k].ptr,
           ~misused => (n.is_obj <=> chain[k].is_obj \/ mem.heap[n.ptr].is = "object"),
           mem' = NodeFreed(mem, n), chain' = [chain EXCEPT ![k] = NewNode],
           UNCHANGED <<client, store, misused>>
    PROVE  StoreInv'
<1>1. StoreTypeOK /\ client \in SUBSET Block
  BY DEF StoreInv, StoreTypeOK
<1>2. mem' \in Memory
  BY <1>1, StoreTypes, NodeFreedType
<1>3. NewNode \in Node
  BY DEF NewNode, Node
<1>4. /\ chain' \in Seq(Node) /\ Len(chain') \in 1 .. MaxNodes
      /\ \A j \in DOMAIN chain' : chain'[j] \in Node
  BY <1>1, <1>3, StoreTypes
<1>5. StoreTypeOK'
  BY <1>1, <1>2, <1>4 DEF StoreTypeOK, Memory, BlockValue, StoreInv
<1>6. ASSUME ~misused PROVE Owned(mem'.heap, chain', client') /\ ~mem'.fault
  <2>1. PICK c, d, cl, dl, m, b : /\ c = chain /\ d = chain' /\ cl = client /\ m = mem
                                  /\ b = n.ptr /\ dl = cl \cup {b}
    OBVIOUS
  <2>2. /\ Owned(m.heap, c, cl) /\ ~m.fault /\ cl \in SUBSET Block /\ IsChain(c) /\ IsChain(d)
        /\ m \in Memory /\ m.heap \in [Block -> BlockValue] /\ d = [c EXCEPT ![k] = NewNode]
        /\ b = c[k].ptr
    BY <1>1, <1>4, <1>6, <2>1, StoreTypes DEF StoreInv, IsChain
  <2>3. k \in Filled(c) /\ b \in Block
    BY <1>1, <2>1, FilledType
  <2>4. Owned(m.heap, d, dl)
    <3>1. PICK h : h = m.heap
      OBVIOUS
    <3>2. h \in [Block -> BlockValue] /\ IsChain(c) /\ cl \in SUBSET Block /\ Owned(h, c, cl)
      BY <2>2, <3>1
    <3>3. Owned(h, [c EXCEPT ![k] = NewNode], cl \cup {c[k].ptr})
      BY <2>3, <3>2, DropOwned, Zenon
    <3> QED  BY <2>1, <2>2, <3>1, <3>3
  <2>5. n.is_obj <=> m.heap[b].is = "object"
    BY <1>6, <2>1, <2>2, <2>3 DEF Owned
  <2>6. dl \in SUBSET Block /\ b \in dl
    BY <2>1, <2>2, <2>3
  <2>7. Owned(NodeFreed(m, n).heap, d, dl \ {b}) /\ NodeFreed(m, n).fault = m.fault
    <3>1. Holds(m, d, dl, b, n)
      BY <2>1, <2>2, <2>4, <2>5, <2>6 DEF Holds
    <3> QED  BY <3>1, FreedOwned
  <2>8. dl \ {b} = cl
    <3>1. b \notin cl
      BY <2>2, <2>3 DEF Owned
    <3> QED  BY <2>1, <3>1
  <2> QED  BY <2>1, <2>2, <2>7, <2>8
<1> QED  BY <1>5, <1>6 DEF StoreInv

LEMMA DeleteStep ==
    ASSUME StoreInv, NEW k \in 1 .. MaxNodes, StoreFree(k)
    PROVE  StoreInv'
<1>1. k \in 1 .. Len(chain) /\ chain[k].ptr # NULL
  BY DEF StoreFree
<1>2. chain[k] \in Node /\ k \in Filled(chain) /\ StoreTypeOK
  BY <1>1, FilledType DEF StoreInv
<1>3. ~misused => (chain[k].is_obj <=> mem.heap[chain[k].ptr].is = "object")
  BY <1>2 DEF StoreInv, Owned
<1>4. PICK n \in Node : n = chain[k]
  BY <1>2
<1>5. n.ptr = chain[k].ptr /\ mem' = NodeFreed(mem, n)
      /\ (~misused => (n.is_obj <=> chain[k].is_obj \/ mem.heap[n.ptr].is = "object"))
  BY <1>3, <1>4 DEF StoreFree
<1> QED  BY <1>1, <1>5, NodeStep DEF StoreFree

LEMMA DeleteObjectStep ==
    ASSUME StoreInv, NEW k \in 1 .. MaxNodes, FreeObject(k)
    PROVE  StoreInv'
<1> DEFINE n == [ptr |-> chain[k].ptr, is_obj |-> TRUE]
<1>1. k \in 1 .. Len(chain) /\ chain[k].ptr # NULL /\ StoreTypeOK
      /\ mem.heap[chain[k].ptr].is = "object"
  BY DEF FreeObject, StoreInv
<1>2. n \in Node /\ n.ptr = chain[k].ptr /\ n.is_obj = TRUE
  BY <1>1, FilledType DEF Node
<1> HIDE DEF n
<1>3. mem' = NodeFreed(mem, n)
  BY <1>1, <1>2 DEF NodeFreed, FreeObject
<1>4. n.is_obj <=> chain[k].is_obj \/ mem.heap[n.ptr].is = "object"
  BY <1>1, <1>2
<1>5. PICK x \in Node : x = n
  BY <1>2
<1>6. x.ptr = chain[k].ptr /\ mem' = NodeFreed(mem, x)
      /\ (x.is_obj <=> chain[k].is_obj \/ mem.heap[x.ptr].is = "object")
  BY <1>2, <1>3, <1>4, <1>5
<1> QED  BY <1>1, <1>6, NodeStep DEF FreeObject

\* What clone_object and store_collect misuse keeps its types.
LEMMA CloneStep ==
    ASSUME StoreInv, NEW from \in Block, NEW b \in Block, CloneObject(from, b)
    PROVE  StoreInv'
<1>1. StoreTypeOK /\ misused' = TRUE /\ UNCHANGED <<client, store>>
  BY DEF StoreInv, CloneObject
<1>2. mem' \in Memory /\ chain' \in Seq(Node) /\ Len(chain') \in 1 .. MaxNodes
  <2>1. CASE mem' = [mem EXCEPT !.fault = TRUE] /\ UNCHANGED chain
    BY <1>1, <2>1, StoreTypes DEF Memory
  <2>2. CASE PutNode(b, TRUE) /\ mem' = [mem EXCEPT !.heap[b] = mem.heap[from]]
    <3>1. chain' \in Seq(Node) /\ Len(chain') \in 1 .. MaxNodes
      BY <1>1, <2>2, PutIs
    <3>2. mem.heap[from] \in BlockValue
      BY <1>1, StoreTypes
    <3> QED  BY <1>1, <2>2, <3>1, <3>2, StoreTypes DEF Memory
  <2> QED  BY <2>1, <2>2 DEF CloneObject
<1> QED  BY <1>1, <1>2 DEF StoreInv, StoreTypeOK, Memory, BlockValue

LEMMA NothingFreed ==
    ASSUME NEW m
    PROVE  AllFreed(m, <<NewNode>>) = m
<1>1. DOMAIN <<NewNode>> = 1 .. 1 /\ <<NewNode>>[1] = NewNode /\ NewNode.ptr = NULL
  BY DEF NewNode
<1>2. PICK c : c = <<NewNode>>
  OBVIOUS
<1>3. PICK g : Loop(g, m, c, 1)
  BY <1>1, <1>2, FoldSteps
<1>4. g[0] = m /\ g[1] = AllFreed(m, c) /\ g[1] = NodeFreed(g[0], c[1])
  BY <1>3 DEF Loop
<1> QED  BY <1>1, <1>2, <1>4 DEF NodeFreed

LEMMA CollectStep ==
    ASSUME StoreInv, StoreCollect
    PROVE  StoreInv'
<1>1. StoreTypeOK /\ UNCHANGED client /\ mem' = AllFreed(mem, chain) /\ store = "live"
  BY DEF StoreInv, StoreCollect
<1>2. mem' \in Memory
  BY <1>1, StoreTypes, FoldType
<1>3. CASE chain = <<NewNode>>
  <2>1. mem' = mem
    BY <1>1, <1>3, NothingFreed
  <2>2. chain' = chain
    <3>1. Len(chain) = 1 /\ chain[1] = NewNode /\ ~NewNode.is_obj /\ NewNode.ptr = NULL
      BY <1>3 DEF NewNode
    <3>2. \A k \in 1 .. 1 : [ptr |-> chain[k].ptr, is_obj |-> FALSE] = NewNode
      <4>1. [ptr |-> NULL, is_obj |-> FALSE] = NewNode
        BY DEF NewNode
      <4>2. \A k \in 1 .. 1 : chain[k].ptr = NULL
        BY <3>1
      <4> QED  BY <4>1, <4>2
    <3>3. chain' = [k \in 1 .. 1 |-> NewNode]
      BY <3>1, <3>2 DEF StoreCollect
    <3>4. <<NewNode>> = [k \in 1 .. 1 |-> NewNode]
      OBVIOUS
    <3> QED  BY <1>3, <3>3, <3>4
  <2> QED  BY <1>1, <1>3, <2>1, <2>2 DEF StoreInv, StoreCollect, StoreTypeOK
<1>4. CASE chain # <<NewNode>>
  <2>1. store' = "collected" /\ misused' = TRUE
    BY <1>4 DEF StoreCollect
  <2>2. chain' \in Seq(Node) /\ Len(chain') = Len(chain)
    <3>1. \A k \in 1 .. Len(chain) : [ptr |-> chain[k].ptr, is_obj |-> FALSE] \in Node
      BY <1>1, StoreTypes DEF Node
    <3>2. chain' \in [1 .. Len(chain) -> Node] /\ Len(chain) \in Nat
      BY <1>1, <3>1, StoreTypes DEF StoreCollect
    <3> QED  BY <3>2
  <2> QED  BY <1>1, <1>2, <2>1, <2>2, StoreTypes DEF StoreInv, StoreTypeOK, Memory, BlockValue
<1> QED  BY <1>3, <1>4

LEMMA DestroyStep ==
    ASSUME StoreInv, DestroyStore
    PROVE  StoreInv'
<1>1. StoreTypeOK /\ UNCHANGED <<client, misused>> /\ chain' = <<NewNode>> /\ store' = "destroyed"
  BY DEF StoreInv, DestroyStore
<1>2. mem' \in Memory
  <2>1. AllFreed(mem, chain) \in Memory /\ [mem EXCEPT !.fault = TRUE] \in Memory
    BY <1>1, StoreTypes, FoldType DEF Memory
  <2> QED  BY <2>1 DEF DestroyStore
<1>3. NewNode \in Node /\ NewNode.ptr = NULL
  BY DEF NewNode, Node
<1>4. chain' \in Seq(Node) /\ Len(chain') \in 1 .. MaxNodes /\ Filled(chain') = {}
  BY <1>1, <1>3, StoreAssumption DEF Filled
<1>5. StoreTypeOK'
  BY <1>1, <1>2, <1>4 DEF StoreTypeOK, Memory, BlockValue
<1>6. ASSUME ~misused PROVE Owned(mem'.heap, chain', client') /\ ~mem'.fault
  <2>1. mem' = AllFreed(mem, chain) /\ Owned(mem.heap, chain, client) /\ ~mem.fault
        /\ client \in SUBSET Block
    BY <1>6 DEF StoreInv, DestroyStore, StoreTypeOK
  <2>2. /\ Owned(AllFreed(mem, chain).heap, <<NewNode>>, client)
        /\ AllFreed(mem, chain).fault = mem.fault
    BY <1>1, <2>1, StoreTypes, DestroyOwned
  <2> QED  BY <1>1, <2>1, <2>2
<1> QED  BY <1>1, <1>4, <1>5, <1>6 DEF StoreInv

LEMMA InitStoreInv ==
    ASSUME StoreInit
    PROVE  StoreInv
<1>1. NewNode \in Node /\ NewNode.ptr = NULL /\ ~NewNode.is_obj
  BY DEF NewNode, Node
<1>2. /\ mem \in Memory /\ ~mem.fault /\ \A b \in Block : mem.heap[b] = FreeBlock
  BY DEF StoreInit, Memory, BlockValue
<1>3. chain \in Seq(Node) /\ Len(chain) \in 1 .. MaxNodes /\ DOMAIN chain = {1} /\ chain[1] = NewNode
  BY <1>1, StoreAssumption DEF StoreInit
<1>4. FreeBlock.state = NULL /\ NULL \notin Block
  BY StoreAssumption DEF FreeBlock
<1>5. StoreTypeOK
  BY <1>2, <1>3 DEF StoreInit, StoreTypeOK, Memory, BlockValue
<1>6. Filled(chain) = {}
  BY <1>1, <1>3 DEF Filled
<1>7. Owned(mem.heap, chain, client)
  BY <1>1, <1>2, <1>3, <1>4, <1>6 DEF Owned, StoreInit
<1> QED  BY <1>2, <1>5, <1>6, <1>7 DEF StoreInv, StoreInit

LEMMA NextStoreInv ==
    ASSUME StoreInv, [StoreNext]_storeVars
    PROVE  StoreInv'
<1>1. CASE UNCHANGED storeVars
  BY <1>1 DEF storeVars, StoreInv, StoreTypeOK
<1>2. ASSUME NEW b \in Block, StoreMalloc(b) \/ FreeUnmanaged(b) \/ Adopt(b)
      PROVE  StoreInv'
  BY <1>2, MallocStep, UnmanagedStep, AdoptStep
<1>3. ASSUME NEW b \in Block, NEW s \in Block \cup {NULL}, ClientNew(b, s) \/ StoreObject(b, s)
      PROVE  StoreInv'
  BY <1>3, ClientStep, ObjectStep
<1>4. ASSUME NEW k \in 1 .. MaxNodes, StoreFree(k) \/ FreeObject(k)
      PROVE  StoreInv'
  BY <1>4, DeleteStep, DeleteObjectStep
<1>5. ASSUME NEW from \in Block, NEW b \in Block, CloneObject(from, b)
      PROVE  StoreInv'
  BY <1>5, CloneStep
<1>6. CASE StoreCollect \/ DestroyStore
  BY <1>6, CollectStep, DestroyStep
<1> QED  BY <1>1, <1>2, <1>3, <1>4, <1>5, <1>6 DEF StoreNext

LEMMA StoreInvTheorem == StoreSpec => []StoreInv
<1> QED  BY InitStoreInv, NextStoreInv, PTL DEF StoreSpec

\* How many members a set has of which all are equal.
LEMMA OneOrNone ==
    ASSUME NEW S, \A x, y \in S : x = y
    PROVE  Cardinality(S) = IF S = {} THEN 0 ELSE 1
<1>1. CASE S = {}
  BY <1>1, FS_EmptySet
<1>2. CASE S # {}
  <2>1. PICK x : x \in S
    BY <1>2
  <2>2. S = {x}
    BY <2>1
  <2> QED  BY <1>2, <2>2, FS_Singleton
<1> QED  BY <1>1, <1>2

(***************************************************************************)
(* In use, a store and its client own every block exactly once              *)
(* (ptr_store.c 14-86, 152-160, 187-201).                                   *)
(***************************************************************************)
THEOREM StoreTheorem == StoreSpec => []StoreIInv
<1>1. ASSUME StoreInv PROVE StoreIInv
  <2> SUFFICES ASSUME store = "live", ~misused PROVE BlocksOwnedOnce
    BY <1>1 DEF StoreIInv, StoreInv, BlocksOwnedOnce
  <2>1. StoreTypeOK /\ Owned(mem.heap, chain, client)
    BY <1>1 DEF StoreInv
  <2>2. Nodes = Filled(chain)
    BY <2>1, StoreTypes DEF Nodes, Filled
  <2>3. ASSUME NEW b \in Block, mem.heap[b] # FreeBlock
        PROVE  Cardinality({ k \in Nodes : chain[k].ptr = b })
               + Cardinality({ o \in Stated : mem.heap[o].state = b })
               + (IF b \in client THEN 1 ELSE 0) = 1
    <3> DEFINE K == { k \in Nodes : chain[k].ptr = b }
               O == { o \in Stated : mem.heap[o].state = b }
    <3>1. \A k, l \in K : k = l
      BY <2>1, <2>2 DEF Owned
    <3>2. \A o, p \in O : o = p
      BY <2>1 DEF Owned, Stated
    <3>3. b # NULL
      BY StoreAssumption
    <3>4. /\ ~(K # {} /\ O # {}) /\ ~(K # {} /\ b \in client) /\ ~(O # {} /\ b \in client)
      BY <2>1, <2>2 DEF Owned, Stated
    <3>5. b \in client \/ K # {} \/ O # {}
      BY <2>1, <2>2, <2>3, <3>3 DEF Owned, Stated
    <3> HIDE DEF K, O
    <3>6. /\ Cardinality(K) = IF K = {} THEN 0 ELSE 1
          /\ Cardinality(O) = IF O = {} THEN 0 ELSE 1
      BY <3>1, <3>2, OneOrNone
    <3>7. Cardinality(K) + Cardinality(O) + (IF b \in client THEN 1 ELSE 0) = 1
      BY <3>4, <3>5, <3>6
    <3> QED  BY <3>7 DEF K, O
  <2>4. \A k \in Nodes : chain[k].is_obj <=> mem.heap[chain[k].ptr].is = "object"
    BY <2>1, <2>2 DEF Owned
  <2> QED  BY <2>3, <2>4 DEF BlocksOwnedOnce
<1> QED  BY <1>1, StoreInvTheorem, PTL

(***************************************************************************)
(* No sequence of calls frees a block twice or uses a freed one, unless an  *)
(* object was cloned, or the store collected with something in its chain    *)
(* (ptr_store.c 110-132, 162-185).                                          *)
(***************************************************************************)
THEOREM NoStoreFaultTheorem == StoreSpec => []NoStoreFault
<1>1. StoreInv => NoStoreFault
  BY DEF StoreInv, NoStoreFault
<1> QED  BY <1>1, StoreInvTheorem, PTL

(***************************************************************************)
(* A destroyed store has freed all it held, each object through its         *)
(* destructor: what is left is the client's (ptr_store.c 88-108).           *)
(***************************************************************************)
THEOREM StoreFreesAllTheorem == StoreSpec => []StoreFreesAll
<1>1. ASSUME StoreInv PROVE StoreFreesAll
  <2> SUFFICES ASSUME store = "destroyed", ~misused, NEW b \in Block, mem.heap[b] # FreeBlock,
                      b \notin client
               PROVE  \E o \in client \cap Stated : mem.heap[o].state = b
    BY DEF StoreFreesAll
  <2>1. StoreTypeOK /\ Owned(mem.heap, chain, client) /\ Filled(chain) = {} /\ b # NULL
    BY <1>1, StoreAssumption DEF StoreInv
  <2>2. PICK o \in Block : mem.heap[o].state = b
    BY <2>1 DEF Owned
  <2>3. o \in Stated /\ mem.heap[o] # FreeBlock
    BY <2>1, <2>2 DEF Stated, FreeBlock
  <2>4. \A p \in Block : mem.heap[p].state # o
    <3> SUFFICES ASSUME NEW p \in Block, mem.heap[p].state = o PROVE FALSE
      OBVIOUS
    <3>1. o # NULL /\ mem.heap[o] = Raw /\ Raw.state = NULL
      BY <2>1, StoreAssumption DEF Owned, Raw
    <3> QED  BY <2>1, <2>2, <3>1
  <2>5. o \in client
    BY <2>1, <2>3, <2>4 DEF Owned
  <2> QED  BY <2>2, <2>3, <2>5
<1> QED  BY <1>1, StoreInvTheorem, PTL

-----------------------------------------------------------------------------
(***************************************************************************)
(* Progress: lines are ended, and drawn to within a cell.                  *)
(***************************************************************************)

\* There is nothing where a bar shows nothing.
LEMMA NothingShown == NoBar \notin Impl /\ Null \notin Impl /\ Impl \subseteq Nat
  BY ProgressAssumption, FS_CardinalityType DEF Impl, NoBar, Null

\* Widths are natural numbers.
LEMMA WidthType == \A tw \in TerminalWidths : DefBarWidth(tw) \in Nat
  <1>1. TerminalWidths \subseteq Nat
    BY ProgressAssumption DEF TerminalWidths, DefaultWidth
  <1> QED  BY <1>1 DEF DefBarWidth

\* Every step keeps the types.
LEMMA BarTypes == BarTypeOK /\ [BarNext]_barVars => BarTypeOK'
  <1> SUFFICES ASSUME BarTypeOK, [BarNext]_barVars PROVE BarTypeOK'
    OBVIOUS
  <1> USE ProgressAssumption, NothingShown DEF BarTypeOK
  <1>1. ASSUME NEW b \in Bar, MakeBar(b) PROVE BarTypeOK'
    <2>1. 0 \in Fractions
      BY DEF Fractions
    <2> QED  BY <1>1, <2>1, WidthType DEF MakeBar
  <1>2. ASSUME NEW b \in Bar, NEW c \in Bar, CopyBar(b, c) PROVE BarTypeOK'
    BY <1>2 DEF CopyBar, Shows
  <1>3. ASSUME NEW b \in Bar, NEW c \in Bar, MoveBar(b, c) PROVE BarTypeOK'
    BY <1>3 DEF MoveBar
  <1>4. Void \in [fract : Fractions, width : Nat]
    BY DEF Void, Fractions
  <1>5. ASSUME NEW b \in Bar, NEW c \in Bar, AssignCopy(b, c) \/ AssignMove(b, c)
        PROVE BarTypeOK'
    <2>1. bars' \in [Bar -> {NoBar, Null} \cup Impl]
      BY <1>5 DEF AssignCopy, AssignMove
    <2>2. impl' \in [Impl -> [fract : Fractions, width : Nat]]
      BY <1>4, <1>5 DEF AssignCopy, AssignMove, Rebound, Unowned
    <2>3. unended' \in BOOLEAN /\ overwritten' \in BOOLEAN
      BY <1>5 DEF AssignCopy, AssignMove, Rebound
    <2> QED  BY <2>1, <2>2, <2>3
  <1>6. ASSUME NEW b \in Bar, SpinBar(b) PROVE BarTypeOK'
    <2>1. PICK by \in Fractions, r \in BOOLEAN :
             /\ impl' = [impl EXCEPT ![bars[b]].fract = IF by > Unit THEN Unit ELSE by]
             /\ unended' = (unended \/ r)
      BY <1>6 DEF SpinBar
    <2>2. (IF by > Unit THEN Unit ELSE by) \in Fractions
      BY DEF Fractions
    <2>3. bars[b] \in Impl
      BY <1>6 DEF SpinBar, Shows
    <2>4. impl' \in [Impl -> [fract : Fractions, width : Nat]]
      BY <2>1, <2>2, <2>3
    <2> QED  BY <1>6, <2>1, <2>4 DEF SpinBar
  <1>7. ASSUME NEW b \in Bar, SetBar(b) PROVE BarTypeOK'
    BY <1>7, WidthType DEF SetBar, Shows
  <1>8. ASSUME NEW b \in Bar, RenderBar(b) PROVE BarTypeOK'
    BY <1>8 DEF RenderBar
  <1>9. ASSUME NEW b \in Bar, DestroyBar(b) PROVE BarTypeOK'
    <2>1. impl' \in [Impl -> [fract : Fractions, width : Nat]]
      BY <1>4, <1>9 DEF DestroyBar, Unowned
    <2> QED  BY <1>9, <2>1 DEF DestroyBar
  <1>10. CASE UNCHANGED barVars
    BY <1>10 DEF barVars
  <1> QED
    BY <1>1, <1>2, <1>3, <1>5, <1>6, <1>7, <1>8, <1>9, <1>10
    DEF BarNext, MakeDyn, MakeDynCopy

\* While a line is not ended, a bar is left to end it.
LEMMA LineStep == BarTypeOK /\ LineEnded /\ [BarNext]_barVars => LineEnded'
  <1> SUFFICES ASSUME BarTypeOK, LineEnded, [BarNext]_barVars, unended', ~overwritten'
               PROVE  \E d \in Bar : Shows(d)'
    BY DEF LineEnded
  <1> USE NothingShown DEF BarTypeOK, Shows
  <1>1. ASSUME NEW b \in Bar, MakeBar(b) PROVE Shows(b)'
    BY <1>1 DEF MakeBar
  <1>2. ASSUME NEW b \in Bar, NEW c \in Bar, CopyBar(b, c) \/ MoveBar(b, c)
        PROVE \E d \in Bar : Shows(d)'
    <2>1. PICK d \in Bar : Shows(d)
      BY <1>2 DEF LineEnded, CopyBar, MoveBar
    <2>2. d # c
      BY <1>2, <2>1 DEF CopyBar, MoveBar
    <2>3. CASE CopyBar(b, c)
      BY <2>1, <2>2, <2>3 DEF CopyBar
    <2>4. CASE MoveBar(b, c)
      BY <2>1, <2>2, <2>4 DEF MoveBar
    <2> QED  BY <1>2, <2>3, <2>4
  <1>3. ASSUME NEW b \in Bar, NEW c \in Bar, AssignCopy(b, c) \/ AssignMove(b, c)
        PROVE \E d \in Bar : Shows(d)'
    <2>1. ~overwritten /\ ~(Shows(c) /\ ~Shows(b)) /\ unended
      BY <1>3 DEF AssignCopy, AssignMove, Rebound
    <2>2. PICK d \in Bar : Shows(d)
      BY <2>1 DEF LineEnded
    <2>3. CASE d = b \/ d = c
      BY <1>3, <2>1, <2>2, <2>3 DEF AssignCopy, AssignMove
    <2>4. CASE d # b /\ d # c
      BY <1>3, <2>2, <2>4 DEF AssignCopy, AssignMove
    <2> QED  BY <2>3, <2>4
  <1>4. ASSUME NEW b \in Bar, SpinBar(b) \/ SetBar(b) \/ RenderBar(b)
        PROVE \E d \in Bar : Shows(d)'
    BY <1>4 DEF SpinBar, SetBar, RenderBar
  <1>5. ASSUME NEW b \in Bar, DestroyBar(b) PROVE \E d \in Bar : Shows(d)'
    <2>1. PICK d \in Bar : Shows(d)
      BY <1>5 DEF DestroyBar, LineEnded
    <2>2. d # b
      BY <1>5, <2>1 DEF DestroyBar
    <2> QED  BY <1>5, <2>1, <2>2 DEF DestroyBar
  <1>6. CASE UNCHANGED barVars
    BY <1>6 DEF barVars, LineEnded
  <1> QED
    BY <1>1, <1>2, <1>3, <1>4, <1>5, <1>6 DEF BarNext, MakeDyn, MakeDynCopy

\* What the loop over the cells counts.
LEMMA HashCount ==
    ASSUME NEW w \in Nat, NEW cf \in Nat
    PROVE  Cardinality({ i \in 0 .. w - 1 : i <= cf }) = IF w <= cf + 1 THEN w ELSE cf + 1
  <1>1. CASE w <= cf + 1
    <2>1. { i \in 0 .. w - 1 : i <= cf } = 0 .. w - 1
      BY <1>1
    <2>2. Cardinality(0 .. w - 1) = w
      BY FS_Interval
    <2> QED  BY <1>1, <2>1, <2>2
  <1>2. CASE w > cf + 1
    <2>1. { i \in 0 .. w - 1 : i <= cf } = 0 .. cf
      BY <1>2
    <2>2. Cardinality(0 .. cf) = cf + 1
      BY FS_Interval
    <2>3. ~(w <= cf + 1)
      BY <1>2
    <2> QED  BY <2>1, <2>2, <2>3, Zenon
  <1> QED  BY <1>1, <1>2

\* floor() of a product, and what the clamp at the width leaves of it.
LEMMA Clamped ==
    ASSUME NEW w \in Nat, NEW f \in Nat, NEW u \in Nat \ {0}, NEW cf \in Nat,
           cf * u <= w * f, w * f < (cf + 1) * u, f <= u
    PROVE  LET h == IF w <= cf + 1 THEN w ELSE cf + 1
           IN  w * f <= u * h /\ u * h <= w * f + u
  <1>1. CASE w <= cf + 1
    <2>1. w * f <= u * w
      BY SMTT(30)
    <2>2. u * w <= u * (cf + 1)
      BY <1>1, SMTT(30)
    <2>3. u * (cf + 1) = cf * u + u
      BY SMTT(30)
    <2> QED  BY <1>1, <2>1, <2>2, <2>3
  <1>2. CASE w > cf + 1
    <2>1. (cf + 1) * u = cf * u + u /\ u * (cf + 1) = (cf + 1) * u
      BY SMTT(30)
    <2> QED  BY <1>2, <2>1
  <1> QED  BY <1>1, <1>2

\* Types are all it takes to draw a bar to within a cell.
LEMMA WithinOneCell == BarTypeOK => BarWithinOneCell
  <1> SUFFICES ASSUME BarTypeOK, NEW b \in Bar, Shows(b)
               PROVE  LET p == impl[bars[b]]
                      IN  /\ Hashes(p) <= p.width
                          /\ p.fract <= Unit => /\ p.width * p.fract <= Unit * Hashes(p)
                                                /\ Unit * Hashes(p) <= p.width * p.fract + Unit
    BY DEF BarWithinOneCell
  <1> DEFINE p == impl[bars[b]]
             w == p.width
             f == p.fract
             cf == (w * f) \div Unit
             h == IF w <= cf + 1 THEN w ELSE cf + 1
  <1>1. w \in Nat /\ f \in Nat /\ Unit \in Nat \ {0}
    BY ProgressAssumption DEF BarTypeOK, Shows, Fractions
  <1>2. w * f \in Nat
    BY <1>1
  <1>3. cf \in Nat /\ cf * Unit <= w * f /\ w * f < (cf + 1) * Unit
    <2> HIDE DEF w, f
    <2>1. \A x \in Nat, u \in Nat \ {0} :
             x \div u \in Nat /\ (x \div u) * u <= x /\ x < (x \div u + 1) * u
      BY SMTT(30)
    <2> QED  BY <1>1, <1>2, <2>1
  <1>4. Hashes(p) = h
    <2> HIDE DEF cf
    <2>1. Cardinality({ i \in 0 .. w - 1 : i <= cf }) = h
      BY <1>1, <1>3, HashCount
    <2> QED  BY <2>1 DEF Hashes, cf
  <1>5. h <= w
    <2> HIDE DEF cf, w
    <2> QED  BY <1>1, <1>3
  <1>6. f <= Unit => w * f <= Unit * h /\ Unit * h <= w * f + Unit
    <2> HIDE DEF cf, w, f
    <2> QED  BY <1>1, <1>3, Clamped
  <1> QED  BY <1>4, <1>5, <1>6

\* Types and the line are kept.
LEMMA BarInvariant == BarSpec => [](BarTypeOK /\ LineEnded)
  <1>1. BarInit => BarTypeOK /\ LineEnded
    <2> SUFFICES ASSUME BarInit PROVE BarTypeOK /\ LineEnded
      OBVIOUS
    <2>1. Void \in [fract : Fractions, width : Nat]
      BY ProgressAssumption DEF Void, Fractions
    <2>2. bars \in [Bar -> {NoBar, Null} \cup Impl]
      BY DEF BarInit
    <2>3. impl \in [Impl -> [fract : Fractions, width : Nat]]
      BY <2>1 DEF BarInit
    <2> QED  BY <2>2, <2>3 DEF BarInit, BarTypeOK, LineEnded
  <1>2. BarTypeOK /\ LineEnded /\ [BarNext]_barVars => (BarTypeOK /\ LineEnded)'
    BY BarTypes, LineStep
  <1> QED  BY <1>1, <1>2, PTL DEF BarSpec

(***************************************************************************)
(* A drawn line is ended when the last bar is gone, whatever was copied,    *)
(* moved and assigned, unless a moved-from bar overwrote one (perc.cpp      *)
(* 92-117).                                                                 *)
(***************************************************************************)
THEOREM LineEndedTheorem == BarSpec => []LineEnded
  BY BarInvariant, PTL

(***************************************************************************)
(* A bar of any width is drawn to within one cell of its fraction (perc.cpp *)
(* 52-82).                                                                  *)
(***************************************************************************)
THEOREM WithinOneCellTheorem == BarSpec => []BarWithinOneCell
  BY BarInvariant, WithinOneCell, PTL

=============================================================================
