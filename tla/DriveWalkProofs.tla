------------------------------ MODULE DriveWalkProofs ------------------------------
(***************************************************************************)
(* Proofs about DriveWalk, for any tree, any page size and any number of   *)
(* changes: types; that a walk nobody disturbs is a snapshot; that paths   *)
(* follow parents, whatever the walk found.                                *)
(***************************************************************************)
EXTENDS DriveWalk, SequenceTheorems, LeastNatural

-----------------------------------------------------------------------------
(* Types *)

Places == Folders \cup {Root}
Entries == [node : Nodes, parent : Places, active : BOOLEAN]
Frames == [folder : Places, left : Seq(Entries)]

ServerOK == parent \in [Nodes -> Places] /\ trashed \subseteq Nodes /\ changes \in Nat
StackType == stack \in Seq(Frames)
ItemsType == items \in Seq(Entries)
PhaseType ==
  /\ pc \in {"idle", "list", "visit", "resolve", "done", "stalled"}
  /\ pc \in {"list", "visit"} <=> stack # <<>>
  /\ page \in Nat
SetsType == kr \subseteq Places /\ stayed \subseteq Nodes

TypeInv == ServerOK /\ StackType /\ ItemsType /\ PhaseType /\ SetsType

LEMMA TypeFollows == TypeInv => TypeOK
<1> SUFFICES ASSUME TypeInv PROVE TypeOK
  OBVIOUS
<1>1. \A i \in DOMAIN stack : stack[i].folder \in Places
  <2> SUFFICES ASSUME NEW i \in DOMAIN stack PROVE stack[i].folder \in Places
    OBVIOUS
  <2>1. stack \in Seq(Frames)
    BY DEF TypeInv, StackType
  <2>2. stack[i] \in Frames
    BY <2>1, LenProperties, ElementOfSeq
  <2> QED BY <2>2 DEF Frames
<1>2. \A i \in DOMAIN items : items[i].node \in Nodes
  <2> SUFFICES ASSUME NEW i \in DOMAIN items PROVE items[i].node \in Nodes
    OBVIOUS
  <2>1. items \in Seq(Entries)
    BY DEF TypeInv, ItemsType
  <2>2. items[i] \in Entries
    BY <2>1, LenProperties, ElementOfSeq
  <2> QED BY <2>2 DEF Entries
<1> QED BY <1>1, <1>2 DEF TypeInv, ServerOK, PhaseType, SetsType, TypeOK, Places

\* What the server lists of a folder: each link in it, once.
LEMMA ChildrenListed ==
  ASSUME NEW f
  PROVE  /\ Children(f) \in Seq(Nodes)
         /\ \A n \in Nodes : parent[n] = f =>
              \E i \in 1..Len(Children(f)) : Children(f)[i] = n
         /\ \A i \in 1..Len(Children(f)) : parent[Children(f)[i]] = f
         /\ \A i, j \in 1..Len(Children(f)) :
              Children(f)[i] = Children(f)[j] => i = j
<1> DEFINE S == {n \in Nodes : parent[n] = f}
<1>1. S \in SUBSET Nodes
  OBVIOUS
<1>2. /\ Children(f) \in Seq(Nodes)
      /\ Range(Children(f)) = S
      /\ IsInjective(Children(f))
  <2>1. Children(f) = ListOrder[S]
    BY DEF Children
  <2> QED
    <3> HIDE DEF S
    <3> QED BY <1>1, <2>1, OrderAssumption
<1>3. DOMAIN Children(f) = 1..Len(Children(f))
  BY <1>2, LenProperties
<1>4. \A n : n \in S <=> \E i \in 1..Len(Children(f)) : Children(f)[i] = n
  <2> HIDE DEF S
  <2> QED BY <1>2, <1>3 DEF Range
<1>5. \A i, j \in 1..Len(Children(f)) : Children(f)[i] = Children(f)[j] => i = j
  BY <1>2, <1>3 DEF IsInjective
<1>6. \A i \in 1..Len(Children(f)) : Children(f)[i] \in S
  <2> HIDE DEF S
  <2> QED BY <1>4
<1> QED BY <1>2, <1>4, <1>5, <1>6

\* A page is a stretch of the folder's children.
Until(f, k) ==
  IF (k + 1) * PageSize < Len(Children(f)) THEN (k + 1) * PageSize
                                           ELSE Len(Children(f))

LEMMA PageListed ==
  ASSUME parent \in [Nodes -> Places], NEW f \in Places, NEW k \in Nat
  PROVE  /\ PageOf(f, k) \in Seq(Entries)
         /\ k * PageSize <= Len(Children(f)) =>
              Len(PageOf(f, k)) = Until(f, k) - k * PageSize
         /\ \A i \in 1..Len(PageOf(f, k)) :
              LET n == Children(f)[k * PageSize + i]
              IN  PageOf(f, k)[i] =
                    [node |-> n, parent |-> f, active |-> n \notin trashed]
<1> DEFINE kids == Children(f)
           base == k * PageSize
           len == Until(f, k) - base
           E(i) == [node |-> kids[base + i], parent |-> f,
                    active |-> kids[base + i] \notin trashed]
<1>1. kids \in Seq(Nodes) /\ Len(kids) \in Nat
  BY ChildrenListed, LenProperties
<1>2. base \in Nat /\ (k + 1) * PageSize \in Nat
  BY PageAssumption
<1>3. Until(f, k) \in Nat /\ Until(f, k) <= Len(kids) /\ len \in Int
  BY <1>1, <1>2 DEF Until
<1>4. \A i \in 1..len : E(i) \in Entries
  <2> SUFFICES ASSUME NEW i \in 1..len PROVE E(i) \in Entries
    OBVIOUS
  <2>1. base + i \in 1..Len(kids)
    <3> HIDE DEF base, kids
    <3> QED BY <1>1, <1>2, <1>3
  <2>2. kids[base + i] \in Nodes
    <3> HIDE DEF base, kids
    <3> QED BY <1>1, <2>1, ElementOfSeq
  <2>3. (kids[base + i] \notin trashed) \in BOOLEAN
    BY SMT
  <2> QED
    <3> HIDE DEF base, kids
    <3> QED BY <2>2, <2>3 DEF Entries
<1>5. PageOf(f, k) = [i \in 1..len |-> E(i)]
  BY DEF PageOf, Until
<1>6. CASE len >= 0
  <2>1. len \in Nat
    BY <1>3, <1>6
  <2>2. PageOf(f, k) \in Seq(Entries)
    <3> HIDE DEF len, E
    <3> QED BY <1>4, <1>5, <2>1, IsASeq
  <2>3. Len(PageOf(f, k)) = len
    <3>1. DOMAIN PageOf(f, k) = 1..len
      BY <1>5
    <3>2. DOMAIN PageOf(f, k) = 1..Len(PageOf(f, k)) /\ Len(PageOf(f, k)) \in Nat
      BY <2>2, LenProperties
    <3> HIDE DEF len
    <3> QED BY <2>1, <3>1, <3>2
  <2> QED
    <3>1. \A i \in 1..Len(PageOf(f, k)) : PageOf(f, k)[i] = E(i)
      <4> HIDE DEF len, E
      <4> QED BY <1>5, <2>3
    <3> QED BY <2>2, <2>3, <3>1
<1>7. CASE len < 0
  <2>1. PageOf(f, k) = [i \in 1..0 |-> E(i)]
    <3>1. 1..len = 1..0
      <4> HIDE DEF len
      <4> QED BY <1>3, <1>7
    <3> QED BY <1>5, <3>1
  <2>2. PageOf(f, k) = <<>>
    <3> HIDE DEF E
    <3> QED BY <2>1
  <2>3. ~(base <= Len(kids))
    <3>1. Until(f, k) < base
      <4> HIDE DEF base
      <4> QED BY <1>2, <1>3, <1>7
    <3>2. base <= (k + 1) * PageSize
      BY PageAssumption
    <3> HIDE DEF base
    <3> QED BY <1>1, <1>2, <3>1, <3>2 DEF Until
  <2> QED BY <2>2, <2>3, EmptySeq
<1> HIDE DEF len
<1> QED BY <1>3, <1>6, <1>7

-----------------------------------------------------------------------------
(* What the steps do to the folders being walked *)

\* The innermost folder's list of children is replaced.
LEMMA LeftReplaced ==
  ASSUME NEW s \in Seq(Frames), s # <<>>, NEW new \in Seq(Entries),
         NEW to, to = [s EXCEPT ![1].left = new]
  PROVE  /\ to \in Seq(Frames) /\ to # <<>>
         /\ Len(to) = Len(s)
         /\ to[1].folder = s[1].folder /\ to[1].left = new
         /\ \A j \in 2..Len(s) : to[j] = s[j]
<1>1. Len(s) \in Nat /\ Len(s) # 0 /\ 1 \in 1..Len(s) /\ DOMAIN s = 1..Len(s)
  BY EmptySeq, LenProperties
<1>2. s[1] \in Frames
  BY <1>1, ElementOfSeq
<1> DEFINE top == [s[1] EXCEPT !.left = new]
<1>3. top \in Frames /\ top.folder = s[1].folder /\ top.left = new
  BY <1>2 DEF Frames
<1>4. to = [s EXCEPT ![1] = top]
  OBVIOUS
<1> HIDE DEF top
<1>5. /\ to \in Seq(Frames) /\ Len(to) = Len(s)
      /\ \A j \in 1..Len(s) : to[j] = IF j = 1 THEN top ELSE s[j]
  <2>1. \A i \in 1..Len(s) : \A e \in Frames :
          /\ [s EXCEPT ![i] = e] \in Seq(Frames)
          /\ Len([s EXCEPT ![i] = e]) = Len(s)
          /\ \A j \in 1..Len(s) : [s EXCEPT ![i] = e][j] = IF j = i THEN e ELSE s[j]
    BY ExceptSeq
  <2> QED BY <1>1, <1>3, <1>4, <2>1
<1>6. to # <<>>
  BY <1>1, <1>5, EmptySeq
<1> QED BY <1>1, <1>3, <1>5, <1>6

\* A folder is entered.
LEMMA FrameEntered ==
  ASSUME NEW s \in Seq(Frames), NEW fr \in Frames,
         NEW to, to = <<fr>> \o s
  PROVE  /\ to \in Seq(Frames) /\ to # <<>>
         /\ Len(to) = Len(s) + 1
         /\ to[1] = fr
         /\ \A j \in 1..Len(s) : to[j + 1] = s[j]
<1>1. <<fr>> \in Seq(Frames) /\ Len(<<fr>>) = 1 /\ <<fr>>[1] = fr
  OBVIOUS
<1>2. Len(s) \in Nat
  BY LenProperties
<1>3. /\ to \in Seq(Frames) /\ Len(to) = 1 + Len(s)
      /\ \A i \in 1..1 + Len(s) : to[i] = IF i <= 1 THEN <<fr>>[i] ELSE s[i - 1]
  BY <1>1, ConcatProperties
<1>4. to # <<>>
  BY <1>2, <1>3, EmptySeq
<1>5. \A j \in 1..Len(s) : to[j + 1] = s[j]
  <2> SUFFICES ASSUME NEW j \in 1..Len(s) PROVE to[j + 1] = s[j]
    OBVIOUS
  <2>1. j + 1 \in 1..1 + Len(s) /\ ~(j + 1 <= 1) /\ (j + 1) - 1 = j
    BY <1>2
  <2> QED BY <1>3, <2>1
<1> QED BY <1>1, <1>2, <1>3, <1>4, <1>5

\* What a state has at the top of the stack.
LEMMA TopOfStack ==
  ASSUME NEW s \in Seq(Frames), s # <<>>
  PROVE  /\ Head(s) = s[1] /\ s[1] \in Frames /\ 1 \in 1..Len(s)
         /\ s[1].left \in Seq(Entries) /\ s[1].folder \in Places
<1>1. Len(s) \in Nat /\ Len(s) # 0 /\ 1 \in 1..Len(s)
  BY EmptySeq, LenProperties
<1>2. s[1] \in Frames
  BY <1>1, ElementOfSeq
<1>3. Head(s) = s[1]
  OBVIOUS
<1> QED BY <1>1, <1>2, <1>3 DEF Frames

\* The next child of the innermost folder, and what is left of it.
LEMMA NextChild ==
  ASSUME NEW s \in Seq(Frames), s # <<>>, s[1].left # <<>>
  PROVE  /\ s[1].left[1] \in Entries /\ Head(s[1].left) = s[1].left[1]
         /\ Tail(s[1].left) \in Seq(Entries)
         /\ Len(s[1].left) \in Nat /\ 1 \in 1..Len(s[1].left)
         /\ Len(Tail(s[1].left)) = Len(s[1].left) - 1
         /\ \A i \in 1..Len(s[1].left) - 1 : Tail(s[1].left)[i] = s[1].left[i + 1]
<1>1. s[1].left \in Seq(Entries)
  BY TopOfStack
<1> DEFINE l == s[1].left
<1> HIDE DEF l
<1>2. l \in Seq(Entries) /\ l # <<>>
  BY <1>1 DEF l
<1>3. Len(l) \in Nat /\ Len(l) # 0 /\ 1 \in 1..Len(l)
  BY <1>2, EmptySeq, LenProperties
<1>4. l[1] \in Entries
  BY <1>2, <1>3, ElementOfSeq
<1>5. Head(l) = l[1]
  OBVIOUS
<1>6. /\ Tail(l) \in Seq(Entries) /\ Len(Tail(l)) = Len(l) - 1
      /\ \A i \in 1..Len(Tail(l)) : Tail(l)[i] = l[i + 1]
  BY <1>2, HeadTailProperties
<1> QED BY <1>3, <1>4, <1>5, <1>6 DEF l

-----------------------------------------------------------------------------
(* Type correctness *)

LEMMA InitTypes == Init => TypeInv
<1> SUFFICES ASSUME Init PROVE TypeInv
  OBVIOUS
<1>1. ServerOK
  BY DEF Init, ServerOK, Places
<1>2. stack = <<>> /\ items = <<>> /\ pc = "idle" /\ page = 0
  BY DEF Init
<1>3. StackType /\ ItemsType /\ PhaseType
  BY <1>2, EmptySeq DEF StackType, ItemsType, PhaseType
<1> QED BY <1>1, <1>3 DEF Init, TypeInv, SetsType

LEMMA ReachableNodes ==
  ASSUME NEW up, NEW trash
  PROVE  Reachable(up, trash) \subseteq Nodes
  BY DEF Reachable

LEMMA EndTypes ==
  ASSUME NEW at \in {"idle", "stalled"}, LeavePass(at)
  PROVE  StackType' /\ ItemsType' /\ PhaseType' /\ SetsType'
<1>1. /\ stack' = <<>> /\ items' = <<>> /\ page' = 0 /\ kr' = {} /\ stayed' = {}
      /\ pc' \in {"idle", "stalled"}
  BY DEF LeavePass
<1> QED BY <1>1, EmptySeq DEF StackType, ItemsType, PhaseType, SetsType

LEMMA ListTypes == TypeInv /\ ListPage => TypeInv'
<1> SUFFICES ASSUME TypeInv, ListPage PROVE TypeInv'
  OBVIOUS
<1>0. ServerOK /\ StackType /\ ItemsType /\ PhaseType /\ SetsType
  BY DEF TypeInv
<1>1. pc = "list" /\ stack \in Seq(Frames) /\ stack # <<>>
  BY <1>0 DEF ListPage, StackType, PhaseType
<1> DEFINE got == PageOf(Head(stack).folder, page)
           new == stack[1].left \o got
<1>2. /\ stack' = [stack EXCEPT ![1].left = new]
      /\ pc' \in {"list", "visit"} /\ (page' = 0 \/ page' = page + 1)
      /\ UNCHANGED <<server, items, kr, paths, stayed>>
  BY DEF ListPage
<1>3. new \in Seq(Entries)
  <2>1. stack[1].left \in Seq(Entries) /\ Head(stack).folder \in Places
    BY <1>1, TopOfStack
  <2>2. got \in Seq(Entries)
    BY <1>0, <2>1, PageListed DEF ServerOK, PhaseType
  <2> HIDE DEF got
  <2> QED BY <2>1, <2>2, ConcatProperties
<1> HIDE DEF new
<1>4. stack' \in Seq(Frames) /\ stack' # <<>>
  BY <1>1, <1>2, <1>3, LeftReplaced
<1>5. PhaseType'
  BY <1>0, <1>2, <1>4 DEF PhaseType
<1> QED BY <1>0, <1>2, <1>4, <1>5 DEF TypeInv, ServerOK, StackType, ItemsType, SetsType, server

LEMMA VisitTypes == \A unlocked \in BOOLEAN : TypeInv /\ Visit(unlocked) => TypeInv'
<1> SUFFICES ASSUME NEW unlocked \in BOOLEAN, TypeInv, Visit(unlocked) PROVE TypeInv'
  OBVIOUS
<1>0. ServerOK /\ StackType /\ ItemsType /\ PhaseType /\ SetsType
  BY DEF TypeInv
<1>1. /\ pc = "visit" /\ stack \in Seq(Frames) /\ stack # <<>>
      /\ Head(stack) = stack[1]
  BY <1>0, TopOfStack DEF Visit, StackType, PhaseType
<1>2. stack[1].left # <<>>
  BY <1>1 DEF Visit
<1> DEFINE x == Head(stack[1].left)
           rest == [stack EXCEPT ![1].left = Tail(stack[1].left)]
           fr == [folder |-> x.node, left |-> <<>>]
<1>3. x \in Entries /\ Tail(stack[1].left) \in Seq(Entries)
  BY <1>1, <1>2, NextChild
<1>4. rest \in Seq(Frames) /\ rest # <<>>
  BY <1>1, <1>3, LeftReplaced
<1>5. /\ items' = Append(items, x)
      /\ unlocked => x.node \in Folders
      /\ unlocked => kr' = kr \cup {x.node} /\ stack' = <<fr>> \o rest /\ pc' = "list" /\ stayed' = stayed
      /\ ~unlocked => stack' = rest /\ stayed' \subseteq stayed /\ kr' = kr /\ pc' = pc
      /\ UNCHANGED <<server, page>>
  <2>1. rest = [stack EXCEPT ![1].left = Tail(@)]
    OBVIOUS
  <2> HIDE DEF rest
  <2> QED BY <1>1, <2>1 DEF Visit
<1> HIDE DEF x, rest
<1>6. items' \in Seq(Entries)
  BY <1>0, <1>3, <1>5, AppendProperties DEF ItemsType
<1>7. stack' \in Seq(Frames) /\ stack' # <<>>
  <2>1. CASE unlocked
    <3>1. fr \in Frames
      BY <1>5, <2>1, EmptySeq DEF Frames, Places
    <3> HIDE DEF fr
    <3> QED BY <1>4, <1>5, <2>1, <3>1, FrameEntered
  <2>2. CASE ~unlocked
    BY <1>4, <1>5, <2>2
  <2> QED BY <2>1, <2>2
<1>8. PhaseType'
  BY <1>0, <1>1, <1>5, <1>7 DEF PhaseType
<1>9. SetsType'
  BY <1>0, <1>5 DEF SetsType, Places
<1> QED BY <1>0, <1>5, <1>6, <1>7, <1>8, <1>9 DEF TypeInv, ServerOK, StackType, ItemsType, server

LEMMA ReturnTypes == TypeInv /\ Return => TypeInv'
<1> SUFFICES ASSUME TypeInv, Return PROVE TypeInv'
  OBVIOUS
<1>0. ServerOK /\ StackType /\ ItemsType /\ PhaseType /\ SetsType
  BY DEF TypeInv
<1>1. pc = "visit" /\ stack \in Seq(Frames) /\ stack # <<>>
  BY <1>0 DEF Return, StackType, PhaseType
<1>2. /\ stack' = Tail(stack) /\ pc' = (IF Len(stack) = 1 THEN "resolve" ELSE "visit")
      /\ UNCHANGED <<server, page, items, kr, paths, stayed>>
  BY DEF Return
<1>3. stack' \in Seq(Frames) /\ Len(stack') = Len(stack) - 1 /\ Len(stack) \in Nat
  BY <1>1, <1>2, HeadTailProperties, LenProperties
<1>4. stack' # <<>> <=> Len(stack) # 1
  BY <1>3, EmptySeq
<1>5. PhaseType'
  BY <1>0, <1>2, <1>4 DEF PhaseType
<1> QED BY <1>0, <1>2, <1>3, <1>5 DEF TypeInv, ServerOK, StackType, ItemsType, SetsType, server

\* Other devices keep the tree's links in its folders.
LEMMA ServerTypes ==
  TypeInv => /\ \A n \in Nodes, f \in Places : Move(n, f) => TypeInv'
             /\ \A n \in Nodes : Trash(n) => TypeInv'
<1> SUFFICES ASSUME TypeInv
             PROVE  /\ \A n \in Nodes, f \in Places : Move(n, f) => TypeInv'
                    /\ \A n \in Nodes : Trash(n) => TypeInv'
  OBVIOUS
<1>0. ServerOK /\ StackType /\ ItemsType /\ PhaseType /\ SetsType
  BY DEF TypeInv
<1>1. ASSUME NEW n \in Nodes, NEW f \in Places, Move(n, f) PROVE TypeInv'
  <2>1. ServerOK'
    BY <1>0, <1>1 DEF Move, ServerOK
  <2>2. UNCHANGED <<pc, stack, page, items, kr>> /\ stayed' \subseteq stayed
    BY <1>1 DEF Move, walk
  <2> QED BY <1>0, <2>1, <2>2 DEF TypeInv, StackType, ItemsType, PhaseType, SetsType
<1>2. ASSUME NEW n \in Nodes, Trash(n) PROVE TypeInv'
  <2>1. ServerOK'
    BY <1>0, <1>2 DEF Trash, ServerOK
  <2>2. UNCHANGED <<pc, stack, page, items, kr>> /\ stayed' \subseteq stayed
    BY <1>2 DEF Trash, walk
  <2> QED BY <1>0, <2>1, <2>2 DEF TypeInv, StackType, ItemsType, PhaseType, SetsType
<1> QED BY <1>1, <1>2

LEMMA StartTypes == TypeInv /\ StartWalk => TypeInv'
<1> SUFFICES ASSUME TypeInv, StartWalk PROVE TypeInv'
  OBVIOUS
<1>0. ServerOK /\ StackType /\ ItemsType /\ PhaseType /\ SetsType
  BY DEF TypeInv
<1> DEFINE fr == [folder |-> Root, left |-> <<>>]
<1>1. /\ stack' = <<fr>> /\ pc' = "list" /\ kr' = {Root} /\ stayed' \subseteq Nodes
      /\ UNCHANGED <<server, page, items>>
  BY ReachableNodes DEF StartWalk
<1>2. fr \in Frames
  BY EmptySeq DEF Frames, Places
<1>3. stack' \in Seq(Frames) /\ stack' # <<>>
  <2> HIDE DEF fr
  <2> QED BY <1>1, <1>2
<1>4. PhaseType'
  BY <1>0, <1>1, <1>3 DEF PhaseType
<1> QED BY <1>0, <1>1, <1>3, <1>4 DEF TypeInv, ServerOK, StackType, ItemsType, SetsType, server, Places

LEMMA TypeStep == TypeInv /\ [Next]_vars => TypeInv'
<1> SUFFICES ASSUME TypeInv, [Next]_vars PROVE TypeInv'
  OBVIOUS
<1>1. CASE \E n \in Nodes, f \in Folders \cup {Root} : Move(n, f)
  BY <1>1, ServerTypes DEF Places
<1>2. CASE \E n \in Nodes : Trash(n)
  BY <1>2, ServerTypes
<1>3. CASE StartWalk
  BY <1>3, StartTypes
<1>4. CASE ListPage
  BY <1>4, ListTypes
<1>5. CASE ListFails \/ Stall \/ FinishPass \/ Crash
  <2>1. PICK at \in {"idle", "stalled"} : LeavePass(at) /\ UNCHANGED server
    BY <1>5 DEF ListFails, Stall, FinishPass, Crash
  <2> QED BY <2>1, EndTypes DEF TypeInv, ServerOK, server
<1>6. CASE \E unlocked \in BOOLEAN : Visit(unlocked)
  BY <1>6, VisitTypes
<1>7. CASE Return
  BY <1>7, ReturnTypes
<1>8. CASE Resolve
  BY <1>8 DEF Resolve, TypeInv, ServerOK, StackType, ItemsType, PhaseType, SetsType, server
<1>9. CASE UNCHANGED vars
  BY <1>9 DEF vars, server, walk, TypeInv, ServerOK, StackType, ItemsType, PhaseType, SetsType
<1> QED BY <1>1, <1>2, <1>3, <1>4, <1>5, <1>6, <1>7, <1>8, <1>9 DEF Next, WalkStep

\* Every state of the walk has the types its structures declare: a folder is
\* unlocked before it is entered, so only folders' keys are in the keyring.
THEOREM TypeCorrect == Spec => []TypeOK
<1>1. Spec => []TypeInv
  BY InitTypes, TypeStep, PTL DEF Spec
<1> QED BY <1>1, TypeFollows, PTL

-----------------------------------------------------------------------------
(* The undisturbed walk                                                    *)
(*                                                                         *)
(* What has been found hangs together up to the root; what is still to be  *)
(* visited is below it and was not found before; and a link whose parent   *)
(* was found, and which is not found itself, is waiting in that parent's   *)
(* list, unless a key below which it is did not unlock.                    *)

OneEach(es) == \A i, j \in 1..Len(es) : es[i].node = es[j].node => i = j
Undone(fr) == {fr.left[i].node : i \in 1..Len(fr.left)}

\* A folder of the stack was found, and what is left of it is its children.
FrameOK(fr, up, seen) ==
  /\ fr.folder \in seen \cup {Root}
  /\ \A i \in 1..Len(fr.left) :
       /\ fr.left[i].parent = fr.folder
       /\ up[fr.left[i].node] = fr.folder
       /\ fr.left[i].active
       /\ fr.left[i].node \notin seen
  /\ OneEach(fr.left)

StackShape(s, up, seen) ==
  /\ \A j \in 1..Len(s) : FrameOK(s[j], up, seen)
  /\ \A i, j \in 1..Len(s) : s[i].folder = s[j].folder => i = j

\* n is to be visited, or its folder is the one being listed.
Waits(s, up, n, listing) ==
  \E j \in 1..Len(s) :
    /\ s[j].folder = up[n]
    /\ n \in Undone(s[j]) \/ (j = 1 /\ listing)

FoundOK ==
  /\ \A i \in 1..Len(items) :
       /\ items[i].parent = parent[items[i].node]
       /\ items[i].parent \in Found \cup {Root}
  /\ OneEach(items)
StackOK == StackShape(stack, parent, Found)
ListOK ==
  pc = "list" =>
    /\ \A n \in Nodes : parent[n] = stack[1].folder => n \notin Found
    /\ Len(stack[1].left) = page * PageSize
    /\ Len(stack[1].left) <= Len(Children(stack[1].folder))
    /\ \A i \in 1..Len(stack[1].left) :
         stack[1].left[i].node = Children(stack[1].folder)[i]
Covered ==
  \A n \in stayed \ Found :
    parent[n] \in Found \cup {Root} => Waits(stack, parent, n, pc = "list")
StayedUp == \A n \in stayed : parent[n] \in stayed \cup {Root}

PhaseOK ==
  /\ pc = "idle" => stack = <<>> /\ items = <<>> /\ stayed = {}
  /\ pc # "list" => page = 0
TreeOK == IsTree(parent) /\ trashed = {}
Quiet == TreeOK /\ FoundOK /\ StackOK /\ ListOK /\ Covered /\ StayedUp

QuietInv == TypeInv /\ PhaseOK /\ (changes = 0 => Quiet)

\* The links found, when one more is visited.
LEMMA OneMoreFound ==
  ASSUME NEW x \in Entries, ItemsType, items' = Append(items, x)
  PROVE  /\ Found' = Found \cup {x.node}
         /\ Len(items') = Len(items) + 1 /\ Len(items) \in Nat
         /\ items'[Len(items) + 1] = x
         /\ \A i \in 1..Len(items) : items'[i] = items[i]
<1>1. /\ items \in Seq(Entries) /\ Len(items) \in Nat
      /\ DOMAIN items = 1..Len(items)
  BY LenProperties DEF ItemsType
<1>2. /\ items' \in Seq(Entries) /\ Len(items') = Len(items) + 1
      /\ \A i \in 1..Len(items) : items'[i] = items[i]
      /\ items'[Len(items) + 1] = x
  BY <1>1, AppendProperties
<1>3. DOMAIN items' = 1..Len(items) + 1
  BY <1>2, LenProperties
<1>4. Found' = {items'[i].node : i \in 1..Len(items) + 1}
  BY <1>3 DEF Found
<1>5. Found = {items[i].node : i \in 1..Len(items)}
  BY <1>1 DEF Found
<1>6. 1..Len(items) + 1 = (1..Len(items)) \cup {Len(items) + 1}
  BY <1>1
<1> QED BY <1>1, <1>2, <1>4, <1>5, <1>6

\* What is found is what the entries name.
LEMMA FoundIndex ==
  ASSUME ItemsType
  PROVE  /\ Found \subseteq Nodes
         /\ \A n : n \in Found <=> \E i \in 1..Len(items) : items[i].node = n
<1>1. items \in Seq(Entries) /\ DOMAIN items = 1..Len(items)
  BY LenProperties DEF ItemsType
<1>2. \A i \in 1..Len(items) : items[i] \in Entries
  BY <1>1, ElementOfSeq
<1>3. \A i \in 1..Len(items) : items[i].node \in Nodes
  BY <1>2 DEF Entries
<1> QED BY <1>1, <1>3 DEF Found

-----------------------------------------------------------------------------
(* The folders above a link *)

LEMMA AboveSelf ==
  ASSUME NEW up, NEW x \in Folders
  PROVE  x \in Above(up, x)
  BY LinkAssumption DEF Above

\* What is above a folder's parent is above the folder.
LEMMA AboveParent ==
  ASSUME NEW up \in [Nodes -> Places], NEW p \in Folders
  PROVE  Above(up, up[p]) \subseteq Above(up, p)
<1> SUFFICES ASSUME NEW m \in Above(up, up[p]) PROVE m \in Above(up, p)
  OBVIOUS
<1>1. up[p] \in Places /\ p # Root
  BY LinkAssumption DEF Nodes
<1>2. m \in Folders /\ m # Root
  BY <1>1 DEF Above, Places
<1>3. ASSUME NEW S \in SUBSET (Folders \cup {p, Root}), p \in S, UpwardClosed(up, S)
      PROVE  m \in S
  <2>1. up[p] \in S
    BY <1>1, <1>3 DEF UpwardClosed
  <2>2. S \in SUBSET (Folders \cup {up[p], Root})
    OBVIOUS
  <2> QED BY <1>3, <2>1, <2>2 DEF Above
<1> QED BY <1>2, <1>3 DEF Above

LEMMA AllReachable ==
  ASSUME NEW up
  PROVE  Reachable(up, {}) = Nodes
  BY DEF Reachable

-----------------------------------------------------------------------------
(* The stack's shape, step by step *)

\* The innermost folder's list is replaced: by what was listed so far, or by
\* what is left of it once x was visited.
LEMMA ShapeReplaced ==
  ASSUME NEW s \in Seq(Frames), s # <<>>, NEW new \in Seq(Entries),
         NEW to, to = [s EXCEPT ![1].left = new],
         NEW up, NEW seen, NEW more, seen \subseteq more,
         StackShape(s, up, seen),
         \A j \in 2..Len(s) : Undone(s[j]) \cap more = {},
         \A i \in 1..Len(new) :
           /\ new[i].parent = s[1].folder
           /\ up[new[i].node] = s[1].folder
           /\ new[i].active
           /\ new[i].node \notin more,
         OneEach(new)
  PROVE  StackShape(to, up, more)
<1>1. /\ Len(to) = Len(s) /\ to[1].folder = s[1].folder /\ to[1].left = new
      /\ \A j \in 2..Len(s) : to[j] = s[j]
      /\ Len(s) \in Nat /\ 1 \in 1..Len(s)
  BY LeftReplaced, LenProperties, TopOfStack
<1>2. \A j \in 1..Len(s) : to[j].folder = s[j].folder
  BY <1>1
<1>3. FrameOK(to[1], up, more)
  BY <1>1 DEF StackShape, FrameOK
<1>4. ASSUME NEW j \in 2..Len(s) PROVE FrameOK(to[j], up, more)
  <2>1. j \in 1..Len(s) /\ to[j] = s[j]
    BY <1>1
  <2>2. FrameOK(s[j], up, seen)
    BY <2>1 DEF StackShape
  <2>3. \A i \in 1..Len(s[j].left) : s[j].left[i].node \notin more
    BY DEF Undone
  <2> QED BY <2>1, <2>2, <2>3 DEF FrameOK
<1>5. \A j \in 1..Len(to) : FrameOK(to[j], up, more)
  BY <1>1, <1>3, <1>4
<1>6. \A i, j \in 1..Len(to) : to[i].folder = to[j].folder => i = j
  BY <1>1, <1>2 DEF StackShape
<1> QED BY <1>5, <1>6 DEF StackShape

\* The first child of the innermost folder is visited.
VisitedShape(s, x, rest, up, seen) ==
  /\ StackShape(rest, up, seen \cup {x.node})
  /\ \A n : n \notin seen \cup {x.node} /\ Waits(s, up, n, FALSE)
              => Waits(rest, up, n, FALSE)
  /\ x.active /\ x.parent = s[1].folder /\ up[x.node] = s[1].folder
  /\ x.node \notin seen /\ s[1].folder \in seen \cup {Root}
  /\ \A j \in 1..Len(rest) : rest[j].folder \in seen \cup {Root}

LEMMA ShapeVisited ==
  ASSUME NEW s \in Seq(Frames), s # <<>>, s[1].left # <<>>,
         NEW x, x = s[1].left[1],
         NEW rest, rest = [s EXCEPT ![1].left = Tail(s[1].left)],
         NEW up, NEW seen, StackShape(s, up, seen)
  PROVE  VisitedShape(s, x, rest, up, seen)
<1> DEFINE l == s[1].left
           t == Tail(s[1].left)
<1>1. /\ l \in Seq(Entries) /\ t \in Seq(Entries) /\ Len(l) \in Nat /\ 1 \in 1..Len(l)
      /\ Len(t) = Len(l) - 1
      /\ \A i \in 1..Len(l) - 1 : t[i] = l[i + 1]
  BY NextChild, TopOfStack
<1>2. Len(s) \in Nat /\ 1 \in 1..Len(s)
  BY TopOfStack, LenProperties
<1>3. FrameOK(s[1], up, seen)
  BY <1>2 DEF StackShape
<1>4. /\ x.active /\ x.parent = s[1].folder /\ up[x.node] = s[1].folder
      /\ x.node \notin seen /\ s[1].folder \in seen \cup {Root}
  BY <1>1, <1>3 DEF FrameOK
<1>5. ASSUME NEW j \in 2..Len(s) PROVE Undone(s[j]) \cap (seen \cup {x.node}) = {}
  <2>1. j \in 1..Len(s) /\ j # 1
    BY <1>2
  <2>2. s[j].folder # s[1].folder /\ FrameOK(s[j], up, seen)
    BY <1>2, <2>1 DEF StackShape
  <2> QED BY <1>4, <2>2 DEF Undone, FrameOK
<1>6. ASSUME NEW i \in 1..Len(t)
      PROVE  /\ t[i].parent = s[1].folder
             /\ up[t[i].node] = s[1].folder
             /\ t[i].active
             /\ t[i].node \notin seen \cup {x.node}
  <2>1. i + 1 \in 1..Len(l) /\ i + 1 # 1 /\ t[i] = l[i + 1]
    <3> HIDE DEF l, t
    <3> QED BY <1>1
  <2>2. l[i + 1].node # l[1].node
    BY <1>1, <1>3, <2>1 DEF FrameOK, OneEach
  <2> QED BY <1>3, <2>1, <2>2 DEF FrameOK
<1>7. OneEach(t)
  <2> SUFFICES ASSUME NEW i \in 1..Len(t), NEW j \in 1..Len(t), t[i].node = t[j].node
               PROVE  i = j
    BY DEF OneEach
  <2>1. i + 1 \in 1..Len(l) /\ j + 1 \in 1..Len(l) /\ t[i] = l[i + 1] /\ t[j] = l[j + 1]
    <3> HIDE DEF l, t
    <3> QED BY <1>1
  <2>2. i + 1 = j + 1
    BY <1>3, <2>1 DEF FrameOK, OneEach
  <2> QED BY <1>1, <2>2
<1>8. StackShape(rest, up, seen \cup {x.node})
  <2> DEFINE more == seen \cup {x.node}
  <2> HIDE DEF t, l
  <2>1. rest = [s EXCEPT ![1].left = t]
    BY DEF t
  <2>2. seen \subseteq more
    OBVIOUS
  <2>3. \A j \in 2..Len(s) : Undone(s[j]) \cap more = {}
    BY <1>5
  <2>4. \A i \in 1..Len(t) :
          /\ t[i].parent = s[1].folder
          /\ up[t[i].node] = s[1].folder
          /\ t[i].active
          /\ t[i].node \notin more
    BY <1>6
  <2> HIDE DEF more
  <2>5. StackShape(rest, up, more)
    BY <1>1, <1>7, <2>1, <2>2, <2>3, <2>4, ShapeReplaced
  <2> QED BY <2>5 DEF more
<1>9. /\ Len(rest) = Len(s) /\ rest[1].folder = s[1].folder /\ rest[1].left = t
      /\ \A j \in 2..Len(s) : rest[j] = s[j]
  BY <1>1, LeftReplaced
<1>10. ASSUME NEW n, n \notin seen \cup {x.node}, Waits(s, up, n, FALSE)
       PROVE  Waits(rest, up, n, FALSE)
  <2>1. PICK j \in 1..Len(s) : s[j].folder = up[n] /\ n \in Undone(s[j])
    BY <1>10 DEF Waits
  <2>2. CASE j = 1
    <3>1. PICK i \in 1..Len(l) : l[i].node = n
      BY <2>1, <2>2 DEF Undone
    <3>2. i # 1
      BY <1>10, <3>1
    <3>3. i - 1 \in 1..Len(t) /\ i - 1 \in 1..Len(l) - 1 /\ (i - 1) + 1 = i
      <4> HIDE DEF l, t
      <4> QED BY <1>1, <3>2
    <3>4. t[i - 1].node = n
      BY <1>1, <3>1, <3>3
    <3>5. n \in Undone(rest[1])
      BY <1>9, <3>3, <3>4 DEF Undone
    <3> QED BY <1>2, <1>9, <2>1, <2>2, <3>5 DEF Waits
  <2>3. CASE j # 1
    <3>1. j \in 2..Len(s)
      BY <1>2, <2>3
    <3>2. rest[j] = s[j] /\ j \in 1..Len(rest)
      BY <1>9, <3>1
    <3> QED BY <2>1, <3>2 DEF Waits
  <2> QED BY <2>2, <2>3
<1>11. ASSUME NEW j \in 1..Len(rest) PROVE rest[j].folder \in seen \cup {Root}
  <2>1. j \in 1..Len(s) /\ rest[j].folder = s[j].folder
    BY <1>2, <1>9
  <2> QED BY <2>1 DEF StackShape, FrameOK
<1> QED BY <1>4, <1>8, <1>10, <1>11 DEF VisitedShape

\* A folder that was just found is entered.
EnteredShape(s, x, to, up, seen) ==
  /\ to \in Seq(Frames) /\ to # <<>>
  /\ to[1].folder = x /\ to[1].left = <<>>
  /\ StackShape(to, up, seen)
  /\ \A n : Waits(s, up, n, FALSE) => Waits(to, up, n, TRUE)
  /\ \A n : up[n] = x => Waits(to, up, n, TRUE)

LEMMA ShapeEntered ==
  ASSUME NEW s \in Seq(Frames), NEW x \in Folders,
         NEW to, to = <<[folder |-> x, left |-> <<>>]>> \o s,
         NEW up, NEW seen, StackShape(s, up, seen), x \in seen,
         \A j \in 1..Len(s) : s[j].folder # x
  PROVE  EnteredShape(s, x, to, up, seen)
<1> DEFINE fr == [folder |-> x, left |-> <<>>]
<1>1. fr \in Frames /\ fr.folder = x /\ fr.left = <<>> /\ Len(fr.left) = 0
  BY EmptySeq DEF Frames, Places
<1> HIDE DEF fr
<1>2. to = <<fr>> \o s
  BY DEF fr
<1>3. /\ to \in Seq(Frames) /\ to # <<>>
      /\ Len(to) = Len(s) + 1 /\ to[1] = fr /\ Len(s) \in Nat
      /\ \A j \in 1..Len(s) : to[j + 1] = s[j]
  BY <1>1, <1>2, FrameEntered, LenProperties
<1>4. \A i \in 2..Len(s) + 1 : i - 1 \in 1..Len(s) /\ to[i] = s[i - 1]
  <2> SUFFICES ASSUME NEW i \in 2..Len(s) + 1
               PROVE  i - 1 \in 1..Len(s) /\ to[i] = s[i - 1]
    OBVIOUS
  <2>1. i - 1 \in 1..Len(s) /\ (i - 1) + 1 = i
    BY <1>3
  <2> QED BY <1>3, <2>1
<1>5. FrameOK(fr, up, seen)
  BY <1>1 DEF FrameOK, OneEach
<1>6. \A j \in 1..Len(to) : FrameOK(to[j], up, seen)
  <2> SUFFICES ASSUME NEW j \in 1..Len(to) PROVE FrameOK(to[j], up, seen)
    OBVIOUS
  <2>1. j = 1 \/ j \in 2..Len(s) + 1
    BY <1>3
  <2> QED BY <1>3, <1>4, <1>5, <2>1 DEF StackShape
<1>7. \A i, j \in 1..Len(to) : to[i].folder = to[j].folder => i = j
  <2> SUFFICES ASSUME NEW i \in 1..Len(to), NEW j \in 1..Len(to),
                      to[i].folder = to[j].folder
               PROVE  i = j
    OBVIOUS
  <2>1. (i = 1 \/ i \in 2..Len(s) + 1) /\ (j = 1 \/ j \in 2..Len(s) + 1)
    BY <1>3
  <2>2. \A k \in 2..Len(s) + 1 : to[k].folder # x
    BY <1>4
  <2>3. CASE i = 1 \/ j = 1
    BY <1>1, <1>3, <2>1, <2>2, <2>3
  <2>4. CASE i \in 2..Len(s) + 1 /\ j \in 2..Len(s) + 1
    <3>1. i - 1 = j - 1
      BY <1>4, <2>4 DEF StackShape
    <3> QED BY <1>3, <2>4, <3>1
  <2> QED BY <2>1, <2>3, <2>4
<1>8. ASSUME NEW n, Waits(s, up, n, FALSE) PROVE Waits(to, up, n, TRUE)
  <2>1. PICK j \in 1..Len(s) : s[j].folder = up[n] /\ n \in Undone(s[j])
    BY <1>8 DEF Waits
  <2>2. j + 1 \in 1..Len(to) /\ to[j + 1] = s[j]
    BY <1>3
  <2> QED BY <2>1, <2>2 DEF Waits
<1>9. ASSUME NEW n, up[n] = x PROVE Waits(to, up, n, TRUE)
  <2>1. 1 \in 1..Len(to)
    BY <1>3
  <2> QED BY <1>1, <1>3, <1>9, <2>1 DEF Waits
<1> QED BY <1>1, <1>3, <1>6, <1>7, <1>8, <1>9 DEF StackShape, EnteredShape

\* The innermost folder is done.
LEMMA ShapeReturned ==
  ASSUME NEW s \in Seq(Frames), s # <<>>, s[1].left = <<>>,
         NEW up, NEW seen, StackShape(s, up, seen)
  PROVE  /\ StackShape(Tail(s), up, seen)
         /\ \A n : Waits(s, up, n, FALSE) => Waits(Tail(s), up, n, FALSE)
<1> DEFINE t == Tail(s)
<1>1. /\ Len(t) = Len(s) - 1 /\ Len(s) \in Nat /\ 1 \in 1..Len(s)
      /\ \A i \in 1..Len(t) : t[i] = s[i + 1]
  BY HeadTailProperties, LenProperties, TopOfStack
<1> HIDE DEF t
<1>2. \A i \in 1..Len(t) : i + 1 \in 1..Len(s) /\ t[i] = s[i + 1]
  BY <1>1
<1>3. \A i \in 1..Len(t) : FrameOK(t[i], up, seen)
  BY <1>2 DEF StackShape
<1>4. \A i, j \in 1..Len(t) : t[i].folder = t[j].folder => i = j
  <2> SUFFICES ASSUME NEW i \in 1..Len(t), NEW j \in 1..Len(t), t[i].folder = t[j].folder
               PROVE  i = j
    OBVIOUS
  <2>1. /\ i + 1 \in 1..Len(s) /\ j + 1 \in 1..Len(s)
        /\ s[i + 1].folder = s[j + 1].folder
    BY <1>2
  <2>2. i + 1 = j + 1
    BY <2>1 DEF StackShape
  <2> QED BY <1>1, <2>2
<1>5. ASSUME NEW n, Waits(s, up, n, FALSE) PROVE Waits(t, up, n, FALSE)
  <2>1. PICK j \in 1..Len(s) : s[j].folder = up[n] /\ n \in Undone(s[j])
    BY <1>5 DEF Waits
  <2>2. j # 1
    <3>1. Len(s[1].left) = 0
      BY EmptySeq
    <3> QED BY <2>1, <3>1 DEF Undone
  <2>3. j - 1 \in 1..Len(t) /\ (j - 1) + 1 = j
    BY <1>1, <2>2
  <2>4. t[j - 1] = s[j]
    BY <1>1, <2>3
  <2> QED BY <2>1, <2>3, <2>4 DEF Waits
<1> QED BY <1>3, <1>4, <1>5 DEF t, StackShape

\* A page of the innermost folder is listed: its children, in their order.
PageGrows(f, got, new) ==
  /\ f \in Places /\ new \in Seq(Entries) /\ Len(got) \in Nat
  /\ Len(new) = Until(f, page) /\ Len(new) = page * PageSize + Len(got)
  /\ Len(new) <= Len(Children(f))
  /\ \A i \in 1..Len(new) :
       /\ new[i].node = Children(f)[i]
       /\ new[i].parent = f
       /\ parent[new[i].node] = f
       /\ new[i].active
       /\ new[i].node \notin Found
  /\ OneEach(new)

LEMMA PageAdded ==
  ASSUME TypeInv, pc = "list", TreeOK, StackOK, ListOK,
         NEW f, f = stack[1].folder,
         NEW got, got = PageOf(f, page),
         NEW new, new = stack[1].left \o got
  PROVE  PageGrows(f, got, new)
<1>0. /\ parent \in [Nodes -> Places] /\ stack \in Seq(Frames) /\ stack # <<>>
      /\ page \in Nat /\ trashed = {}
  BY DEF TypeInv, ServerOK, StackType, PhaseType, TreeOK
<1> DEFINE left == stack[1].left
           kids == Children(f)
           base == page * PageSize
<1>1. f \in Places /\ left \in Seq(Entries)
  BY <1>0, TopOfStack
<1>2. Len(left) = base /\ Len(left) <= Len(kids)
  BY DEF ListOK
<1>3. /\ kids \in Seq(Nodes) /\ Len(kids) \in Nat
      /\ \A i \in 1..Len(kids) : parent[kids[i]] = f
      /\ \A i, j \in 1..Len(kids) : kids[i] = kids[j] => i = j
  BY ChildrenListed, LenProperties
<1>4. base \in Nat /\ (page + 1) * PageSize = base + PageSize
  BY <1>0, PageAssumption
<1>5. /\ got \in Seq(Entries) /\ Len(got) = Until(f, page) - base
      /\ \A i \in 1..Len(got) :
           got[i] = [node |-> kids[base + i], parent |-> f, active |-> kids[base + i] \notin trashed]
  <2>1. /\ PageOf(f, page) \in Seq(Entries)
        /\ page * PageSize <= Len(Children(f)) =>
             Len(PageOf(f, page)) = Until(f, page) - page * PageSize
        /\ \A i \in 1..Len(PageOf(f, page)) :
             LET n == Children(f)[page * PageSize + i]
             IN  PageOf(f, page)[i] =
                   [node |-> n, parent |-> f, active |-> n \notin trashed]
    BY <1>0, <1>1, PageListed
  <2> QED BY <1>2, <2>1
<1>6. Len(left) \in Nat /\ Len(got) \in Nat
  BY <1>1, <1>5, LenProperties
<1>7. /\ new \in Seq(Entries) /\ Len(new) = Len(left) + Len(got)
      /\ \A i \in 1..Len(left) + Len(got) :
           new[i] = IF i <= Len(left) THEN left[i] ELSE got[i - Len(left)]
  <2>1. new = left \o got
    OBVIOUS
  <2> HIDE DEF left
  <2> QED BY <1>1, <1>5, <2>1, ConcatProperties
<1>8. Until(f, page) \in Nat /\ Until(f, page) <= Len(kids)
  <2>1. Until(f, page) = IF base + PageSize < Len(kids) THEN base + PageSize ELSE Len(kids)
    BY <1>4 DEF Until
  <2> HIDE DEF base, kids
  <2> QED BY <1>3, <1>4, <2>1, PageAssumption
<1>9. Len(new) = Until(f, page)
  <2> HIDE DEF base, left
  <2> QED BY <1>2, <1>4, <1>5, <1>6, <1>7, <1>8
<1>10. ASSUME NEW i \in 1..Len(new)
       PROVE  new[i].node = kids[i] /\ new[i].parent = f /\ new[i].active
  <2>1. CASE i <= Len(left)
    <3>1. i \in 1..Len(left) /\ new[i] = left[i]
      BY <1>6, <1>7, <2>1
    <3>2. left[i].node = kids[i]
      BY <3>1 DEF ListOK
    <3>3. FrameOK(stack[1], parent, Found)
      BY <1>0, TopOfStack DEF StackOK, StackShape
    <3>4. left[i].parent = f /\ left[i].active
      BY <3>1, <3>3 DEF FrameOK
    <3> QED BY <3>1, <3>2, <3>4
  <2>2. CASE ~(i <= Len(left))
    <3>1. i - base \in 1..Len(got) /\ base + (i - base) = i
      <4> HIDE DEF base, left
      <4> QED BY <1>2, <1>4, <1>6, <1>7, <2>2
    <3>2. new[i] = got[i - base]
      <4> HIDE DEF base, left
      <4> QED BY <1>2, <1>7, <2>2
    <3>3. got[i - base] = [node |-> kids[i], parent |-> f, active |-> kids[i] \notin trashed]
      <4> HIDE DEF base, kids
      <4> QED BY <1>5, <3>1
    <3>4. (kids[i] \notin trashed) = TRUE
      BY <1>0
    <3> HIDE DEF kids
    <3>5. new[i] = [node |-> kids[i], parent |-> f, active |-> TRUE]
      BY <3>2, <3>3, <3>4, Zenon
    <3> QED BY <3>5
  <2> QED BY <2>1, <2>2
<1>11. \A i \in 1..Len(new) : i \in 1..Len(kids)
  <2> HIDE DEF kids
  <2> QED BY <1>3, <1>8, <1>9
<1>12. \A i \in 1..Len(new) : parent[new[i].node] = f /\ new[i].node \notin Found
  <2> SUFFICES ASSUME NEW i \in 1..Len(new)
               PROVE  parent[new[i].node] = f /\ new[i].node \notin Found
    OBVIOUS
  <2>1. parent[kids[i]] = f /\ kids[i] \in Nodes
    BY <1>3, <1>11, ElementOfSeq
  <2> QED BY <1>10, <2>1 DEF ListOK
<1>13. OneEach(new)
  <2> SUFFICES ASSUME NEW i \in 1..Len(new), NEW j \in 1..Len(new), new[i].node = new[j].node
               PROVE  i = j
    BY DEF OneEach
  <2>1. kids[i] = kids[j] /\ i \in 1..Len(kids) /\ j \in 1..Len(kids)
    BY <1>10, <1>11
  <2> QED BY <1>3, <2>1
<1>14. Len(new) = page * PageSize + Len(got)
  BY <1>2, <1>7
<1> QED BY <1>1, <1>6, <1>7, <1>8, <1>9, <1>10, <1>12, <1>13, <1>14 DEF PageGrows

-----------------------------------------------------------------------------
(* The steps keep it *)

LEMMA InitQuiet == Init => QuietInv
<1> SUFFICES ASSUME Init PROVE QuietInv
  OBVIOUS
<1>1. /\ TypeInv /\ IsTree(parent) /\ trashed = {} /\ stayed = {}
      /\ stack = <<>> /\ items = <<>> /\ pc = "idle" /\ page = 0
  BY InitTypes DEF Init
<1>2. Len(stack) = 0 /\ Len(items) = 0
  BY <1>1, EmptySeq
<1>3. FoundOK /\ StackOK
  BY <1>2 DEF FoundOK, OneEach, StackOK, StackShape
<1> QED BY <1>1, <1>3 DEF QuietInv, PhaseOK, Quiet, TreeOK, ListOK, Covered, StayedUp

\* A change made elsewhere ends the quiet.
LEMMA ServerQuiet ==
  QuietInv => /\ \A n \in Nodes, f \in Places : Move(n, f) => QuietInv'
              /\ \A n \in Nodes : Trash(n) => QuietInv'
<1> SUFFICES ASSUME QuietInv
             PROVE  /\ \A n \in Nodes, f \in Places : Move(n, f) => QuietInv'
                    /\ \A n \in Nodes : Trash(n) => QuietInv'
  OBVIOUS
<1>0. TypeInv /\ PhaseOK /\ changes \in Nat
  BY DEF QuietInv, TypeInv, ServerOK
<1>1. ASSUME NEW n \in Nodes, NEW f \in Places, Move(n, f) PROVE QuietInv'
  <2>1. TypeInv'
    BY <1>0, <1>1, ServerTypes
  <2>0. changes' # 0
    BY <1>0, <1>1 DEF Move
  <2>2. PhaseOK'
    BY <1>0, <1>1 DEF Move, PhaseOK, walk
  <2> QED BY <2>0, <2>1, <2>2 DEF QuietInv
<1>2. ASSUME NEW n \in Nodes, Trash(n) PROVE QuietInv'
  <2>1. TypeInv'
    BY <1>0, <1>2, ServerTypes
  <2>0. changes' # 0
    BY <1>0, <1>2 DEF Trash
  <2>2. PhaseOK'
    BY <1>0, <1>2 DEF Trash, PhaseOK, walk
  <2> QED BY <2>0, <2>1, <2>2 DEF QuietInv
<1> QED BY <1>1, <1>2

\* The pass starts with the root, to which every link leads.
LEMMA StartQuiet == QuietInv /\ StartWalk => QuietInv'
<1> SUFFICES ASSUME QuietInv, StartWalk PROVE QuietInv'
  OBVIOUS
<1>0. TypeInv /\ PhaseOK /\ TypeInv'
  BY StartTypes DEF QuietInv
<1>1. /\ pc' = "list" /\ stack' = <<[folder |-> Root, left |-> <<>>]>>
      /\ items = <<>> /\ items' = <<>> /\ page' = 0
      /\ parent' = parent /\ trashed' = trashed /\ changes' = changes
      /\ stayed' = Reachable(parent, trashed)
  BY <1>0 DEF StartWalk, PhaseOK, server
<1>2. PhaseOK'
  BY <1>1 DEF PhaseOK
<1>3. ASSUME changes' = 0 PROVE Quiet'
  <2>0. Quiet
    BY <1>1, <1>3 DEF QuietInv
  <2>1. TreeOK' /\ stayed' = Nodes
    BY <1>1, <2>0, AllReachable DEF Quiet, TreeOK
  <2>2. Len(items') = 0 /\ Found' = {}
    BY <1>1, EmptySeq DEF Found
  <2>3. FoundOK'
    BY <2>2 DEF FoundOK, OneEach
  <2>4. /\ Len(stack') = 1 /\ stack'[1].folder = Root /\ stack'[1].left = <<>>
        /\ Len(stack'[1].left) = 0
    BY <1>1
  <2>5. StackOK'
    BY <2>4 DEF StackOK, StackShape, FrameOK, OneEach
  <2>6. ListOK'
    <3>1. Len(Children(stack[1].folder)') \in Nat /\ page' * PageSize = 0
      <4>1. Children(stack[1].folder)' = Children(stack'[1].folder)
        BY <1>1 DEF Children
      <4>2. Children(stack'[1].folder) \in Seq(Nodes)
        BY ChildrenListed
      <4> QED BY <1>1, <4>1, <4>2, LenProperties, PageAssumption
    <3> QED BY <2>2, <2>4, <3>1 DEF ListOK
  <2>7. Covered'
    <3> SUFFICES ASSUME NEW n \in stayed', parent'[n] = Root
                 PROVE  Waits(stack, parent, n, pc = "list")'
      BY <2>2 DEF Covered
    <3> QED BY <1>1, <2>4 DEF Waits
  <2>8. StayedUp'
    BY <1>1, <2>1, <1>0 DEF StayedUp, TypeInv, ServerOK, Places, Nodes
  <2> QED BY <2>1, <2>3, <2>5, <2>6, <2>7, <2>8 DEF Quiet
<1> QED BY <1>0, <1>2, <1>3 DEF QuietInv

LEMMA EndQuiet ==
  ASSUME QuietInv, NEW at \in {"idle", "stalled"}, LeavePass(at), UNCHANGED server
  PROVE  QuietInv'
<1>1. /\ stack' = <<>> /\ items' = <<>> /\ page' = 0 /\ stayed' = {}
      /\ pc' \in {"idle", "stalled"}
      /\ parent' = parent /\ trashed' = trashed /\ changes' = changes
  BY DEF LeavePass, server
<1>2. TypeInv' /\ PhaseOK'
  BY <1>1, EndTypes DEF QuietInv, TypeInv, ServerOK, PhaseOK
<1>3. Len(stack') = 0 /\ Len(items') = 0
  BY <1>1, EmptySeq
<1>4. FoundOK' /\ StackOK'
  BY <1>3 DEF FoundOK, OneEach, StackOK, StackShape
<1>5. changes = 0 => TreeOK'
  BY <1>1 DEF QuietInv, Quiet, TreeOK
<1> QED BY <1>1, <1>2, <1>4, <1>5 DEF QuietInv, Quiet, ListOK, Covered, StayedUp

\* A page: the list grows by the folder's next children, and once it is the
\* last one, every child not found before is in it.
LEMMA ListQuiet == QuietInv /\ ListPage => QuietInv'
<1> SUFFICES ASSUME QuietInv, ListPage PROVE QuietInv'
  OBVIOUS
<1>0. TypeInv /\ PhaseOK /\ TypeInv'
  BY ListTypes DEF QuietInv
<1>1. /\ pc = "list" /\ stack \in Seq(Frames) /\ stack # <<>> /\ page \in Nat
      /\ Head(stack) = stack[1]
  BY <1>0, TopOfStack DEF ListPage, TypeInv, StackType, PhaseType
<1> DEFINE f == stack[1].folder
           got == PageOf(f, page)
           new == stack[1].left \o got
<1>2. /\ stack' = [stack EXCEPT ![1].left = new]
      /\ IF Len(got) < PageSize THEN pc' = "visit" /\ page' = 0
                                ELSE pc' = "list" /\ page' = page + 1
      /\ parent' = parent /\ trashed' = trashed /\ changes' = changes
      /\ items' = items /\ stayed' = stayed
  BY <1>1 DEF ListPage, server
<1>3. PhaseOK'
  BY <1>2 DEF PhaseOK
<1>4. ASSUME changes' = 0 PROVE Quiet'
  <2>0. TreeOK /\ FoundOK /\ StackOK /\ ListOK /\ Covered /\ StayedUp
    BY <1>2, <1>4 DEF QuietInv, Quiet
  <2>1. /\ f \in Places /\ new \in Seq(Entries) /\ Len(got) \in Nat
        /\ Len(new) = Until(f, page) /\ Len(new) = page * PageSize + Len(got)
        /\ Len(new) <= Len(Children(f))
        /\ \A i \in 1..Len(new) :
             /\ new[i].node = Children(f)[i]
             /\ new[i].parent = f
             /\ parent[new[i].node] = f
             /\ new[i].active
             /\ new[i].node \notin Found
        /\ OneEach(new)
    <3>1. f = stack[1].folder /\ got = PageOf(f, page) /\ new = stack[1].left \o got
      OBVIOUS
    <3> HIDE DEF new, got, f
    <3>2. TypeInv /\ pc = "list" /\ TreeOK /\ StackOK /\ ListOK
      BY <1>0, <1>1, <2>0
    <3>3. PageGrows(f, got, new)
      BY <3>1, <3>2, PageAdded
    <3> QED BY <3>3 DEF PageGrows
  <2> HIDE DEF new, got
  <2>2. /\ Len(stack') = Len(stack) /\ stack'[1].folder = f /\ stack'[1].left = new
        /\ \A j \in 2..Len(stack) : stack'[j] = stack[j]
    BY <1>1, <1>2, <2>1, LeftReplaced
  <2>3. TreeOK' /\ FoundOK' /\ StayedUp' /\ Found' = Found
    BY <1>2, <2>0 DEF TreeOK, FoundOK, StayedUp, Found
  <2>4. StackOK'
    <3>1. \A j \in 2..Len(stack) : Undone(stack[j]) \cap Found = {}
      <4> SUFFICES ASSUME NEW j \in 2..Len(stack) PROVE Undone(stack[j]) \cap Found = {}
        OBVIOUS
      <4>1. j \in 1..Len(stack)
        BY <1>1, LenProperties
      <4> QED BY <2>0, <4>1 DEF StackOK, StackShape, FrameOK, Undone
    <3>2. Found \subseteq Found
      OBVIOUS
    <3>3. StackShape(stack, parent, Found)
      BY <2>0 DEF StackOK
    <3>5. \A i \in 1..Len(new) :
            /\ new[i].parent = stack[1].folder
            /\ parent[new[i].node] = stack[1].folder
            /\ new[i].active
            /\ new[i].node \notin Found
      BY <2>1
    <3>6. new \in Seq(Entries) /\ OneEach(new) /\ stack' = [stack EXCEPT ![1].left = new]
      BY <1>2, <2>1
    <3>4. StackShape(stack', parent, Found)
      BY <1>1, <3>1, <3>2, <3>3, <3>5, <3>6, ShapeReplaced
    <3> QED BY <1>2, <2>3, <3>4 DEF StackOK
  <2>5. (page + 1) * PageSize = page * PageSize + PageSize /\ page * PageSize \in Nat
    BY <1>1, PageAssumption
  <2>6. Children(f) \in Seq(Nodes) /\ Len(Children(f)) \in Nat
    BY ChildrenListed, LenProperties
  <2>7. ListOK'
    <3> SUFFICES ASSUME pc' = "list" PROVE ListOK'
      BY DEF ListOK
    <3>1. page' = page + 1 /\ ~(Len(got) < PageSize)
      BY <1>2
    <3>2. Len(new) = page' * PageSize
      <4> DEFINE base == page * PageSize
      <4>1. Until(f, page) = IF base + PageSize < Len(Children(f)) THEN base + PageSize ELSE Len(Children(f))
        BY <2>5 DEF Until
      <4>2. page' * PageSize = base + PageSize
        BY <2>5, <3>1
      <4>3. /\ Len(new) = base + Len(got) /\ base \in Nat /\ Len(got) \in Nat
            /\ Len(new) = Until(f, page)
        BY <2>1, <2>5
      <4> HIDE DEF base, f
      <4>4. Len(new) = base + PageSize
        BY <2>6, <3>1, <4>1, <4>3, PageAssumption
      <4> QED BY <4>2, <4>4
    <3>3. Children(stack[1].folder)' = Children(f)
      BY <1>2, <2>2 DEF Children
    <3>4. \A n \in Nodes : parent'[n] = f => n \notin Found'
      BY <1>1, <1>2, <2>0, <2>3 DEF ListOK
    <3> HIDE DEF f
    <3> QED BY <2>1, <2>2, <3>2, <3>3, <3>4 DEF ListOK
  <2>8. Covered'
    <3> SUFFICES ASSUME NEW n \in stayed, n \notin Found, parent[n] \in Found \cup {Root}
                 PROVE  Waits(stack', parent, n, pc' = "list")
      BY <1>2, <2>3 DEF Covered
    <3>1. Waits(stack, parent, n, pc = "list")
      BY <2>0 DEF Covered
    <3>2. PICK j \in 1..Len(stack) : stack[j].folder = parent[n] /\ (n \in Undone(stack[j]) \/ j = 1)
      BY <3>1 DEF Waits
    <3>3. CASE j # 1
      <4>1. j \in 2..Len(stack)
        BY <1>1, <3>3, LenProperties
      <4> QED BY <2>2, <3>2, <3>3, <4>1 DEF Waits
    <3>4. CASE j = 1
      <4>1. n \in Nodes
        BY <1>0 DEF TypeInv, SetsType
      <4>2. PICK i \in 1..Len(Children(f)) : Children(f)[i] = n
        BY <3>2, <3>4, <4>1, ChildrenListed
      <4>3. CASE pc' = "list"
        BY <2>2, <3>2, <3>4, <4>3 DEF Waits
      <4>4. CASE pc' # "list"
        <5>1. Len(got) < PageSize
          BY <1>2, <4>4
        <5>2. Len(new) = Len(Children(f))
          <6> DEFINE base == page * PageSize
          <6>1. Until(f, page) = IF base + PageSize < Len(Children(f)) THEN base + PageSize ELSE Len(Children(f))
            BY <2>5 DEF Until
          <6>2. /\ Len(new) = base + Len(got) /\ base \in Nat /\ Len(got) \in Nat
                /\ Len(new) = Until(f, page)
            BY <2>1, <2>5
          <6> HIDE DEF base, f
          <6> QED BY <2>6, <5>1, <6>1, <6>2, PageAssumption
        <5>3. i \in 1..Len(new) /\ new[i].node = n
          BY <2>1, <4>2, <5>2
        <5>4. n \in Undone(stack'[1])
          BY <2>2, <5>3 DEF Undone
        <5> QED BY <2>2, <3>2, <3>4, <5>4 DEF Waits
      <4> QED BY <4>3, <4>4
    <3> QED BY <3>3, <3>4
  <2> QED BY <2>3, <2>4, <2>7, <2>8 DEF Quiet
<1> QED BY <1>0, <1>3, <1>4 DEF QuietInv

LEMMA NotListing ==
  ASSUME NEW s, NEW up, NEW n, pc # "list"
  PROVE  Waits(s, up, n, pc = "list") <=> Waits(s, up, n, FALSE)
  BY DEF Waits

\* A visit finds one link more.  If it is a folder that unlocks, its children
\* are listed next; if it does not, what is below it is out of reach, and that
\* is every link below it; if it is a file, nothing is below it.
LEMMA VisitQuiet == \A unlocked \in BOOLEAN : QuietInv /\ Visit(unlocked) => QuietInv'
<1> SUFFICES ASSUME NEW unlocked \in BOOLEAN, QuietInv, Visit(unlocked) PROVE QuietInv'
  OBVIOUS
<1>0. TypeInv /\ PhaseOK /\ TypeInv'
  BY VisitTypes DEF QuietInv
<1>1. /\ pc = "visit" /\ stack \in Seq(Frames) /\ stack # <<>> /\ page = 0
      /\ Head(stack) = stack[1] /\ ItemsType /\ parent \in [Nodes -> Places]
      /\ stayed \subseteq Nodes
  BY <1>0, TopOfStack DEF Visit, TypeInv, StackType, PhaseType, PhaseOK, ServerOK, SetsType
<1>2. stack[1].left # <<>>
  BY <1>1 DEF Visit
<1> DEFINE x == stack[1].left[1]
           rest == [stack EXCEPT ![1].left = Tail(stack[1].left)]
           enter == x.node \in Folders /\ x.active
<1>3. x \in Entries /\ Head(stack[1].left) = x /\ Tail(stack[1].left) \in Seq(Entries)
  BY <1>1, <1>2, NextChild
<1>4. rest \in Seq(Frames) /\ rest # <<>>
  BY <1>1, <1>3, LeftReplaced
<1>5. /\ items' = Append(items, x)
      /\ unlocked => enter
      /\ unlocked =>
           /\ stack' = <<[folder |-> x.node, left |-> <<>>]>> \o rest
           /\ pc' = "list" /\ stayed' = stayed
      /\ ~unlocked =>
           /\ stack' = rest /\ pc' = pc
           /\ enter => stayed' = {n \in stayed : x.node \notin Above(parent, parent[n])}
           /\ ~enter => stayed' = stayed
      /\ parent' = parent /\ trashed' = trashed /\ changes' = changes /\ page' = page
  <2>1. rest = [stack EXCEPT ![1].left = Tail(@)]
    OBVIOUS
  <2> HIDE DEF rest
  <2> QED BY <1>1, <1>3, <2>1 DEF Visit, server
<1>6. PhaseOK'
  BY <1>1, <1>5 DEF PhaseOK
<1>7. x = stack[1].left[1] /\ rest = [stack EXCEPT ![1].left = Tail(stack[1].left)]
  OBVIOUS
<1> HIDE DEF x, rest
<1>8. ASSUME changes' = 0 PROVE Quiet'
  <2>0. TreeOK /\ FoundOK /\ StackOK /\ Covered /\ StayedUp
    BY <1>5, <1>8 DEF QuietInv, Quiet
  <2> DEFINE more == Found \cup {x.node}
  <2>1. /\ Found' = more
        /\ Len(items') = Len(items) + 1 /\ Len(items) \in Nat
        /\ items'[Len(items) + 1] = x
        /\ \A i \in 1..Len(items) : items'[i] = items[i]
    BY <1>1, <1>3, <1>5, OneMoreFound
  <2>2. /\ StackShape(rest, parent, more)
        /\ \A n : n \notin more /\ Waits(stack, parent, n, FALSE)
                     => Waits(rest, parent, n, FALSE)
        /\ x.active /\ x.parent = stack[1].folder /\ parent[x.node] = stack[1].folder
        /\ x.node \notin Found /\ stack[1].folder \in Found \cup {Root}
        /\ \A j \in 1..Len(rest) : rest[j].folder \in Found \cup {Root}
    <3>1. StackShape(stack, parent, Found)
      BY <2>0 DEF StackOK
    <3>2. VisitedShape(stack, x, rest, parent, Found)
      BY <1>1, <1>2, <1>7, <3>1, ShapeVisited
    <3> QED BY <3>2 DEF VisitedShape
  <2> HIDE DEF more
  <2>3. more = Found \cup {x.node}
    BY DEF more
  <2>4. x.node \in Nodes /\ x.node # Root
    BY <1>3, LinkAssumption DEF Entries, Nodes
  <2>5. TreeOK'
    BY <1>5, <2>0 DEF TreeOK
  <2>6. FoundOK'
    <3>1. ASSUME NEW i \in 1..Len(items')
          PROVE  /\ items'[i].parent = parent[items'[i].node]
                 /\ items'[i].parent \in more \cup {Root}
      <4>1. CASE i \in 1..Len(items)
        BY <2>0, <2>1, <2>3, <4>1 DEF FoundOK
      <4>2. CASE i = Len(items) + 1
        BY <2>1, <2>2, <2>3, <4>2
      <4> QED BY <2>1, <4>1, <4>2
    <3>2. \A i \in 1..Len(items) : items[i].node # x.node
      BY <1>1, <2>2, FoundIndex
    <3>3. OneEach(items)'
      <4> SUFFICES ASSUME NEW i \in 1..Len(items'), NEW j \in 1..Len(items'),
                          items'[i].node = items'[j].node
                   PROVE  i = j
        BY DEF OneEach
      <4>1. i \in 1..Len(items) /\ j \in 1..Len(items) => i = j
        BY <2>0, <2>1 DEF FoundOK, OneEach
      <4>2. /\ i \in 1..Len(items) \/ i = Len(items) + 1
            /\ j \in 1..Len(items) \/ j = Len(items) + 1
        BY <2>1
      <4> QED BY <2>1, <3>2, <4>1, <4>2
    <3> QED BY <1>5, <2>1, <3>1, <3>3 DEF FoundOK
  \* A link below one found before is waiting still.
  <2>7. ASSUME NEW n \in stayed, n \notin more, parent[n] \in Found \cup {Root}
        PROVE  Waits(rest, parent, n, FALSE)
    <3>1. Waits(stack, parent, n, FALSE)
      BY <1>1, <2>0, <2>3, <2>7, NotListing DEF Covered
    <3> QED BY <2>2, <2>7, <3>1
  <2>8. CASE unlocked
    <3>1. x.node \in Folders
      BY <1>5, <2>8
    <3>2. x.node \in more /\ \A j \in 1..Len(rest) : rest[j].folder # x.node
      BY <2>2, <2>3, <2>4
    <3>3. /\ stack' \in Seq(Frames) /\ stack' # <<>>
          /\ stack'[1].folder = x.node /\ stack'[1].left = <<>>
          /\ StackShape(stack', parent, more)
          /\ \A n : Waits(rest, parent, n, FALSE) => Waits(stack', parent, n, TRUE)
          /\ \A n : parent[n] = x.node => Waits(stack', parent, n, TRUE)
      <4>1. stack' = <<[folder |-> x.node, left |-> <<>>]>> \o rest
        BY <1>5, <2>8
      <4>2. StackShape(rest, parent, more)
        BY <2>2
      <4>3. EnteredShape(rest, x.node, stack', parent, more)
        BY <1>4, <3>1, <3>2, <4>1, <4>2, ShapeEntered
      <4> QED BY <4>3 DEF EnteredShape
    <3>4. StackOK'
      BY <1>5, <2>1, <3>3 DEF StackOK
    <3>5. ListOK'
      <4>1. Len(stack'[1].left) = 0 /\ page' * PageSize = 0
        BY <1>1, <1>5, <3>3, EmptySeq, PageAssumption
      <4>2. Len(Children(stack[1].folder)') \in Nat
        <5>1. Children(stack[1].folder)' = Children(x.node)
          BY <1>5, <3>3 DEF Children
        <5> QED BY <5>1, ChildrenListed, LenProperties
      <4>3. ASSUME NEW n \in Nodes, parent[n] = x.node, n \in more PROVE FALSE
        <5>1. CASE n \in Found
          <6>1. PICK i \in 1..Len(items) : items[i].node = n
            BY <1>1, <5>1, FoundIndex
          <6>2. x.node \in Found \cup {Root}
            BY <2>0, <4>3, <6>1 DEF FoundOK
          <6> QED BY <2>2, <2>4, <6>2
        <5>2. CASE n = x.node
          BY <2>2, <2>4, <4>3, <5>2
        <5> QED BY <2>3, <4>3, <5>1, <5>2
      <4> QED BY <1>5, <2>1, <3>3, <4>1, <4>2, <4>3 DEF ListOK
    <3>6. Covered'
      <4> SUFFICES ASSUME NEW n \in stayed, n \notin more, parent[n] \in more \cup {Root}
                   PROVE  Waits(stack', parent, n, TRUE)
        BY <1>5, <2>1, <2>8 DEF Covered
      <4> QED BY <2>3, <2>7, <3>3
    <3>7. StayedUp'
      BY <1>5, <2>0, <2>8 DEF StayedUp
    <3> QED BY <2>5, <2>6, <3>4, <3>5, <3>6, <3>7 DEF Quiet
  <2>9. CASE ~unlocked
    <3>1. stack' = rest /\ pc' = "visit" /\ stayed' \subseteq stayed
      BY <1>1, <1>5, <2>9
    <3>2. StackOK' /\ ListOK'
      BY <1>5, <2>1, <2>2, <3>1 DEF StackOK, ListOK
    <3>3. Covered'
      <4> SUFFICES ASSUME NEW n \in stayed', n \notin more, parent[n] \in more \cup {Root}
                   PROVE  Waits(rest, parent, n, FALSE)
        BY <1>5, <2>1, <3>1 DEF Covered
      <4>1. n \in stayed /\ n \in Nodes
        BY <1>1, <3>1
      <4>2. CASE parent[n] = x.node
        <5>1. x.node \in Folders
          BY <1>1, <2>4, <4>1, <4>2 DEF Places
        <5>2. x.node \notin Above(parent, x.node)
          BY <1>5, <2>2, <2>9, <4>2, <5>1
        <5> QED BY <5>1, <5>2, AboveSelf
      <4>3. CASE parent[n] # x.node
        BY <2>3, <2>7, <4>1, <4>3
      <4> QED BY <4>2, <4>3
    <3>4. StayedUp'
      <4>1. CASE enter
        <5> SUFFICES ASSUME NEW n \in stayed' PROVE parent[n] \in stayed' \cup {Root}
          BY <1>5 DEF StayedUp
        <5>1. stayed' = {m \in stayed : x.node \notin Above(parent, parent[m])}
          BY <1>5, <2>9, <4>1
        <5>2. n \in stayed /\ x.node \notin Above(parent, parent[n]) /\ n \in Nodes
          BY <1>1, <5>1
        <5>3. CASE parent[n] # Root
          <6>1. parent[n] \in stayed /\ parent[n] \in Folders
            BY <1>1, <2>0, <5>2, <5>3 DEF StayedUp, Places
          <6>2. Above(parent, parent[parent[n]]) \subseteq Above(parent, parent[n])
            BY <1>1, <6>1, AboveParent
          <6> QED BY <5>1, <5>2, <6>1, <6>2
        <5> QED BY <5>3
      <4>2. CASE ~enter
        BY <1>5, <2>0, <2>9, <4>2 DEF StayedUp
      <4> QED BY <4>1, <4>2
    <3> QED BY <2>5, <2>6, <3>2, <3>3, <3>4 DEF Quiet
  <2> QED BY <2>8, <2>9
<1> QED BY <1>0, <1>6, <1>8 DEF QuietInv

\* Nothing is left of the innermost folder, so nothing waits there.
LEMMA ReturnQuiet == QuietInv /\ Return => QuietInv'
<1> SUFFICES ASSUME QuietInv, Return PROVE QuietInv'
  OBVIOUS
<1>0. TypeInv /\ PhaseOK /\ TypeInv'
  BY ReturnTypes DEF QuietInv
<1>1. /\ pc = "visit" /\ stack \in Seq(Frames) /\ stack # <<>> /\ page = 0
      /\ Head(stack) = stack[1]
  BY <1>0, TopOfStack DEF Return, TypeInv, StackType, PhaseType, PhaseOK
<1>2. /\ stack[1].left = <<>> /\ stack' = Tail(stack) /\ pc' \in {"visit", "resolve"}
      /\ parent' = parent /\ trashed' = trashed /\ changes' = changes
      /\ items' = items /\ stayed' = stayed /\ page' = page
  BY <1>1 DEF Return, server
<1>3. PhaseOK'
  BY <1>1, <1>2 DEF PhaseOK
<1>4. ASSUME changes' = 0 PROVE Quiet'
  <2>0. TreeOK /\ FoundOK /\ StackOK /\ Covered /\ StayedUp
    BY <1>2, <1>4 DEF QuietInv, Quiet
  <2>1. TreeOK' /\ FoundOK' /\ StayedUp' /\ Found' = Found
    BY <1>2, <2>0 DEF TreeOK, FoundOK, StayedUp, Found
  <2>2. /\ StackShape(Tail(stack), parent, Found)
        /\ \A n : Waits(stack, parent, n, FALSE) => Waits(Tail(stack), parent, n, FALSE)
    <3>1. StackShape(stack, parent, Found)
      BY <2>0 DEF StackOK
    <3> QED BY <1>1, <1>2, <3>1, ShapeReturned
  <2>3. StackOK' /\ ListOK'
    BY <1>2, <2>1, <2>2 DEF StackOK, ListOK
  <2>4. Covered'
    <3> SUFFICES ASSUME NEW n \in stayed, n \notin Found, parent[n] \in Found \cup {Root}
                 PROVE  Waits(Tail(stack), parent, n, FALSE)
      BY <1>2, <2>1 DEF Covered
    <3>1. Waits(stack, parent, n, FALSE)
      BY <1>1, <2>0, NotListing DEF Covered
    <3> QED BY <2>2, <3>1
  <2> QED BY <2>1, <2>3, <2>4 DEF Quiet
<1> QED BY <1>0, <1>3, <1>4 DEF QuietInv

LEMMA RestQuiet == QuietInv /\ (Resolve \/ UNCHANGED vars) => QuietInv'
<1> SUFFICES ASSUME QuietInv, Resolve \/ UNCHANGED vars PROVE QuietInv'
  OBVIOUS
<1>1. /\ UNCHANGED <<parent, trashed, changes, stack, page, items, stayed>>
      /\ pc' = pc \/ (pc = "resolve" /\ pc' = "done")
  BY DEF Resolve, vars, server, walk
<1>2. [Next]_vars
  BY DEF Next, WalkStep
<1>3. TypeInv' /\ PhaseOK'
  BY <1>1, <1>2, TypeStep DEF QuietInv, PhaseOK
<1>4. ASSUME changes' = 0 PROVE Quiet'
  <2>0. Quiet
    BY <1>1, <1>4 DEF QuietInv
  <2>1. TreeOK' /\ FoundOK' /\ StackOK' /\ StayedUp' /\ Found' = Found
    BY <1>1, <2>0 DEF Quiet, TreeOK, FoundOK, StackOK, StayedUp, Found
  <2>2. ListOK'
    <3> SUFFICES ASSUME pc' = "list" PROVE ListOK'
      BY DEF ListOK
    <3>1. pc = "list" /\ ListOK
      BY <1>1, <2>0 DEF Quiet
    <3>2. Children(stack[1].folder)' = Children(stack[1].folder)
      BY <1>1 DEF Children
    <3> QED BY <1>1, <2>1, <3>1, <3>2 DEF ListOK
  <2>3. Covered'
    BY <1>1, <2>0, <2>1 DEF Quiet, Covered, Waits
  <2> QED BY <2>1, <2>2, <2>3 DEF Quiet
<1> QED BY <1>3, <1>4 DEF QuietInv

LEMMA QuietStep == QuietInv /\ [Next]_vars => QuietInv'
<1> SUFFICES ASSUME QuietInv, [Next]_vars PROVE QuietInv'
  OBVIOUS
<1>1. CASE \E n \in Nodes, f \in Folders \cup {Root} : Move(n, f)
  BY <1>1, ServerQuiet DEF Places
<1>2. CASE \E n \in Nodes : Trash(n)
  BY <1>2, ServerQuiet
<1>3. CASE StartWalk
  BY <1>3, StartQuiet
<1>4. CASE ListPage
  BY <1>4, ListQuiet
<1>5. CASE ListFails \/ Stall \/ FinishPass \/ Crash
  <2>1. PICK at \in {"idle", "stalled"} : LeavePass(at) /\ UNCHANGED server
    BY <1>5 DEF ListFails, Stall, FinishPass, Crash
  <2> QED BY <2>1, EndQuiet
<1>6. CASE \E unlocked \in BOOLEAN : Visit(unlocked)
  BY <1>6, VisitQuiet
<1>7. CASE Return
  BY <1>7, ReturnQuiet
<1>8. CASE Resolve \/ UNCHANGED vars
  BY <1>8, RestQuiet
<1> QED BY <1>1, <1>2, <1>3, <1>4, <1>5, <1>6, <1>7, <1>8 DEF Next, WalkStep

\* Once the stack is empty nothing waits: a link that stayed in reach and was
\* not found would be in a folder of which the same is true, and so would that
\* one, which no tree allows.
LEMMA QuietImplies == QuietInv => SnapshotWhenQuiet
<1> SUFFICES ASSUME QuietInv, pc \in {"resolve", "done"}, changes = 0
             PROVE  /\ stayed \subseteq Found
                    /\ \A i, j \in DOMAIN items : items[i].node = items[j].node => i = j
                    /\ \A i \in DOMAIN items : items[i].parent = parent[items[i].node]
  BY DEF SnapshotWhenQuiet
<1>1. /\ TypeInv /\ TreeOK /\ FoundOK /\ Covered /\ StayedUp
      /\ stack = <<>> /\ DOMAIN items = 1..Len(items)
  BY LenProperties DEF QuietInv, Quiet, TypeInv, PhaseType, ItemsType
<1>2. \A n \in stayed \ Found : parent[n] \in stayed \ Found
  <2> SUFFICES ASSUME NEW n \in stayed, n \notin Found PROVE parent[n] \in stayed \ Found
    OBVIOUS
  <2>1. ~Waits(stack, parent, n, pc = "list")
    BY <1>1, EmptySeq DEF Waits
  <2> QED BY <1>1, <2>1 DEF Covered, StayedUp
<1> DEFINE S == (stayed \ Found) \cap Folders
<1>3. \A n \in stayed \ Found : parent[n] \in S
  <2> SUFFICES ASSUME NEW n \in stayed, n \notin Found PROVE parent[n] \in Folders
    BY <1>2
  <2>1. n \in Nodes /\ parent[n] \in Places /\ parent[n] \in Nodes
    BY <1>1, <1>2 DEF TypeInv, ServerOK, SetsType
  <2> QED BY <2>1, LinkAssumption DEF Places, Nodes
<1>4. S = {}
  <2>1. \A n \in S : parent[n] \in S
    BY <1>3
  <2>2. S \in SUBSET Folders
    OBVIOUS
  <2> HIDE DEF S
  <2> QED BY <1>1, <2>1, <2>2 DEF TreeOK, IsTree
<1>5. stayed \subseteq Found
  BY <1>3, <1>4
<1> QED BY <1>1, <1>5 DEF FoundOK, OneEach

\* Whatever the tree, the page size and the order in which the server lists,
\* an undisturbed walk finds every link in reach exactly once, under its
\* parent: nothing is lost between two pages or on the way back from a folder.
THEOREM QuietWalkIsSnapshot == Spec => []SnapshotWhenQuiet
<1>1. Spec => []QuietInv
  BY InitQuiet, QuietStep, PTL DEF Spec
<1> QED BY <1>1, QuietImplies, PTL

-----------------------------------------------------------------------------
(* The depth of an entry: the loop over the parents' entries *)

Rung == [pid : Places \cup {None}, depth : Nat]

\* The loop of Depth, and one round of it.
Climb(its, i) ==
  LET by == ByLink(its)
      loop[k \in 0..DepthCap + 1] ==
        IF k = 0 THEN [pid |-> its[i].parent, depth |-> 0]
        ELSE LET at == loop[k - 1]
             IN  IF at.pid = None THEN at
                 ELSE [pid   |-> IF by[at.pid] = 0 THEN None
                                 ELSE its[by[at.pid]].parent,
                       depth |-> at.depth + 1]
  IN  loop

Up(its, at) ==
  IF at.pid = None THEN at
  ELSE [pid   |-> IF ByLink(its)[at.pid] = 0 THEN None
                  ELSE its[ByLink(its)[at.pid]].parent,
        depth |-> at.depth + 1]

LEMMA EntryTypes ==
  ASSUME NEW its \in Seq(Entries)
  PROVE  /\ Len(its) \in Nat /\ DOMAIN its = 1..Len(its)
         /\ \A i \in 1..Len(its) : /\ its[i] \in Entries /\ its[i].node \in Nodes
                                   /\ its[i].parent \in Places
<1>1. Len(its) \in Nat /\ DOMAIN its = 1..Len(its)
  BY LenProperties
<1>2. \A i \in 1..Len(its) : its[i] \in Entries
  BY ElementOfSeq
<1> QED BY <1>1, <1>2 DEF Entries

\* No identifier of a link is the mark for "none".
LEMMA NoneIsNoPlace == None \notin Places /\ None \notin Nodes
<1>1. Nodes \subseteq Nat /\ Root \in Nat
  BY LinkAssumption DEF Nodes
<1> QED BY <1>1 DEF Places, Nodes, None

\* by_link finds an entry of the link it is asked for.
LEMMA ByLinkFinds ==
  ASSUME NEW its \in Seq(Entries), NEW n \in Nodes \cup Places
  PROVE  /\ ByLink(its)[n] \in 0..Len(its)
         /\ ByLink(its)[n] # 0 => its[ByLink(its)[n]].node = n
<1> DEFINE at == {i \in DOMAIN its : its[i].node = n}
           best == CHOOSE i \in at : \A j \in at : j <= i
<1>1. n \in Nodes \cup {Root}
  BY DEF Places, Nodes
<1>2. ByLink(its)[n] = IF at = {} THEN 0 ELSE best
  BY <1>1 DEF ByLink
<1>3. Len(its) \in Nat /\ at \subseteq 1..Len(its)
  BY EntryTypes
<1>4. ASSUME at # {} PROVE best \in at
  <2> DEFINE S == {Len(its) - i : i \in at}
  <2>1. S \in SUBSET Nat /\ S # {}
    BY <1>3, <1>4
  <2>2. PICK m \in S : \A k \in S : m <= k
    <3> HIDE DEF S
    <3> QED BY <2>1, LeastElement
  <2>3. PICK i \in at : m = Len(its) - i
    BY <2>2
  <2>4. \A j \in at : Len(its) - i <= Len(its) - j
    BY <2>2, <2>3
  <2>5. \A j \in at : j <= i
    <3> HIDE DEF at
    <3> QED BY <1>3, <2>3, <2>4
  <2> HIDE DEF at, S
  <2> QED BY <2>3, <2>5
<1>5. CASE at = {}
  BY <1>2, <1>3, <1>5
<1>6. CASE at # {}
  <2>1. best \in at
    BY <1>4, <1>6
  <2>2. best \in 1..Len(its) /\ its[best].node = n
    <3>1. \A i \in at : i \in 1..Len(its) /\ its[i].node = n
      BY <1>3
    <3> HIDE DEF at, best
    <3> QED BY <2>1, <3>1
  <2>3. ByLink(its)[n] = best
    BY <1>2, <1>6
  <2> HIDE DEF best
  <2> QED BY <1>3, <2>2, <2>3
<1> QED BY <1>5, <1>6

LEMMA UpTypes ==
  ASSUME NEW its \in Seq(Entries), NEW at \in Rung
  PROVE  Up(its, at) \in Rung
<1>1. CASE at.pid = None
  BY <1>1 DEF Up
<1>2. CASE at.pid # None
  <2> DEFINE b == ByLink(its)[at.pid]
  <2>1. at.pid \in Places /\ at.depth \in Nat
    BY <1>2 DEF Rung
  <2>2. b \in 0..Len(its)
    BY <2>1, ByLinkFinds
  <2>3. b # 0 => its[b].parent \in Places
    BY <2>2, EntryTypes
  <2>4. Up(its, at) = [pid |-> IF b = 0 THEN None ELSE its[b].parent,
                       depth |-> at.depth + 1]
    BY <1>2 DEF Up
  <2> HIDE DEF b
  <2> QED BY <2>1, <2>3, <2>4 DEF Rung
<1> QED BY <1>1, <1>2

\* The loop starts at the parent and goes up round by round.
LEMMA ClimbRuns ==
  ASSUME NEW its \in Seq(Entries), NEW i \in 1..Len(its)
  PROVE  LET climb == Climb(its, i)
         IN  /\ climb[0] = [pid |-> its[i].parent, depth |-> 0]
             /\ \A k \in 1..DepthCap + 1 : climb[k] = Up(its, climb[k - 1])
             /\ \A k \in 0..DepthCap + 1 : climb[k] \in Rung
             /\ Depth(its, i) = climb[DepthCap + 1].depth
<1> DEFINE first == [pid |-> its[i].parent, depth |-> 0]
           climb == Climb(its, i)
           n == DepthCap + 1
           Round == [k \in 1..n |-> [at \in Rung |-> Up(its, at)]]
<1>1. n \in Nat /\ first \in Rung
  BY CapAssumption, EntryTypes DEF Rung
<1>2. \A k \in 1..n : \A at \in Rung : Round[k][at] \in Rung
  BY UpTypes
<1>3. PICK run : IsRun(run, n, Rung, first, Round)
  <2> HIDE DEF Round, first, n
  <2> QED BY <1>1, <1>2, LoopRuns
<1>4. \A k \in 1..n : run[k] = Up(its, run[k - 1])
  <2> SUFFICES ASSUME NEW k \in 1..n PROVE run[k] = Up(its, run[k - 1])
    OBVIOUS
  <2>1. k - 1 \in 0..n /\ run[k - 1] \in Rung
    BY <1>1, <1>3 DEF IsRun
  <2> QED BY <1>3, <2>1 DEF IsRun
<1>5. run = [k \in 0..n |-> IF k = 0 THEN first ELSE Up(its, run[k - 1])]
  <2> HIDE DEF first, n
  <2> QED BY <1>1, <1>3, <1>4 DEF IsRun
<1>6. climb = CHOOSE loop : loop = [k \in 0..n |-> IF k = 0 THEN first ELSE Up(its, loop[k - 1])]
  BY DEF Climb, Up
<1>7. climb = [k \in 0..n |-> IF k = 0 THEN first ELSE Up(its, climb[k - 1])]
  <2> HIDE DEF first, climb, n
  <2> QED BY <1>5, <1>6, Zenon
<1>8. climb[0] = first /\ \A k \in 1..n : climb[k] = Up(its, climb[k - 1])
  <2> HIDE DEF first, climb, n
  <2> QED BY <1>1, <1>7
<1>9. \A k \in 0..n : climb[k] \in Rung
  <2> DEFINE T == {k \in 0..n : climb[k] \in Rung}
  <2>1. 0 \in T
    <3> HIDE DEF first, climb, n
    <3> QED BY <1>1, <1>8
  <2>2. \A k \in 1..n : k - 1 \in T => k \in T
    <3> HIDE DEF first, climb, n
    <3> QED BY <1>1, <1>8, UpTypes
  <2>3. \A k \in 0..n : k \in T
    <3> HIDE DEF T, n
    <3> QED BY <1>1, <2>1, <2>2, EveryRound
  <2> QED BY <2>3
<1>10. Depth(its, i) = climb[DepthCap + 1].depth
  BY DEF Depth, Climb
<1> QED BY <1>8, <1>9, <1>10

LEMMA DepthNatural ==
  ASSUME NEW its \in Seq(Entries), NEW i \in 1..Len(its)
  PROVE  Depth(its, i) \in Nat
<1>1. DepthCap + 1 \in 0..DepthCap + 1
  BY CapAssumption
<1>2. /\ Climb(its, i)[DepthCap + 1] \in Rung
      /\ Depth(its, i) = Climb(its, i)[DepthCap + 1].depth
  BY <1>1, ClimbRuns
<1> QED BY <1>2 DEF Rung

\* While the loop goes on, the depth counts its rounds.
LEMMA ClimbCounts ==
  ASSUME NEW its \in Seq(Entries), NEW i \in 1..Len(its)
  PROVE  \A k \in 0..DepthCap + 1 :
           /\ Climb(its, i)[k].depth <= k
           /\ Climb(its, i)[k].pid # None => Climb(its, i)[k].depth = k
<1> DEFINE climb == Climb(its, i)
           n == DepthCap + 1
           T == {k \in 0..n : /\ climb[k].depth <= k
                              /\ climb[k].pid # None => climb[k].depth = k}
<1>1. n \in Nat
  BY CapAssumption
<1>2. /\ climb[0] = [pid |-> its[i].parent, depth |-> 0]
      /\ \A k \in 1..n : climb[k] = Up(its, climb[k - 1])
      /\ \A k \in 0..n : climb[k] \in Rung
  BY ClimbRuns
<1> HIDE DEF climb, n
<1>3. 0 \in T
  BY <1>1, <1>2
<1>4. ASSUME NEW k \in 1..n, k - 1 \in T PROVE k \in T
  <2>1. /\ climb[k] = Up(its, climb[k - 1]) /\ k - 1 \in 0..n /\ k \in 0..n
        /\ climb[k - 1].depth <= k - 1 /\ climb[k - 1].depth \in Nat
        /\ climb[k - 1].pid # None => climb[k - 1].depth = k - 1
    BY <1>1, <1>2, <1>4 DEF Rung
  <2>2. CASE climb[k - 1].pid = None
    BY <1>1, <2>1, <2>2 DEF Up
  <2>3. CASE climb[k - 1].pid # None
    <3>1. climb[k].depth = climb[k - 1].depth + 1
      BY <2>1, <2>3 DEF Up
    <3> QED BY <1>1, <2>1, <2>3, <3>1
  <2> QED BY <2>2, <2>3
<1>5. \A k \in 0..n : k \in T
  <2> HIDE DEF T
  <2>1. \A k \in 1..n : k - 1 \in T => k \in T
    BY <1>4
  <2> QED BY <1>1, <1>3, <2>1, EveryRound
<1> QED BY <1>5 DEF climb, n

\* An entry's loop is one round behind that of its parent's entry.
LEMMA ClimbAbove ==
  ASSUME NEW its \in Seq(Entries), NEW i \in 1..Len(its), NEW p \in 1..Len(its),
         p = ByLink(its)[its[i].parent]
  PROVE  \A k \in 0..DepthCap :
           /\ Climb(its, i)[k + 1].pid = Climb(its, p)[k].pid
           /\ Climb(its, i)[k + 1].depth = Climb(its, p)[k].depth + 1
<1> DEFINE low == Climb(its, i)
           high == Climb(its, p)
           n == DepthCap
           T == {k \in 0..n : /\ low[k + 1].pid = high[k].pid
                              /\ low[k + 1].depth = high[k].depth + 1}
<1>1. n \in Nat
  BY CapAssumption
<1>2. /\ low[0] = [pid |-> its[i].parent, depth |-> 0]
      /\ \A k \in 1..n + 1 : low[k] = Up(its, low[k - 1])
      /\ high[0] = [pid |-> its[p].parent, depth |-> 0]
      /\ \A k \in 1..n + 1 : high[k] = Up(its, high[k - 1])
      /\ \A k \in 0..n + 1 : low[k] \in Rung /\ high[k] \in Rung
  BY ClimbRuns
<1> HIDE DEF low, high, n
<1>3. 0 \in T
  <2>1. low[0].pid # None /\ low[0].depth = 0
    BY <1>2, EntryTypes, NoneIsNoPlace
  <2>2. low[1] = Up(its, low[0])
    BY <1>1, <1>2
  <2>3. low[1].pid = its[p].parent /\ low[1].depth = 1
    BY <1>2, <2>1, <2>2 DEF Up
  <2> QED BY <1>1, <1>2, <2>3
<1>4. ASSUME NEW k \in 1..n, k - 1 \in T PROVE k \in T
  <2>1. /\ low[(k - 1) + 1].pid = high[k - 1].pid
        /\ low[(k - 1) + 1].depth = high[k - 1].depth + 1
        /\ (k - 1) + 1 = k /\ k + 1 \in 1..n + 1 /\ k \in 1..n + 1 /\ (k + 1) - 1 = k
        /\ k \in 0..n
    BY <1>1, <1>4
  <2>2. low[k + 1] = Up(its, low[k]) /\ high[k] = Up(its, high[k - 1])
    BY <1>2, <2>1
  <2>3. low[k].pid = high[k - 1].pid /\ low[k].depth = high[k - 1].depth + 1
    BY <2>1
  <2>4. k - 1 \in 0..n + 1 /\ high[k - 1].depth \in Nat
    BY <1>1, <1>2 DEF Rung
  <2>5. CASE low[k].pid = None
    BY <2>1, <2>2, <2>3, <2>5 DEF Up
  <2>6. CASE low[k].pid # None
    <3>1. low[k + 1].pid = high[k].pid
      BY <2>2, <2>3, <2>6 DEF Up
    <3>2. low[k + 1].depth = low[k].depth + 1 /\ high[k].depth = high[k - 1].depth + 1
      BY <2>2, <2>3, <2>6 DEF Up
    <3> QED BY <2>1, <2>3, <3>1, <3>2
  <2> QED BY <2>5, <2>6
<1>5. \A k \in 0..n : k \in T
  <2> HIDE DEF T
  <2>1. \A k \in 1..n : k - 1 \in T => k \in T
    BY <1>4
  <2> QED BY <1>1, <1>3, <2>1, EveryRound
<1> QED BY <1>5 DEF low, high, n

\* As long as the loop was not given up, a parent's entry is less deep.
LEMMA ParentLessDeep ==
  ASSUME NEW its \in Seq(Entries), NEW i \in 1..Len(its), NEW p \in 1..Len(its),
         p = ByLink(its)[its[i].parent],
         Depth(its, i) <= DepthCap
  PROVE  Depth(its, p) < Depth(its, i)
<1> DEFINE low == Climb(its, i)
           high == Climb(its, p)
           n == DepthCap
<1>1. n \in Nat
  BY CapAssumption
<1>2. low[n + 1].depth = high[n].depth + 1
  BY CapAssumption, ClimbAbove
<1>3. /\ Depth(its, i) = low[n + 1].depth /\ Depth(its, p) = high[n + 1].depth
      /\ high[n + 1] = Up(its, high[n]) /\ high[n] \in Rung
  <2>1. n + 1 \in 1..n + 1 /\ n \in 0..n + 1 /\ (n + 1) - 1 = n
    BY <1>1
  <2>2. /\ Depth(its, i) = low[n + 1].depth /\ Depth(its, p) = high[n + 1].depth
        /\ \A k \in 1..n + 1 : high[k] = Up(its, high[k - 1])
        /\ \A k \in 0..n + 1 : high[k] \in Rung
    BY ClimbRuns
  <2> HIDE DEF low, high, n
  <2> QED BY <2>1, <2>2
<1>4. high[n].pid # None => high[n].depth = n
  BY CapAssumption, ClimbCounts
<1> HIDE DEF low, high, n
<1>5. high[n].depth \in Nat /\ high[n].depth + 1 <= n
  BY <1>2, <1>3 DEF Rung, n
<1>6. high[n].pid = None
  BY <1>1, <1>4, <1>5
<1>7. high[n + 1] = high[n]
  BY <1>3, <1>6 DEF Up
<1> QED BY <1>2, <1>3, <1>5, <1>7

-----------------------------------------------------------------------------
(* The order by depth *)

DepthKeys(its) == [i \in DOMAIN its |-> Depth(its, i)]

LEMMA OrderSorts ==
  ASSUME NEW its \in Seq(Entries)
  PROVE  /\ Order(its) \in [1..Len(its) -> 1..Len(its)]
         /\ \A i \in 1..Len(its) : \E k \in 1..Len(its) : Order(its)[k] = i
         /\ \A k, m \in 1..Len(its) : Order(its)[k] = Order(its)[m] => k = m
         /\ \A k, m \in 1..Len(its) :
              Depth(its, Order(its)[k]) < Depth(its, Order(its)[m]) => k < m
<1> DEFINE n == Len(its)
           key == DepthKeys(its)
           order == Order(its)
<1>1. n \in Nat /\ DOMAIN its = 1..n
  BY EntryTypes
<1>2. key \in [1..n -> Nat]
  <2> SUFFICES ASSUME NEW i \in 1..n PROVE Depth(its, i) \in Nat
    BY <1>1 DEF DepthKeys
  <2> QED BY DepthNatural
<1> DEFINE Before(i) == {j \in DOMAIN its : \/ key[j] < key[i]
                                            \/ key[j] = key[i] /\ j < i}
<1>3. \A i \in 1..n : Before(i) = Sooner(n, key, i)
  <2> HIDE DEF n, key
  <2> QED BY <1>1 DEF Sooner
<1>4. order = [k \in DOMAIN its |->
                 CHOOSE i \in DOMAIN its : Cardinality(Before(i)) = k - 1]
  BY DEF Order, DepthKeys
<1> HIDE DEF n, key, order, Before
<1>5. ASSUME NEW k \in 1..n
      PROVE  order[k] \in 1..n /\ Cardinality(Sooner(n, key, order[k])) = k - 1
  <2>1. \E i \in 1..n : Cardinality(Sooner(n, key, i)) = k - 1
    BY <1>1, <1>2, EachRankTaken
  <2>2. \E i \in 1..n : Cardinality(Before(i)) = k - 1
    BY <1>3, <2>1
  <2>3. order[k] = CHOOSE i \in 1..n : Cardinality(Before(i)) = k - 1
    BY <1>1, <1>4
  <2>4. order[k] \in 1..n /\ Cardinality(Before(order[k])) = k - 1
    BY <2>2, <2>3, Zenon
  <2> QED BY <1>3, <2>4
<1>6. order \in [1..n -> 1..n]
  BY <1>1, <1>4, <1>5, Zenon
<1>7. /\ \A i \in 1..n : \E k \in 1..n : order[k] = i
      /\ \A k, m \in 1..n : order[k] = order[m] => k = m
      /\ \A k, m \in 1..n : key[order[k]] < key[order[m]] => k < m
  <2>1. \A k \in 1..n : Cardinality(Sooner(n, key, order[k])) = k - 1
    BY <1>5
  <2> QED BY <1>1, <1>2, <1>6, <2>1, SortedByRank
<1>8. \A k \in 1..n : key[order[k]] = Depth(its, order[k])
  BY <1>1, <1>5 DEF key, DepthKeys
<1>9. \A k, m \in 1..n : Depth(its, order[k]) < Depth(its, order[m]) => k < m
  BY <1>7, <1>8
<1> QED BY <1>6, <1>7, <1>9 DEF n, order

-----------------------------------------------------------------------------
(* The paths, entry by entry *)

Paths(its) == [1..Len(its) -> Seq(Nodes)]

\* What the loop of LocalPaths does with entry i.
Place(its, got, i) ==
  IF its[i].node \in BadNames \/ ByLink(its)[its[i].parent] = 0
  THEN got
  ELSE [got EXCEPT ![i] = Append(got[ByLink(its)[its[i].parent]], its[i].node)]

\* The loop of LocalPaths.
Placed(its) ==
  LET by == ByLink(its)
      order == Order(its)
      Put(got, i) ==
        IF its[i].node \in BadNames \/ by[its[i].parent] = 0
        THEN got
        ELSE [got EXCEPT ![i] = Append(got[by[its[i].parent]], its[i].node)]
      placed[k \in 0..Len(its)] ==
        IF k = 0 THEN [i \in DOMAIN its |-> <<>>]
                 ELSE Put(placed[k - 1], order[k])
  IN  placed

LEMMA PlaceTypes ==
  ASSUME NEW its \in Seq(Entries), NEW got \in Paths(its), NEW i \in 1..Len(its)
  PROVE  /\ Place(its, got, i) \in Paths(its)
         /\ \A j \in 1..Len(its) : j # i => Place(its, got, i)[j] = got[j]
<1> DEFINE p == ByLink(its)[its[i].parent]
<1>1. p \in 0..Len(its) /\ its[i].node \in Nodes /\ Len(its) \in Nat
  BY EntryTypes, ByLinkFinds
<1>2. p # 0 => Append(got[p], its[i].node) \in Seq(Nodes)
  <2> SUFFICES ASSUME p # 0 PROVE Append(got[p], its[i].node) \in Seq(Nodes)
    OBVIOUS
  <2>1. got[p] \in Seq(Nodes)
    <3> HIDE DEF p
    <3> QED BY <1>1 DEF Paths
  <2> HIDE DEF p
  <2> QED BY <1>1, <2>1, AppendProperties
<1>3. CASE its[i].node \in BadNames \/ p = 0
  BY <1>3 DEF Place
<1>4. CASE ~(its[i].node \in BadNames \/ p = 0)
  <2>1. Place(its, got, i) = [got EXCEPT ![i] = Append(got[p], its[i].node)]
    BY <1>4 DEF Place
  <2> HIDE DEF p
  <2> QED BY <1>2, <1>4, <2>1 DEF Paths
<1> QED BY <1>3, <1>4

\* The loop starts with no paths and places an entry in each round.
LEMMA PlacedRuns ==
  ASSUME NEW its \in Seq(Entries)
  PROVE  LET placed == Placed(its)
         IN  /\ placed[0] = [i \in 1..Len(its) |-> <<>>]
             /\ \A k \in 1..Len(its) :
                  placed[k] = Place(its, placed[k - 1], Order(its)[k])
             /\ \A k \in 0..Len(its) : placed[k] \in Paths(its)
             /\ LocalPaths(its) = placed[Len(its)]
<1> DEFINE n == Len(its)
           first == [i \in DOMAIN its |-> <<>>]
           order == Order(its)
           placed == Placed(its)
           Round == [k \in 1..n |-> [got \in Paths(its) |-> Place(its, got, order[k])]]
<1>1. n \in Nat /\ DOMAIN its = 1..n /\ first \in Paths(its)
  <2>1. n \in Nat /\ DOMAIN its = 1..n /\ <<>> \in Seq(Nodes)
    BY EntryTypes, EmptySeq
  <2> QED BY <2>1 DEF Paths
<1>2. \A k \in 1..n : order[k] \in 1..n
  BY OrderSorts
<1>3. \A k \in 1..n : \A got \in Paths(its) :
        /\ Place(its, got, order[k]) \in Paths(its)
        /\ Round[k][got] = Place(its, got, order[k])
  <2> HIDE DEF order
  <2> QED BY <1>2, PlaceTypes
<1>4. PICK run : IsRun(run, n, Paths(its), first, Round)
  <2>1. \A k \in 1..n : \A got \in Paths(its) : Round[k][got] \in Paths(its)
    <3> HIDE DEF Round, order, n
    <3> QED BY <1>3
  <2> HIDE DEF Round, first, n
  <2> QED BY <1>1, <2>1, LoopRuns
<1> HIDE DEF Round
<1>5. \A k \in 1..n : run[k] = Place(its, run[k - 1], order[k])
  <2> SUFFICES ASSUME NEW k \in 1..n PROVE run[k] = Place(its, run[k - 1], order[k])
    OBVIOUS
  <2> HIDE DEF n, order
  <2>1. k - 1 \in 0..n /\ run[k - 1] \in Paths(its) /\ run[k] = Round[k][run[k - 1]]
    BY <1>1, <1>4 DEF IsRun
  <2> QED BY <1>3, <2>1
<1>6. run = [k \in 0..n |-> IF k = 0 THEN first ELSE Place(its, run[k - 1], order[k])]
  <2> HIDE DEF first, n, order
  <2> QED BY <1>1, <1>4, <1>5 DEF IsRun
<1>7. placed = CHOOSE f : f = [k \in 0..n |-> IF k = 0 THEN first
                                              ELSE Place(its, f[k - 1], order[k])]
  BY DEF Placed, Place
<1>8. placed = [k \in 0..n |-> IF k = 0 THEN first ELSE Place(its, placed[k - 1], order[k])]
  <2> HIDE DEF first, placed, n, order
  <2> QED BY <1>6, <1>7, Zenon
<1>9. placed[0] = first /\ \A k \in 1..n : placed[k] = Place(its, placed[k - 1], order[k])
  <2> HIDE DEF first, placed, n, order
  <2> QED BY <1>1, <1>8
<1>10. \A k \in 0..n : placed[k] \in Paths(its)
  <2> DEFINE T == {k \in 0..n : placed[k] \in Paths(its)}
  <2> HIDE DEF first, placed, n, order
  <2>1. 0 \in T
    BY <1>1, <1>9
  <2>2. \A k \in 1..n : k - 1 \in T => k \in T
    BY <1>1, <1>3, <1>9
  <2>3. \A k \in 0..n : k \in T
    <3> HIDE DEF T
    <3> QED BY <1>1, <2>1, <2>2, EveryRound
  <2> QED BY <2>3
<1>11. LocalPaths(its) = placed[n]
  BY DEF LocalPaths, Placed
<1>12. first = [i \in 1..n |-> <<>>]
  BY <1>1
<1> QED BY <1>9, <1>10, <1>11, <1>12

\* What is placed stays: a path is that of the round its entry came in.
LEMMA PlacedStays ==
  ASSUME NEW its \in Seq(Entries), NEW m \in 1..Len(its)
  PROVE  \A k \in m..Len(its) :
           Placed(its)[k][Order(its)[m]] = Placed(its)[m][Order(its)[m]]
<1> DEFINE n == Len(its)
           placed == Placed(its)
           order == Order(its)
           T == {d \in 0..n - m : placed[m + d][order[m]] = placed[m][order[m]]}
<1>1. n \in Nat /\ m \in 1..n /\ n - m \in Nat
  BY EntryTypes
<1>2. /\ \A k \in 1..n : placed[k] = Place(its, placed[k - 1], order[k])
      /\ \A k \in 0..n : placed[k] \in Paths(its)
  BY PlacedRuns
<1>3. order \in [1..n -> 1..n] /\ \A k, l \in 1..n : order[k] = order[l] => k = l
  BY OrderSorts
<1>4. \A got \in Paths(its) : \A i, j \in 1..n : j # i => Place(its, got, i)[j] = got[j]
  BY PlaceTypes
<1> HIDE DEF n, placed, order
<1>5. 0 \in T
  <2>1. m + 0 = m
    BY <1>1
  <2> QED BY <1>1, <2>1
<1>6. ASSUME NEW d \in 1..n - m, d - 1 \in T PROVE d \in T
  <2>1. /\ m + d \in 1..n /\ m # m + d /\ (m + d) - 1 = m + (d - 1)
        /\ m + (d - 1) \in 0..n /\ d \in 0..n - m
    BY <1>1
  <2>2. placed[m + d] = Place(its, placed[m + (d - 1)], order[m + d])
    BY <1>2, <2>1
  <2>3. order[m] # order[m + d] /\ order[m] \in 1..n /\ order[m + d] \in 1..n
    BY <1>1, <1>3, <2>1
  <2>4. placed[m + d][order[m]] = placed[m + (d - 1)][order[m]]
    BY <1>2, <1>4, <2>1, <2>2, <2>3
  <2> QED BY <1>6, <2>1, <2>4
<1>7. \A d \in 0..n - m : d \in T
  <2> HIDE DEF T
  <2>1. \A d \in 1..n - m : d - 1 \in T => d \in T
    BY <1>6
  <2> QED BY <1>1, <1>5, <2>1, EveryRound
<1>8. \A k \in m..n : placed[k][order[m]] = placed[m][order[m]]
  <2> SUFFICES ASSUME NEW k \in m..n PROVE placed[k][order[m]] = placed[m][order[m]]
    OBVIOUS
  <2>1. k - m \in 0..n - m /\ m + (k - m) = k
    BY <1>1
  <2> QED BY <1>7, <2>1
<1> QED BY <1>8 DEF n, placed, order

\* As long as no loop was given up, every path extends that of its parent's
\* entry: the order put that entry before it, and its path no longer changes.
LEMMA PathsFollow ==
  ASSUME NEW its \in Seq(Entries), NEW i \in 1..Len(its),
         \A j \in 1..Len(its) : Depth(its, j) <= DepthCap,
         its[i].node \notin BadNames,
         ByLink(its)[its[i].parent] # 0
  PROVE  LocalPaths(its)[i] =
           Append(LocalPaths(its)[ByLink(its)[its[i].parent]], its[i].node)
<1> DEFINE n == Len(its)
           placed == Placed(its)
           order == Order(its)
           p == ByLink(its)[its[i].parent]
<1>1. n \in Nat /\ p \in 1..n
  <2>1. n \in Nat /\ its[i].parent \in Places
    BY EntryTypes
  <2> QED BY <2>1, ByLinkFinds
<1>2. PICK k \in 1..n : order[k] = i
  BY OrderSorts
<1>3. PICK m \in 1..n : order[m] = p
  BY <1>1, OrderSorts
<1>4. Depth(its, p) < Depth(its, i)
  BY <1>1, ParentLessDeep
<1>5. m < k
  BY <1>2, <1>3, <1>4, OrderSorts
<1>6. i # p
  <2>1. Depth(its, i) \in Nat
    BY DepthNatural
  <2> HIDE DEF p
  <2> QED BY <1>4, <2>1
<1>7. /\ placed[k] = Place(its, placed[k - 1], i)
      /\ placed[k - 1] \in Paths(its)
      /\ LocalPaths(its) = placed[n]
  <2>1. k - 1 \in 0..n
    BY <1>1
  <2> HIDE DEF n, p
  <2> QED BY <1>2, <2>1, PlacedRuns DEF n
<1>8. placed[k][i] = Append(placed[k - 1][p], its[i].node)
  <2>1. placed[k] = [placed[k - 1] EXCEPT ![i] = Append(placed[k - 1][p], its[i].node)]
    BY <1>7 DEF Place
  <2>2. i \in DOMAIN placed[k - 1]
    BY <1>7 DEF Paths
  <2> HIDE DEF placed, p
  <2> QED BY <2>1, <2>2
<1>9. placed[n][i] = placed[k][i]
  <2>1. n \in k..n
    BY <1>1
  <2> QED BY <1>2, <2>1, PlacedStays
<1>10. placed[n][p] = placed[m][p] /\ placed[k - 1][p] = placed[m][p]
  <2>1. n \in m..n /\ k - 1 \in m..n
    BY <1>1, <1>5
  <2> HIDE DEF p
  <2> QED BY <1>3, <2>1, PlacedStays
<1> QED
  <2> HIDE DEF placed, p, n
  <2> QED BY <1>7, <1>8, <1>9, <1>10 DEF p

-----------------------------------------------------------------------------
(* When the depth loop is not given up *)

\* What a round of the loop tells of the entry it goes up from.
LEMMA ClimbUp ==
  ASSUME NEW its \in Seq(Entries), NEW i \in 1..Len(its),
         NEW k \in 1..DepthCap + 1, Climb(its, i)[k].pid # None
  PROVE  LET pid == Climb(its, i)[k - 1].pid
         IN  /\ pid \in Places /\ ByLink(its)[pid] \in 1..Len(its)
             /\ its[ByLink(its)[pid]].node = pid
             /\ its[ByLink(its)[pid]].parent = Climb(its, i)[k].pid
<1> DEFINE at == Climb(its, i)[k - 1]
           next == Climb(its, i)[k]
           b == ByLink(its)[at.pid]
<1>1. next = Up(its, at) /\ at \in Rung
  <2>1. k - 1 \in 0..DepthCap + 1
    BY CapAssumption
  <2> QED BY <2>1, ClimbRuns
<1>2. at.pid # None
  <2> HIDE DEF at
  <2> QED BY <1>1 DEF Up
<1>3. at.pid \in Places
  <2> HIDE DEF at
  <2> QED BY <1>1, <1>2 DEF Rung
<1>4. b \in 0..Len(its) /\ (b # 0 => its[b].node = at.pid)
  <2> HIDE DEF at
  <2> QED BY <1>3, ByLinkFinds
<1>5. next.pid = IF b = 0 THEN None ELSE its[b].parent
  <2> HIDE DEF at, next
  <2> QED BY <1>1, <1>2 DEF Up
<1>6. b # 0
  BY <1>5
<1> HIDE DEF at, next, b
<1>7. Len(its) \in Nat
  BY EntryTypes
<1> QED BY <1>3, <1>4, <1>5, <1>6, <1>7 DEF at, next, b

\* A loop that reached "none" before its last round was not given up.
LEMMA ClimbEnds ==
  ASSUME NEW its \in Seq(Entries), NEW i \in 1..Len(its),
         Climb(its, i)[DepthCap].pid = None
  PROVE  Depth(its, i) <= DepthCap
<1> DEFINE climb == Climb(its, i)
           n == DepthCap
<1>1. n \in Nat /\ n \in 0..n + 1 /\ n + 1 \in 1..n + 1 /\ (n + 1) - 1 = n
  BY CapAssumption
<1>2. /\ \A k \in 1..n + 1 : climb[k] = Up(its, climb[k - 1])
      /\ Depth(its, i) = climb[n + 1].depth
  BY ClimbRuns
<1>3. climb[n].depth <= n
  BY <1>1, ClimbCounts
<1> HIDE DEF climb, n
<1>4. climb[n + 1] = climb[n]
  BY <1>1, <1>2 DEF Up, climb, n
<1> QED BY <1>2, <1>3, <1>4 DEF n

\* Entries on levels, each below its parent's and no more than DepthCap of
\* them: folders nested no deeper than the loop goes up.
Levels(its, level) ==
  /\ level \in [1..Len(its) -> 1..DepthCap]
  /\ \A i \in 1..Len(its) :
       LET p == ByLink(its)[its[i].parent]
       IN  p # 0 => level[p] < level[i]

LEMMA LevelsWithinCap ==
  ASSUME NEW its \in Seq(Entries), NEW i \in 1..Len(its), NEW level, Levels(its, level)
  PROVE  Depth(its, i) <= DepthCap
<1> DEFINE pid(k) == Climb(its, i)[k].pid
           e(k) == ByLink(its)[pid(k)]
           T == {k \in 0..DepthCap :
                   pid(k) # None /\ e(k) # 0 => level[e(k)] + k < level[i]}
<1>1. DepthCap \in Nat /\ Len(its) \in Nat
  BY CapAssumption, EntryTypes
<1>2. /\ level \in [1..Len(its) -> 1..DepthCap]
      /\ \A j \in 1..Len(its) :
           ByLink(its)[its[j].parent] # 0 => level[ByLink(its)[its[j].parent]] < level[j]
  BY DEF Levels
<1>3. \A k \in 0..DepthCap : pid(k) # None => pid(k) \in Places /\ e(k) \in 0..Len(its)
  <2> SUFFICES ASSUME NEW k \in 0..DepthCap, pid(k) # None
               PROVE  pid(k) \in Places /\ e(k) \in 0..Len(its)
    OBVIOUS
  <2>1. k \in 0..DepthCap + 1
    BY <1>1
  <2>2. Climb(its, i)[k] \in Rung
    BY <2>1, ClimbRuns
  <2>3. pid(k) \in Places
    BY <2>2 DEF Rung
  <2> QED BY <2>3, ByLinkFinds
<1>4. 0 \in T
  <2>1. pid(0) = its[i].parent
    <3>1. Climb(its, i)[0] = [pid |-> its[i].parent, depth |-> 0]
      BY ClimbRuns
    <3> QED BY <3>1
  <2>2. e(0) # 0 => level[e(0)] < level[i]
    BY <1>2, <2>1
  <2>3. its[i].parent \in Places /\ e(0) \in 0..Len(its)
    BY <2>1, EntryTypes, ByLinkFinds
  <2> HIDE DEF pid, e
  <2> QED BY <1>1, <1>2, <2>2, <2>3
<1>5. ASSUME NEW k \in 1..DepthCap, k - 1 \in T PROVE k \in T
  <2> SUFFICES ASSUME pid(k) # None, e(k) # 0 PROVE level[e(k)] + k < level[i]
    BY <1>1
  <2>0. k \in 1..DepthCap + 1 /\ k \in 0..DepthCap /\ k - 1 \in 0..DepthCap
    BY <1>1
  <2>1. /\ pid(k - 1) \in Places /\ e(k - 1) \in 1..Len(its)
        /\ its[e(k - 1)].parent = pid(k)
    BY <2>0, ClimbUp
  <2>2. pid(k - 1) # None /\ e(k - 1) # 0
    BY <1>1, <2>1, NoneIsNoPlace
  <2>3. level[e(k - 1)] + (k - 1) < level[i]
    BY <1>5, <2>2
  <2>4. level[e(k)] < level[e(k - 1)]
    BY <1>2, <2>1
  <2>5. e(k) \in 1..Len(its)
    BY <1>1, <1>3, <2>0
  <2>6. level[e(k)] \in Nat /\ level[e(k - 1)] \in Nat /\ level[i] \in Nat
    <3> HIDE DEF pid, e
    <3> QED BY <1>2, <2>1, <2>5
  <2> HIDE DEF pid, e
  <2> QED BY <1>1, <2>0, <2>3, <2>4, <2>6
<1>6. \A k \in 0..DepthCap : k \in T
  <2> HIDE DEF T
  <2>1. \A k \in 1..DepthCap : k - 1 \in T => k \in T
    BY <1>5
  <2> QED BY <1>1, <1>4, <2>1, EveryRound
<1>7. pid(DepthCap) = None
  <2> SUFFICES ASSUME pid(DepthCap) # None PROVE FALSE
    OBVIOUS
  <2>1. DepthCap \in 1..DepthCap + 1 /\ DepthCap - 1 \in 0..DepthCap
    BY <1>1, <1>2
  <2>2. pid(DepthCap - 1) \in Places /\ e(DepthCap - 1) \in 1..Len(its)
    BY <2>1, ClimbUp
  <2>3. level[e(DepthCap - 1)] + (DepthCap - 1) < level[i]
    BY <1>1, <1>6, <2>1, <2>2, NoneIsNoPlace
  <2> HIDE DEF pid, e
  <2> QED BY <1>1, <1>2, <2>2, <2>3
<1> QED BY <1>7, ClimbEnds

\* No entries have their parents' entries only among each other.
NoCycle(its) ==
  \A S \in SUBSET DOMAIN its \ {{}} : \E i \in S : ByLink(its)[its[i].parent] \notin S

\* Without a cycle the loop meets another folder in each round, and there are
\* not as many as it goes up.
LEMMA AcyclicWithinCap ==
  ASSUME NEW its \in Seq(Entries), NEW i \in 1..Len(its), NoCycle(its),
         IsFiniteSet(Folders), Cardinality(Folders) < DepthCap
  PROVE  Depth(its, i) <= DepthCap
<1> DEFINE n == DepthCap
           pid == [k \in 0..n |-> Climb(its, i)[k].pid]
           e == [k \in 0..n |-> ByLink(its)[pid[k]]]
<1>1. n \in Nat /\ DOMAIN its = 1..Len(its) /\ Len(its) \in Nat
  BY CapAssumption, EntryTypes
<1> SUFFICES ASSUME pid[n] # None PROVE FALSE
  <2>1. n \in 0..n
    BY <1>1
  <2> QED BY <2>1, ClimbEnds
<1>2. ASSUME NEW k \in 1..n, pid[k] # None PROVE pid[k - 1] # None
  <2>1. k \in 1..n + 1 /\ k - 1 \in 0..n /\ k \in 0..n
    BY <1>1
  <2>2. pid[k - 1] \in Places
    BY <1>2, <2>1, ClimbUp
  <2> QED BY <2>2, NoneIsNoPlace
<1>3. \A k \in 0..n : pid[k] # None
  <2> DEFINE T == {d \in 0..n : pid[n - d] # None}
  <2> HIDE DEF n, pid
  <2>1. 0 \in T
    BY <1>1
  <2>2. ASSUME NEW d \in 1..n, d - 1 \in T PROVE d \in T
    <3>1. n - (d - 1) \in 1..n /\ (n - (d - 1)) - 1 = n - d /\ pid[n - (d - 1)] # None
      BY <1>1, <2>2
    <3>2. pid[n - d] # None
      BY <1>2, <3>1
    <3> QED BY <1>1, <3>2
  <2>3. \A d \in 0..n : d \in T
    <3> HIDE DEF T
    <3>1. \A d \in 1..n : d - 1 \in T => d \in T
      BY <2>2
    <3> QED BY <1>1, <2>1, <3>1, EveryRound
  <2> SUFFICES ASSUME NEW k \in 0..n PROVE pid[k] # None
    OBVIOUS
  <2>4. n - k \in 0..n /\ n - (n - k) = k
    BY <1>1
  <2> QED BY <2>3, <2>4
<1>4. \A k \in 0..n - 1 :
        /\ pid[k] \in Folders /\ e[k] \in 1..Len(its)
        /\ its[e[k]].parent = pid[k + 1]
  <2> SUFFICES ASSUME NEW k \in 0..n - 1
               PROVE  /\ pid[k] \in Folders /\ e[k] \in 1..Len(its)
                      /\ its[e[k]].parent = pid[k + 1]
    OBVIOUS
  <2>1. k + 1 \in 1..n + 1 /\ (k + 1) - 1 = k /\ k \in 0..n /\ k + 1 \in 0..n
    BY <1>1
  <2>2. pid[k + 1] # None
    BY <1>3, <2>1
  <2>3. /\ pid[k] \in Places /\ e[k] \in 1..Len(its)
        /\ its[e[k]].node = pid[k] /\ its[e[k]].parent = pid[k + 1]
    <3>1. Climb(its, i)[k + 1].pid # None
      BY <2>1, <2>2
    <3>2. LET c == Climb(its, i)[(k + 1) - 1].pid
          IN  /\ c \in Places /\ ByLink(its)[c] \in 1..Len(its)
              /\ its[ByLink(its)[c]].node = c
              /\ its[ByLink(its)[c]].parent = Climb(its, i)[k + 1].pid
      BY <2>1, <3>1, ClimbUp
    <3> QED BY <2>1, <3>2
  <2>4. pid[k] \in Nodes
    BY <2>3, EntryTypes
  <2>5. Root \notin Nodes
    BY LinkAssumption DEF Nodes
  <2> QED BY <2>3, <2>4, <2>5 DEF Places
<1> HIDE DEF pid
<1>5. \A k \in 0..n - 1 : k \in 0..n /\ e[k] = ByLink(its)[pid[k]]
  BY <1>1
<1> HIDE DEF e, n
<1>6. ASSUME NEW j \in 0..n - 1, NEW k \in 0..n - 1, j < k, pid[j] = pid[k]
      PROVE  FALSE
  <2> DEFINE S == {e[l] : l \in j..k - 1}
  <2>1. j..k - 1 \subseteq 0..n - 1 /\ j \in j..k - 1
    BY <1>1, <1>6
  <2>2. S \in SUBSET DOMAIN its /\ S # {}
    BY <1>1, <1>4, <2>1
  <2>3. ASSUME NEW l \in j..k - 1 PROVE ByLink(its)[its[e[l]].parent] \in S
    <3>1. l \in 0..n - 1 /\ l + 1 \in 0..n - 1
      BY <1>1, <1>6
    <3>2. its[e[l]].parent = pid[l + 1] /\ e[l + 1] = ByLink(its)[pid[l + 1]]
      BY <1>4, <1>5, <3>1
    <3>3. CASE l + 1 = k
      <4>1. e[k] = e[j]
        BY <1>5, <1>6
      <4> QED BY <2>1, <3>2, <3>3, <4>1
    <3>4. CASE l + 1 # k
      <4>1. l + 1 \in j..k - 1
        BY <1>1, <3>4
      <4> QED BY <3>2, <4>1
    <3> QED BY <3>3, <3>4
  <2>4. \A x \in S : ByLink(its)[its[x].parent] \in S
    BY <2>3
  <2> HIDE DEF S
  <2> QED BY <2>2, <2>4 DEF NoCycle
<1>7. \A j, k \in 0..n - 1 : j # k => pid[j] # pid[k]
  BY <1>1, <1>6
<1> DEFINE met == [k \in 0..n - 1 |-> pid[k]]
<1>8. met \in [0..n - 1 -> Folders]
  BY <1>4
<1>9. IsFiniteSet(0..n - 1) /\ Cardinality(0..n - 1) = n
  <2>1. 0 \in Int /\ n - 1 \in Int
    BY <1>1
  <2>2. /\ IsFiniteSet(0..n - 1)
        /\ Cardinality(0..n - 1) = IF 0 > n - 1 THEN 0 ELSE (n - 1) - 0 + 1
    BY <2>1, FS_Interval
  <2> QED BY <1>1, <2>2
<1>10. \E x, y \in 0..n - 1 : x # y /\ met[x] = met[y]
  <2>1. Cardinality(Folders) < Cardinality(0..n - 1)
    BY <1>9 DEF n
  <2> HIDE DEF met
  <2> QED BY <1>8, <1>9, <2>1, FS_PigeonHole
<1> QED BY <1>7, <1>10

-----------------------------------------------------------------------------
(* Paths follow parents *)

\* The paths of a pass are those its entries determine.
PathsMade == pc = "done" => paths = LocalPaths(items)
PathInv == TypeInv /\ PathsMade

LEMMA InitPaths == Init => PathInv
<1>1. Init => PathsMade
  BY DEF Init, PathsMade
<1> QED BY <1>1, InitTypes DEF PathInv

LEMMA PathStep == PathInv /\ [Next]_vars => PathInv'
<1> SUFFICES ASSUME PathInv, [Next]_vars PROVE PathsMade'
  BY TypeStep DEF PathInv
<1>1. PathsMade
  BY DEF PathInv
<1>2. CASE \E n \in Nodes, f \in Folders \cup {Root} : Move(n, f)
  BY <1>1, <1>2 DEF Move, PathsMade, walk
<1>3. CASE \E n \in Nodes : Trash(n)
  BY <1>1, <1>3 DEF Trash, PathsMade, walk
<1>4. CASE StartWalk
  BY <1>4 DEF StartWalk, PathsMade
<1>5. CASE ListPage
  <2>1. pc' \in {"list", "visit"}
    BY <1>5 DEF ListPage
  <2> QED BY <2>1 DEF PathsMade
<1>6. CASE ListFails \/ Stall \/ FinishPass \/ Crash
  BY <1>6 DEF ListFails, Stall, FinishPass, Crash, LeavePass, PathsMade
<1>7. CASE \E unlocked \in BOOLEAN : Visit(unlocked)
  <2>1. pc' \in {"list", "visit"}
    BY <1>7 DEF Visit
  <2> QED BY <2>1 DEF PathsMade
<1>8. CASE Return
  BY <1>8 DEF Return, PathsMade
<1>9. CASE Resolve
  BY <1>9 DEF Resolve, PathsMade
<1>10. CASE UNCHANGED vars
  BY <1>1, <1>10 DEF PathsMade, vars, walk
<1> QED BY <1>2, <1>3, <1>4, <1>5, <1>6, <1>7, <1>8, <1>9, <1>10 DEF Next, WalkStep

\* No depth loop given up, every path follows.
LEMMA FollowWithinCap ==
  ASSUME PathInv, pc = "done",
         \A i \in 1..Len(items) : Depth(items, i) <= DepthCap
  PROVE  PathsFollowParents
<1>1. /\ items \in Seq(Entries) /\ DOMAIN items = 1..Len(items)
      /\ paths = LocalPaths(items)
  BY LenProperties DEF PathInv, PathsMade, TypeInv, ItemsType
<1>2. \A i \in 1..Len(items) :
        items[i].node \notin BadNames /\ ByLink(items)[items[i].parent] # 0 =>
          paths[i] = Append(paths[ByLink(items)[items[i].parent]], items[i].node)
  BY <1>1, PathsFollow
<1> QED BY <1>1, <1>2 DEF PathsFollowParents

\* Entries nested no deeper than the loop goes up get paths that follow their
\* parents, however many links there are, whatever moved during the walk and
\* however often a link was found (sync/mod.rs, lines 134-178).
PathsFollowParentsWithinCap ==
  pc = "done" /\ (\E level : Levels(items, level)) => PathsFollowParents

THEOREM NestedPathsFollow == Spec => []PathsFollowParentsWithinCap
<1>1. Spec => []PathInv
  BY InitPaths, PathStep, PTL DEF Spec
<1>2. PathInv => PathsFollowParentsWithinCap
  <2> SUFFICES ASSUME PathInv, pc = "done", NEW level, Levels(items, level)
               PROVE  PathsFollowParents
    BY DEF PathsFollowParentsWithinCap
  <2>1. items \in Seq(Entries)
    BY DEF PathInv, TypeInv, ItemsType
  <2> QED BY <2>1, LevelsWithinCap, FollowWithinCap
<1> QED BY <1>1, <1>2, PTL

\* With fewer folders than the loop goes up, only a cycle among the parents
\* recorded can keep a path from following its parent's.
THEOREM AcyclicPathsFollow ==
  ASSUME IsFiniteSet(Folders), Cardinality(Folders) < DepthCap
  PROVE  Spec => []PathsFollowParentsUnlessCyclic
<1>1. Spec => []PathInv
  BY InitPaths, PathStep, PTL DEF Spec
<1>2. PathInv => PathsFollowParentsUnlessCyclic
  <2> SUFFICES ASSUME PathInv, pc = "done", ParentsAcyclic
               PROVE  PathsFollowParents
    BY DEF PathsFollowParentsUnlessCyclic
  <2>1. items \in Seq(Entries) /\ NoCycle(items)
    BY DEF PathInv, TypeInv, ItemsType, ParentsAcyclic, NoCycle
  <2> QED BY <2>1, AcyclicWithinCap, FollowWithinCap
<1> QED BY <1>1, <1>2, PTL
=============================================================================
