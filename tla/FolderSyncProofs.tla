---------------------------- MODULE FolderSyncProofs ----------------------------
(***************************************************************************)
(* Proofs about FolderSync, for any tree, any number of passes and any     *)
(* paths: types, that local directories have theirs above them, and that   *)
(* every name, at its depth, was asked for.                                *)
(***************************************************************************)
EXTENDS FolderSync, SequenceTheorems, LeastNatural

-----------------------------------------------------------------------------
(* Sequences *)

LEMMA FrontIs ==
  ASSUME NEW S, NEW s \in Seq(S), s # <<>>
  PROVE  /\ Len(s) \in Nat \ {0}
         /\ Front(s) \in Seq(S)
         /\ Len(Front(s)) = Len(s) - 1
         /\ \A i \in 1..(Len(s) - 1) : Front(s)[i] = s[i]
<1> DEFINE n == Len(s) - 1
<1>1. Len(s) \in Nat \ {0} /\ \A i \in 1..Len(s) : s[i] \in S
  BY LenProperties, ElementOfSeq, EmptySeq
<1>2. n \in Int /\ \A i \in 1..n : s[i] \in S
  BY <1>1
<1>3. /\ SubSeq(s, 1, n) \in Seq(S)
      /\ Len(SubSeq(s, 1, n)) = IF 1 <= n THEN n - 1 + 1 ELSE 0
      /\ \A i \in 1..(n - 1 + 1) : SubSeq(s, 1, n)[i] = s[1 + i - 1]
  <2> HIDE DEF n
  <2> QED BY <1>2, SubSeqProperties
<1>4. n \in Nat /\ Front(s) = SubSeq(s, 1, n)
  BY <1>1 DEF Front
<1>5. \A i \in 1..n : Front(s)[i] = s[i]
  <2> SUFFICES ASSUME NEW i \in 1..n PROVE Front(s)[i] = s[i]
    OBVIOUS
  <2>1. 1 + i - 1 = i /\ i \in 1..(n - 1 + 1)
    <3> HIDE DEF n
    <3> QED BY <1>4
  <2>2. SubSeq(s, 1, n)[i] = s[1 + i - 1]
    BY <1>3, <2>1
  <2> QED BY <1>4, <2>1, <2>2
<1>6. Len(Front(s)) = n
  <2> HIDE DEF n
  <2> QED BY <1>3, <1>4
<1> QED BY <1>1, <1>3, <1>4, <1>5, <1>6

LEMMA FunctionIsSeq ==
  ASSUME NEW S, NEW n \in Nat, NEW f \in [1..n -> S]
  PROVE  f \in Seq(S) /\ Len(f) = n
<1>1. f \in Seq(S)
  BY SeqDef
<1>2. Len(f) \in Nat /\ DOMAIN f = 1..Len(f) /\ DOMAIN f = 1..n
  BY <1>1, LenProperties
<1> QED BY <1>1, <1>2

LEMMA SubSeqAt ==
  ASSUME NEW S, NEW s \in Seq(S), NEW k \in 0..Len(s)
  PROVE  /\ SubSeq(s, 1, k) \in Seq(S) /\ Len(SubSeq(s, 1, k)) = k
         /\ \A i \in 1..k : SubSeq(s, 1, k)[i] = s[i]
<1>1. k \in Nat /\ \A i \in 1..k : s[i] \in S
  BY LenProperties, ElementOfSeq
<1>2. /\ SubSeq(s, 1, k) \in Seq(S)
      /\ Len(SubSeq(s, 1, k)) = IF 1 <= k THEN k - 1 + 1 ELSE 0
      /\ \A i \in 1..(k - 1 + 1) : SubSeq(s, 1, k)[i] = s[1 + i - 1]
  BY <1>1, SubSeqProperties
<1>3. ASSUME NEW i \in 1..k PROVE SubSeq(s, 1, k)[i] = s[i]
  <2>1. 1 + i - 1 = i /\ i \in 1..(k - 1 + 1)
    BY <1>1
  <2>2. SubSeq(s, 1, k)[i] = s[1 + i - 1]
    BY <1>2, <2>1
  <2> QED BY <2>1, <2>2
<1>4. Len(SubSeq(s, 1, k)) = k
  BY <1>1, <1>2
<1> QED BY <1>2, <1>3, <1>4

LEMMA FrontInFront ==
  ASSUME NEW S, NEW s \in Seq(S), NEW n \in 1..Len(s)
  PROVE  /\ SubSeq(s, 1, n) \in Seq(S) /\ SubSeq(s, 1, n) # <<>>
         /\ Len(SubSeq(s, 1, n)) = n /\ Last(SubSeq(s, 1, n)) = s[n]
         /\ n > 1 => n - 1 \in 1..Len(s) /\ Front(SubSeq(s, 1, n)) = SubSeq(s, 1, n - 1)
<1>1. Len(s) \in Nat /\ n \in Nat \ {0} /\ \A i \in 1..Len(s) : s[i] \in S
  BY LenProperties, ElementOfSeq
<1> DEFINE t == SubSeq(s, 1, n)
<1>2. n \in 0..Len(s) /\ n \in 1..n
  BY <1>1
<1>3. t \in Seq(S) /\ Len(t) = n /\ t # <<>> /\ Last(t) = s[n]
  BY <1>1, <1>2, SubSeqAt, EmptySeq DEF Last
<1>4. ASSUME n > 1
      PROVE  n - 1 \in 1..Len(s) /\ Front(t) = SubSeq(s, 1, n - 1)
  <2> DEFINE u == SubSeq(s, 1, n - 1)
  <2>1. n - 1 \in 1..Len(s) /\ n - 1 \in 0..Len(s) /\ 1..(n - 1) \subseteq 1..n
    BY <1>1, <1>4
  <2>2. u \in Seq(S) /\ Len(u) = n - 1 /\ \A i \in 1..(n - 1) : u[i] = s[i]
    BY <2>1, SubSeqAt
  <2>3. /\ Front(t) \in Seq(S) /\ Len(Front(t)) = n - 1
        /\ \A i \in 1..(n - 1) : Front(t)[i] = t[i]
    BY <1>3, FrontIs
  <2>4. \A i \in 1..(n - 1) : t[i] = s[i]
    BY <1>2, <2>1, SubSeqAt
  <2>5. Front(t) = u
    <3> HIDE DEF t, u
    <3> QED BY <2>2, <2>3, <2>4, SeqEqual
  <2> QED BY <2>1, <2>5
<1> QED BY <1>3, <1>4

LEMMA BelowFront ==
  ASSUME NEW S, NEW p \in Seq(S), NEW d \in Seq(S), d # <<>>, IsPrefix(p, Front(d))
  PROVE  IsPrefix(p, d)
<1> DEFINE f == Front(d)
           k == Len(p)
<1>1. k \in Nat /\ Len(d) \in Nat \ {0} /\ f \in Seq(S) /\ Len(f) = Len(d) - 1
      /\ \A i \in 1..(Len(d) - 1) : f[i] = d[i]
  BY FrontIs, LenProperties
<1>2. k <= Len(f) /\ SubSeq(p, 1, k) = SubSeq(f, 1, k)
  BY DEF IsPrefix
<1>3. /\ k <= Len(d) /\ 1..k \subseteq 1..Len(d) /\ 1..k \subseteq 1..Len(f)
      /\ 1..k \subseteq 1..(Len(d) - 1)
  <2> HIDE DEF k, f
  <2> QED BY <1>1, <1>2
<1>4. CASE k = 0
  <2>1. SubSeq(d, 1, 0) = <<>> /\ SubSeq(p, 1, 0) = <<>>
    BY SubSeqProperties, EmptySeq
  <2> QED BY <1>3, <1>4, <2>1 DEF IsPrefix
<1>5. CASE k # 0
  <2>1. k \in 1..Len(d) /\ k \in 1..Len(f)
    <3> HIDE DEF k, f
    <3> QED BY <1>1, <1>2, <1>3, <1>5
  <2>2. /\ SubSeq(d, 1, k) \in Seq(S) /\ Len(SubSeq(d, 1, k)) = k
        /\ SubSeq(f, 1, k) \in Seq(S) /\ Len(SubSeq(f, 1, k)) = k
    BY <1>1, <2>1, FrontInFront
  <2>3. ASSUME NEW i \in 1..k
        PROVE  SubSeq(d, 1, k)[i] = SubSeq(f, 1, k)[i]
    <3>1. k \in 0..Len(d) /\ k \in 0..Len(f)
      <4> HIDE DEF k, f
      <4> QED BY <1>1, <2>1
    <3>2. SubSeq(d, 1, k)[i] = d[i] /\ SubSeq(f, 1, k)[i] = f[i]
      BY <1>1, <3>1, SubSeqAt
    <3> QED BY <1>1, <1>3, <3>2
  <2>4. SubSeq(d, 1, k) = SubSeq(f, 1, k)
    <3> HIDE DEF k, f
    <3> QED BY <2>2, <2>3, SeqEqual
  <2> QED BY <1>2, <1>3, <2>4 DEF IsPrefix
<1> QED BY <1>4, <1>5

-----------------------------------------------------------------------------
(* The forest of folders *)

LinkOK == link \in [Links -> Folder]
Forest == IsForest(link)
Trail(l) == link[l].trail
Used(l) == link[l].state # "unused"

\* What the trail of a folder says, entry by entry.
LEMMA TrailIs ==
  ASSUME NEW links \in [Links -> Folder], IsForest(links),
         NEW l \in Links, links[l].state # "unused"
  PROVE  /\ Len(links[l].trail) \in Nat \ {0}
         /\ DOMAIN links[l].trail = 1..Len(links[l].trail)
         /\ links[l].trail[Len(links[l].trail)] = l
         /\ links[l].trail \in Seq(Links)
         /\ \A i \in 1..Len(links[l].trail) : links[l].trail[i] \in Links
<1>1. links[l].trail \in Seq(Links)
  BY DEF Folder
<1>2. links[l].trail # <<>> /\ Last(links[l].trail) = l
  BY DEF IsForest
<1>3. Len(links[l].trail) # 0
  BY <1>1, <1>2, EmptySeq
<1> QED BY <1>1, <1>2, <1>3, LenProperties, ElementOfSeq DEF Last

LEMMA ParentIs ==
  ASSUME LinkOK, Forest, NEW l \in Links, Used(l)
  PROVE  Parent(l) = IF Len(Trail(l)) = 1 THEN Root ELSE Trail(l)[Len(Trail(l)) - 1]
<1> DEFINE t == Trail(l)
<1>1. t \in Seq(Links) /\ Len(t) \in Nat \ {0} /\ \A i \in 1..Len(t) : t[i] \in Links
  BY TrailIs DEF LinkOK, Forest, Used, Trail
<1>2. CASE Len(t) # 1
  <2>1. t # <<>>
    BY <1>1, EmptySeq
  <2>2. Last(Front(t)) = t[Len(t) - 1]
    <3> DEFINE f == Front(t)
    <3>1. Len(f) = Len(t) - 1 /\ \A i \in 1..(Len(t) - 1) : f[i] = t[i]
      BY <1>1, <2>1, FrontIs
    <3> HIDE DEF t, f
    <3>2. f[Len(f)] = t[Len(t) - 1]
      BY <1>1, <1>2, <3>1
    <3> QED BY <3>2 DEF Last, f
  <2> QED BY <1>2, <2>2 DEF Parent, Trail
<1>3. CASE Len(t) = 1
  BY <1>3 DEF Parent, Trail
<1> QED BY <1>2, <1>3

\* The path of a folder: the names along its trail, below the first.
LEMMA PathIs ==
  ASSUME NEW links \in [Links -> Folder], IsForest(links),
         NEW l \in Links, links[l].state # "unused"
  PROVE  /\ PathIn(links, l) \in Seq(Names)
         /\ Len(PathIn(links, l)) = Len(links[l].trail) - 1
         /\ \A i \in 1..Len(links[l].trail) - 1 :
              PathIn(links, l)[i] = links[links[l].trail[i + 1]].name
         /\ PathIn(links, l) # <<>> =>
              Spot(PathIn(links, l)) = <<Len(links[l].trail) - 1, links[l].name>>
<1> DEFINE t == links[l].trail
           n == Len(t) - 1
           path == PathIn(links, l)
<1>1. /\ Len(t) \in Nat \ {0} /\ t[Len(t)] = l /\ DOMAIN t = 1..Len(t)
      /\ \A i \in 1..Len(t) : t[i] \in Links
  BY TrailIs
<1>2. \A i \in 1..Len(t) : links[t[i]].state # "unused" /\ links[t[i]].name \in Names
  BY <1>1 DEF IsForest
<1>3. path = [i \in 1..n |-> links[t[i + 1]].name]
  BY DEF PathIn
<1>4. n \in Nat /\ \A i \in 1..n : links[t[i + 1]].name \in Names
  <2>1. \A i \in 1..n : i + 1 \in 1..Len(t)
    BY <1>1
  <2> QED BY <1>1, <1>2, <2>1
<1>5. path \in [1..n -> Names]
  <2> HIDE DEF t, n
  <2> QED BY <1>3, <1>4
<1>6. path \in Seq(Names) /\ Len(path) = n
  <2> HIDE DEF t, n, path
  <2> QED BY <1>4, <1>5, FunctionIsSeq
<1>7. path # <<>> => n > 0 /\ path[n] = links[l].name
  <2>1. path # <<>> => n # 0
    BY <1>6, EmptySeq
  <2>2. n > 0 => path[n] = links[t[n + 1]].name
    <3> HIDE DEF t, n, path
    <3> QED BY <1>3, <1>4
  <2>3. n + 1 = Len(t)
    BY <1>1
  <2> HIDE DEF n, path
  <2> QED BY <1>1, <1>4, <2>1, <2>2, <2>3
<1>8. \A i \in 1..n : path[i] = links[t[i + 1]].name
  BY <1>3
<1> QED BY <1>6, <1>7, <1>8 DEF Spot, Last

\* The same of the links as they are.
LEMMA TrailNow ==
  ASSUME LinkOK, Forest, NEW l \in Links, Used(l)
  PROVE  /\ Len(Trail(l)) \in Nat \ {0} /\ DOMAIN Trail(l) = 1..Len(Trail(l))
         /\ Trail(l) \in Seq(Links) /\ Trail(l)[Len(Trail(l))] = l
         /\ link[l].name \in Names
         /\ \A i \in 1..Len(Trail(l)) :
              /\ Trail(l)[i] \in Links /\ Used(Trail(l)[i])
              /\ Len(Trail(Trail(l)[i])) = i
              /\ \A j \in 1..i : Trail(Trail(l)[i])[j] = Trail(l)[j]
<1>1. /\ Len(link[l].trail) \in Nat \ {0}
      /\ DOMAIN link[l].trail = 1..Len(link[l].trail)
      /\ link[l].trail[Len(link[l].trail)] = l
      /\ link[l].trail \in Seq(Links)
      /\ \A i \in 1..Len(link[l].trail) : link[l].trail[i] \in Links
  BY TrailIs DEF LinkOK, Forest, Used
<1> QED BY <1>1 DEF LinkOK, Forest, IsForest, Used, Trail

\* A folder is entered if it is the root, or it and all above are active.
LEMMA EnteredIs ==
  ASSUME LinkOK, Forest, NEW l \in Links
  PROVE  l \in Entered <=>
           /\ link[l].state = "active"
           /\ \A i \in 1..Len(Trail(l)) : link[Trail(l)[i]].state = "active"
<1>1. l # Root
  BY LinksAssumption
<1>2. l \in Entered <=> l \in Active /\ Range(link[l].trail) \subseteq Active
  BY <1>1 DEF Entered
<1>3. l \in Active <=> link[l].state = "active"
  BY DEF Active, InState
<1>4. ASSUME link[l].state = "active"
      PROVE  Range(link[l].trail) \subseteq Active <=>
               \A i \in 1..Len(Trail(l)) : link[Trail(l)[i]].state = "active"
  BY <1>4, TrailNow DEF Range, Active, InState, Used, Trail
<1> QED BY <1>2, <1>3, <1>4

\* A folder is listed if its parent is entered; then all above are active.
LEMMA ListedIs ==
  ASSUME LinkOK, Forest, NEW l \in Links
  PROVE  l \in Listed <=>
           /\ link[l].state \in {"active", "trashed"}
           /\ \A i \in 1..(Len(Trail(l)) - 1) : link[Trail(l)[i]].state = "active"
<1>1. l \in Listed <=> link[l].state \in {"active", "trashed"} /\ Parent(l) \in Entered
  BY DEF Listed, Active, InState
<1>2. ASSUME link[l].state \in {"active", "trashed"}
      PROVE  Parent(l) \in Entered <=>
               \A i \in 1..(Len(Trail(l)) - 1) : link[Trail(l)[i]].state = "active"
  <2> DEFINE t == Trail(l)
             n == Len(t)
             k == t[n - 1]
  <2>0. Used(l) /\ n \in Nat \ {0}
    BY <1>2, TrailNow DEF Used
  <2>1. CASE n = 1
    <3>1. Parent(l) = Root /\ Root \in Entered
      BY <2>0, <2>1, ParentIs DEF Entered
    <3>2. \A i \in 1..(Len(Trail(l)) - 1) : link[Trail(l)[i]].state = "active"
      BY <2>1
    <3>3. Parent(l) \in Entered
      BY <3>1
    <3> QED BY <3>2, <3>3
  <2>2. CASE n # 1
    <3>1. Parent(l) = k
      BY <2>0, <2>2, ParentIs
    <3>2. n - 1 \in 1..n /\ n - 1 \in 1..(n - 1)
      <4> HIDE DEF n
      <4> QED BY <2>0, <2>2
    <3>3. /\ k \in Links /\ Len(Trail(k)) = n - 1
          /\ \A j \in 1..(n - 1) : Trail(k)[j] = t[j]
      BY <2>0, <3>2, TrailNow
    <3>4. k \in Entered <=> /\ link[k].state = "active"
                           /\ \A i \in 1..(n - 1) : link[t[i]].state = "active"
      BY <3>3, EnteredIs
    <3>5. link[k].state = "active" <=> link[t[n - 1]].state = "active"
      OBVIOUS
    <3> HIDE DEF k
    <3> QED BY <3>1, <3>2, <3>4, <3>5, Zenon DEF t, n
  <2> QED BY <2>1, <2>2
<1> QED BY <1>1, <1>2

\* The folders above a listed one are listed.
LEMMA AboveListed ==
  ASSUME LinkOK, Forest, NEW l \in Listed, NEW i \in 1..Len(Trail(l))
  PROVE  Trail(l)[i] \in Listed
<1> DEFINE k == Trail(l)[i]
<1>1. /\ l \in Links /\ link[l].state \in {"active", "trashed"}
      /\ \A j \in 1..(Len(Trail(l)) - 1) : link[Trail(l)[j]].state = "active"
  BY ListedIs DEF Listed, Active, InState
<1>2. /\ Len(Trail(l)) \in Nat \ {0} /\ Trail(l)[Len(Trail(l))] = l
      /\ k \in Links /\ Len(Trail(k)) = i
      /\ \A j \in 1..i : Trail(k)[j] = Trail(l)[j]
  BY <1>1, TrailNow DEF Used
<1>3. link[k].state \in {"active", "trashed"}
  BY <1>1, <1>2
<1>4. \A j \in 1..(i - 1) : link[Trail(k)[j]].state = "active"
  BY <1>1, <1>2
<1> QED BY <1>2, <1>3, <1>4, ListedIs

\* The next id is one that is not used yet.
LEMMA FreshIs ==
  ASSUME InState("unused") # {}
  PROVE  Fresh \in Links /\ ~Used(Fresh)
<1>1. InState("unused") \in SUBSET Nat
  BY LinksAssumption DEF InState
<1>2. \E l \in InState("unused") : \A k \in InState("unused") : l <= k
  BY <1>1, LeastElement
<1>3. Fresh \in InState("unused")
  BY <1>2 DEF Fresh
<1> QED BY <1>3 DEF InState, Used

-----------------------------------------------------------------------------
(* What steps do to the forest *)

\* Folders keep the place they were made at.
Stays == \A l \in Links : Used(l) => Used(l)' /\ Trail(l)' = Trail(l)

\* A new folder goes below its parent and changes nothing else.
LEMMA Added ==
  ASSUME LinkOK, Forest, NEW f, NEW name \in Names,
         Accepts(f, name), AddFolder(f, name)
  PROVE  /\ Fresh \in Links /\ ~Used(Fresh)
         /\ link'[Fresh].state # "unused"
         /\ \A l \in Links \ {Fresh} : link'[l] = link[l]
         /\ link'[Fresh].name = name
         /\ Len(link'[Fresh].trail) = IF f = Root THEN 1 ELSE Len(Trail(f)) + 1
         /\ LinkOK' /\ Forest' /\ Stays
<1> DEFINE n == Fresh
           base == IF f = Root THEN <<>> ELSE Trail(f)
           new == [trail |-> base \o <<n>>, name |-> name, hash |-> name,
                   state |-> "active"]
<1>1. n \in Links /\ ~Used(n)
  BY FreshIs DEF Accepts
<1>2. /\ base \in Seq(Links) /\ Len(base) \in Nat
      /\ Len(base) = IF f = Root THEN 0 ELSE Len(Trail(f))
      /\ \A i \in 1..Len(base) :
           /\ base[i] \in Links /\ Used(base[i]) /\ Len(Trail(base[i])) = i
           /\ \A j \in 1..i : Trail(base[i])[j] = base[j]
  <2>1. CASE f = Root
    BY <2>1, EmptySeq
  <2>2. CASE f # Root
    <3>1. f \in Links /\ Used(f)
      BY <2>2 DEF Accepts, Entered, Active, InState, Used
    <3> QED BY <2>2, <3>1, TrailNow
  <2> QED BY <2>1, <2>2
<1> HIDE DEF n, base
<1>3. /\ base \o <<n>> \in Seq(Links) /\ Len(base \o <<n>>) = Len(base) + 1
      /\ \A i \in 1..Len(base) : (base \o <<n>>)[i] = base[i]
      /\ (base \o <<n>>)[Len(base) + 1] = n
  <2>1. <<n>> \in Seq(Links) /\ Len(<<n>>) = 1 /\ <<n>>[1] = n
    BY <1>1
  <2>2. /\ base \o <<n>> \in Seq(Links)
        /\ Len(base \o <<n>>) = Len(base) + Len(<<n>>)
        /\ \A i \in 1..(Len(base) + Len(<<n>>)) :
             (base \o <<n>>)[i] = IF i <= Len(base) THEN base[i] ELSE <<n>>[i - Len(base)]
    BY <1>2, <2>1, ConcatProperties
  <2>3. Len(base) + 1 \in 1..(Len(base) + 1) /\ (Len(base) + 1) - Len(base) = 1
        /\ ~(Len(base) + 1 <= Len(base))
    BY <1>2
  <2> QED BY <1>2, <2>1, <2>2, <2>3
<1>4. link' = [link EXCEPT ![n] = new]
  BY DEF AddFolder, n, base, Trail
<1>5. new \in Folder
  BY <1>3 DEF Folder
<1>6. LinkOK'
  BY <1>4, <1>5 DEF LinkOK
<1>7. link'[n] = new /\ \A l \in Links \ {n} : link'[l] = link[l]
  BY <1>1, <1>4 DEF LinkOK
<1>8. Stays /\ link'[n].state # "unused"
  <2>1. link'[n].state = "active"
    BY <1>7
  <2>2. link'[n].state # "unused"
    BY <2>1
  <2>3. \A l \in Links : Used(l) => l # n
    BY <1>1
  <2> HIDE DEF new
  <2>4. Stays
    BY <1>7, <2>3 DEF Stays, Used, Trail
  <2> QED BY <2>2, <2>4
<1>9. Forest'
  <2> SUFFICES ASSUME NEW l \in Links, link'[l].state # "unused"
               PROVE  /\ link'[l].name \in Names
                      /\ link'[l].trail # <<>>
                      /\ Last(link'[l].trail) = l
                      /\ \A i \in DOMAIN link'[l].trail :
                           /\ link'[link'[l].trail[i]].state # "unused"
                           /\ Len(link'[link'[l].trail[i]].trail) = i
                           /\ \A j \in 1..i :
                                link'[link'[l].trail[i]].trail[j] = link'[l].trail[j]
    BY DEF Forest, IsForest
  <2>1. CASE l # n
    <3>1. link'[l] = link[l] /\ Used(l)
      BY <1>7, <2>1 DEF Used
    <3>2. /\ DOMAIN Trail(l) = 1..Len(Trail(l)) /\ Trail(l)[Len(Trail(l))] = l
          /\ link[l].name \in Names /\ Len(Trail(l)) \in Nat \ {0} /\ Trail(l) \in Seq(Links)
          /\ \A i \in 1..Len(Trail(l)) :
               /\ Trail(l)[i] \in Links /\ Used(Trail(l)[i])
               /\ Len(Trail(Trail(l)[i])) = i
               /\ \A j \in 1..i : Trail(Trail(l)[i])[j] = Trail(l)[j]
      BY <3>1, TrailNow
    <3>3. \A i \in 1..Len(Trail(l)) : link'[Trail(l)[i]] = link[Trail(l)[i]]
      BY <1>1, <1>7, <3>2
    <3> QED BY <3>1, <3>2, <3>3, EmptySeq DEF Used, Trail, Last
  <2>2. CASE l = n
    <3> DEFINE t == base \o <<n>>
    <3>1. link'[n].trail = t /\ link'[n].name = name
      BY <1>7
    <3>2. t # <<>> /\ Last(t) = n /\ DOMAIN t = 1..(Len(base) + 1)
      BY <1>2, <1>3, EmptySeq, LenProperties DEF Last
    <3>3. \A i \in 1..Len(base) : link'[base[i]] = link[base[i]]
      BY <1>1, <1>2, <1>7
    <3>4. ASSUME NEW i \in 1..(Len(base) + 1)
          PROVE  /\ link'[t[i]].state # "unused" /\ Len(link'[t[i]].trail) = i
                 /\ \A j \in 1..i : link'[t[i]].trail[j] = t[j]
      <4>1. CASE i = Len(base) + 1
        <5>1. t[i] = n
          BY <1>3, <4>1
        <5> QED BY <1>3, <1>7, <3>1, <4>1, <5>1
      <4>2. CASE i # Len(base) + 1
        <5>1. i \in 1..Len(base) /\ 1..i \subseteq 1..Len(base)
          BY <1>2, <4>2
        <5>2. t[i] = base[i] /\ \A j \in 1..i : t[j] = base[j]
          BY <1>3, <5>1
        <5> HIDE DEF t
        <5> QED BY <1>2, <3>3, <5>1, <5>2 DEF Used, Trail
      <4> QED BY <4>1, <4>2
    <3> HIDE DEF t
    <3> QED BY <2>2, <3>1, <3>2, <3>4
  <2> QED BY <2>1, <2>2
<1>10. Len(link'[n].trail) = IF f = Root THEN 1 ELSE Len(Trail(f)) + 1
  BY <1>2, <1>3, <1>7
<1> QED BY <1>1, <1>6, <1>7, <1>8, <1>9, <1>10 DEF n

\* Other names or states leave the forest as it is.
LEMMA Relabelled ==
  ASSUME LinkOK, Forest,
         \A k \in Links : /\ link'[k].trail = link[k].trail
                          /\ link[k].state # "unused" => link'[k].state # "unused"
                          /\ link'[k].state # "unused" => link[k].state # "unused"
                          /\ link'[k].state # "unused" => link'[k].name \in Names
  PROVE  Forest' /\ Stays
<1>1. Stays
  BY DEF Stays, Used, Trail
<1>2. Forest'
  <2> SUFFICES ASSUME NEW l \in Links, link'[l].state # "unused"
               PROVE  /\ link'[l].name \in Names
                      /\ link'[l].trail # <<>>
                      /\ Last(link'[l].trail) = l
                      /\ \A i \in DOMAIN link'[l].trail :
                           /\ link'[link'[l].trail[i]].state # "unused"
                           /\ Len(link'[link'[l].trail[i]].trail) = i
                           /\ \A j \in 1..i :
                                link'[link'[l].trail[i]].trail[j] = link'[l].trail[j]
    BY DEF Forest, IsForest
  <2>1. /\ Used(l) /\ link'[l].trail = Trail(l)
        /\ link'[l].name \in Names
    BY DEF Used, Trail
  <2>2. /\ DOMAIN Trail(l) = 1..Len(Trail(l)) /\ Trail(l)[Len(Trail(l))] = l
        /\ Len(Trail(l)) \in Nat \ {0} /\ Trail(l) \in Seq(Links)
        /\ \A i \in 1..Len(Trail(l)) :
             /\ Trail(l)[i] \in Links /\ Used(Trail(l)[i])
             /\ Len(Trail(Trail(l)[i])) = i
             /\ \A j \in 1..i : Trail(Trail(l)[i])[j] = Trail(l)[j]
    BY <2>1, TrailNow
  <2> QED BY <2>1, <2>2, EmptySeq DEF Used, Trail, Last
<1> QED BY <1>1, <1>2

LEMMA Renamed ==
  ASSUME LinkOK, Forest, NEW l \in Links, Used(l), NEW name \in Names,
         link' = [link EXCEPT ![l].name = name]
  PROVE  /\ LinkOK' /\ Forest' /\ Stays
         /\ \A k \in Links :
              /\ link'[k].trail = link[k].trail /\ link'[k].state = link[k].state
              /\ link'[k].name = IF k = l THEN name ELSE link[k].name
<1>1. link' = [link EXCEPT ![l] = [link[l] EXCEPT !.name = name]]
  BY DEF LinkOK
<1>2. [link[l] EXCEPT !.name = name] \in Folder
  BY DEF LinkOK, Folder
<1>3. LinkOK'
  BY <1>1, <1>2 DEF LinkOK
<1>4. \A k \in Links :
        /\ link'[k].trail = link[k].trail /\ link'[k].state = link[k].state
        /\ link'[k].name = IF k = l THEN name ELSE link[k].name
  BY <1>1 DEF LinkOK, Folder
<1>5. \A k \in Links : Used(k) => link[k].name \in Names
  BY DEF Forest, IsForest, Used
<1> QED BY <1>3, <1>4, <1>5, Relabelled DEF Used

LEMMA Trashed ==
  ASSUME LinkOK, Forest, NEW l \in Active,
         link' = [link EXCEPT ![l].state = "trashed"]
  PROVE  /\ LinkOK' /\ Forest' /\ Stays
         /\ \A k \in Links :
              /\ link'[k].trail = link[k].trail /\ link'[k].name = link[k].name
              /\ link'[k].state = IF k = l THEN "trashed" ELSE link[k].state
<1>0. l \in Links /\ link[l].state = "active"
  BY DEF Active, InState
<1>1. link' = [link EXCEPT ![l] = [link[l] EXCEPT !.state = "trashed"]]
  BY <1>0 DEF LinkOK
<1>2. [link[l] EXCEPT !.state = "trashed"] \in Folder
  BY <1>0 DEF LinkOK, Folder
<1>3. LinkOK'
  BY <1>0, <1>1, <1>2 DEF LinkOK
<1>4. \A k \in Links :
        /\ link'[k].trail = link[k].trail /\ link'[k].name = link[k].name
        /\ link'[k].state = IF k = l THEN "trashed" ELSE link[k].state
  BY <1>0, <1>1 DEF LinkOK, Folder
<1>5. \A k \in Links : Used(k) => link[k].name \in Names
  BY DEF Forest, IsForest, Used
<1>6. \A k \in Links : /\ link[k].state # "unused" => link'[k].state # "unused"
                       /\ link'[k].state # "unused" => link[k].state # "unused"
  BY <1>0, <1>4
<1> QED BY <1>3, <1>4, <1>5, <1>6, Relabelled DEF Used

-----------------------------------------------------------------------------
(* Names that were asked for *)

\* What the path of a folder ends with, and how deep.
Mark(l) == <<Len(Trail(l)) - 1, link[l].name>>

ListedAsked == \A l \in Listed : Len(Trail(l)) > 1 => Mark(l) \in asked

ListedMeans ==
  \A l \in Links :
    l \in Listed <=>
      /\ link[l].state \in {"active", "trashed"}
      /\ \A i \in 1..(Len(Trail(l)) - 1) : link[Trail(l)[i]].state = "active"

LEMMA ListedNowAndNext ==
  (LinkOK /\ Forest => ListedMeans) /\ (LinkOK' /\ Forest' => ListedMeans')
<1>1. LinkOK /\ Forest => ListedMeans
  BY ListedIs DEF ListedMeans
<1> QED BY <1>1, PTL

LEMMA ListedAre == Listed \subseteq {l \in Links : Used(l)}
  BY DEF Listed, Active, InState, Used

\* The remote paths are those of the listed folders; each was asked for.
LEMMA RemoteAsked ==
  ASSUME LinkOK, Forest, ListedAsked, NEW l \in Listed
  PROVE  /\ PathOf(l) \in Seq(Names) /\ Len(Trail(l)) = Len(PathOf(l)) + 1
         /\ \A n \in 1..Len(PathOf(l)) : <<n, PathOf(l)[n]>> \in asked
<1> DEFINE path == PathOf(l)
           t == Trail(l)
<1>1. l \in Links /\ Used(l)
  BY ListedAre
<1>2. /\ path \in Seq(Names) /\ Len(path) = Len(t) - 1
      /\ \A i \in 1..(Len(t) - 1) : path[i] = link[t[i + 1]].name
  BY <1>1, PathIs DEF LinkOK, Forest, Used, Trail, PathOf
<1>3. Len(t) \in Nat \ {0}
  BY <1>1, TrailNow
<1>4. ASSUME NEW n \in 1..Len(path)
      PROVE  <<n, path[n]>> \in asked
  <2> DEFINE k == t[n + 1]
  <2>1. n + 1 \in 1..Len(t) /\ n \in 1..(Len(t) - 1) /\ n + 1 > 1 /\ (n + 1) - 1 = n
    <3> HIDE DEF t, path
    <3> QED BY <1>2, <1>3
  <2>2. k \in Listed /\ Len(Trail(k)) = n + 1
    BY <1>1, <2>1, AboveListed, TrailNow
  <2>3. Mark(k) \in asked
    BY <2>1, <2>2 DEF ListedAsked
  <2>4. Mark(k) = <<n, path[n]>>
    BY <1>2, <2>1, <2>2 DEF Mark
  <2> QED BY <2>3, <2>4
<1>5. Len(t) = Len(path) + 1
  <2> HIDE DEF t, path
  <2> QED BY <1>2, <1>3
<1> QED BY <1>2, <1>4, <1>5

\* What a step leaves listed has the name it had, or one that was asked for.
LEMMA ListedKept ==
  ASSUME LinkOK, Forest, LinkOK', Forest', Stays, ListedAsked, asked \subseteq asked',
         \A l \in Links : Used(l) /\ link'[l].state = "active" => link[l].state = "active",
         \A l \in Links : link'[l].state # "unused" =>
           \/ Used(l) /\ link'[l].name = link[l].name
           \/ Len(link'[l].trail) > 1 =>
                <<Len(link'[l].trail) - 1, link'[l].name>> \in asked'
  PROVE  ListedAsked'
<1>1. ListedMeans /\ ListedMeans'
  BY ListedNowAndNext
<1>2. \A l \in Listed' : l \in Links /\ link'[l].state # "unused"
  BY DEF Listed, Active, InState
<1>3. ASSUME NEW l \in Listed', Len(link'[l].trail) > 1
      PROVE  <<Len(link'[l].trail) - 1, link'[l].name>> \in asked'
  <2>1. CASE Used(l) /\ link'[l].name = link[l].name
    <3>1. /\ l \in Links /\ link'[l].trail = Trail(l)
          /\ link'[l].state \in {"active", "trashed"}
          /\ \A i \in 1..(Len(Trail(l)) - 1) : link'[Trail(l)[i]].state = "active"
      BY <1>1, <1>2, <2>1 DEF ListedMeans, Stays, Trail
    <3>2. /\ Len(Trail(l)) \in Nat
          /\ \A i \in 1..Len(Trail(l)) : Trail(l)[i] \in Links /\ Used(Trail(l)[i])
      BY <2>1, <3>1, TrailNow
    <3>3. \A i \in 1..(Len(Trail(l)) - 1) : link[Trail(l)[i]].state = "active"
      BY <3>1, <3>2
    <3>4. link[l].state \in {"active", "trashed"}
      BY <2>1, <3>1 DEF Used, LinkOK, Folder
    <3>5. l \in Listed
      BY <1>1, <3>1, <3>3, <3>4 DEF ListedMeans
    <3> QED BY <1>3, <2>1, <3>1, <3>5 DEF ListedAsked, Mark, Trail
  <2>2. CASE ~(Used(l) /\ link'[l].name = link[l].name)
    BY <1>2, <1>3, <2>2
  <2> QED BY <2>1, <2>2
<1> QED BY <1>3 DEF ListedAsked, Mark, Trail

\* The name given to a folder is in the history with its depth.
LEMMA AskedOnServer ==
  ASSUME LinkOK', Forest', NEW l \in Links, link'[l].state # "unused",
         asked' = asked \cup {Spot(p) : p \in {PathIn(link', l)} \ {<<>>}},
         Len(link'[l].trail) > 1
  PROVE  <<Len(link'[l].trail) - 1, link'[l].name>> \in asked'
<1> DEFINE path == PathIn(link', l)
           n == Len(link'[l].trail)
<1>1. /\ link' \in [Links -> Folder] /\ IsForest(link')
  BY DEF LinkOK, Forest
<1>2. /\ Len(path) = n - 1 /\ n \in Nat \ {0}
      /\ path # <<>> => Spot(path) = <<n - 1, link'[l].name>>
  BY <1>1, PathIs, TrailIs
<1>3. Len(path) # 0
  <2> HIDE DEF path, n
  <2>1. n > 1
    BY DEF n
  <2> QED BY <1>2, <2>1
<1>4. path # <<>>
  BY <1>3, EmptySeq
<1>5. Spot(path) \in asked'
  BY <1>4
<1> QED BY <1>2, <1>4, <1>5

-----------------------------------------------------------------------------
(* Local directories and passes *)

DirsOK ==
  \A d \in dirs : /\ d # <<>> /\ d \in Seq(Names) /\ Spot(d) \in asked
                  /\ Len(d) > 1 => Front(d) \in dirs

\* A pass knows folders at the depth of the paths it has them for, and every
\* path it is going to make something at was asked for.
Fits(q, l, links) ==
  /\ q \in Seq(Names)
  /\ l \in Links /\ links[l].state # "unused" /\ Len(links[l].trail) = Len(q) + 1
GoodPass(s, links, names) ==
  /\ s = [at |-> s.at, known |-> s.known, kr |-> s.kr, todo |-> s.todo]
  /\ s.at \in {"idle", "dirs", "scan", "create", "stalled"}
  /\ s.kr \subseteq Links \cup {Root}
  /\ \A p \in s.todo : p \in Seq(Names) /\ p # <<>> /\ Spot(p) \in names
  /\ \A q \in DOMAIN s.known : Fits(q, s.known[q], links)
  /\ s.at = "dirs" =>
       \A q \in DOMAIN s.known : \A n \in 1..Len(q) : <<n, q[n]>> \in names
PassOK ==
  /\ pass = [e \in Engines |-> pass[e]]
  /\ \A e \in Engines : GoodPass(pass[e], link, asked)

FolderInv == LinkOK /\ Forest /\ ListedAsked /\ DirsOK /\ PassOK

\* Good passes stay good while folders keep their place.
LEMMA GoodStays ==
  ASSUME Stays, asked \subseteq asked', NEW s, GoodPass(s, link, asked)
  PROVE  GoodPass(s, link', asked')
<1>1. \A q, l : Fits(q, l, link) => Fits(q, l, link')
  BY DEF Fits, Stays, Used, Trail
<1>2. /\ s = [at |-> s.at, known |-> s.known, kr |-> s.kr, todo |-> s.todo]
      /\ s.at \in {"idle", "dirs", "scan", "create", "stalled"}
      /\ s.kr \subseteq Links \cup {Root}
      /\ \A p \in s.todo : p \in Seq(Names) /\ p # <<>> /\ Spot(p) \in asked'
      /\ \A q \in DOMAIN s.known : Fits(q, s.known[q], link')
  BY <1>1, Zenon DEF GoodPass
<1>3. s.at = "dirs" =>
        \A q \in DOMAIN s.known : \A n \in 1..Len(q) : <<n, q[n]>> \in asked'
  BY Zenon DEF GoodPass
<1> QED BY <1>2, <1>3, Zenon DEF GoodPass

LEMMA PassMoves ==
  ASSUME PassOK, Stays, asked \subseteq asked', NEW e \in Engines, NEW to,
         pass' = [pass EXCEPT ![e] = to], GoodPass(to, link', asked')
  PROVE  PassOK'
<1>1. /\ pass' = [d \in Engines |-> pass'[d]]
      /\ \A d \in Engines : pass'[d] = IF d = e THEN to ELSE pass[d]
  BY DEF PassOK
<1>2. \A d \in Engines : GoodPass(pass[d], link', asked')
  BY GoodStays DEF PassOK
<1>3. \A d \in Engines : GoodPass(pass'[d], link', asked')
  BY <1>1, <1>2
<1> QED BY <1>1, <1>3 DEF PassOK

LEMMA PassKeeps ==
  ASSUME PassOK, Stays, asked \subseteq asked', UNCHANGED pass
  PROVE  PassOK'
<1>1. \A d \in Engines : GoodPass(pass[d], link', asked')
  BY GoodStays DEF PassOK
<1> QED BY <1>1 DEF PassOK

LEMMA Unmoved ==
  ASSUME UNCHANGED link, asked \subseteq asked', LinkOK, Forest, ListedAsked
  PROVE  Stays /\ LinkOK' /\ Forest' /\ ListedAsked'
<1>1. Stays
  BY DEF Stays, Used, Trail
<1>2. Listed' = Listed
  BY DEF Listed, Entered, Active, InState, Parent
<1>3. LinkOK' /\ Forest'
  BY DEF LinkOK, Forest
<1>4. ListedAsked'
  BY <1>2 DEF ListedAsked, Mark, Trail
<1> QED BY <1>1, <1>3, <1>4

-----------------------------------------------------------------------------
(* The invariant *)

\* Every remote path was asked for, and so was every local directory.
LEMMA InvMeansAsked == FolderInv => EveryNameAsked
<1> SUFFICES ASSUME FolderInv PROVE EveryNameAsked
  OBVIOUS
<1>1. ASSUME NEW l \in Listed, PathOf(l) # <<>>
      PROVE  Spot(PathOf(l)) \in asked
  <2> DEFINE path == PathOf(l)
  <2>1. /\ path \in Seq(Names) /\ \A n \in 1..Len(path) : <<n, path[n]>> \in asked
    BY RemoteAsked DEF FolderInv
  <2>2. Len(path) \in 1..Len(path)
    <3>1. Len(path) \in Nat \ {0}
      BY <1>1, <2>1, EmptySeq
    <3> HIDE DEF path
    <3> QED BY <3>1
  <2> HIDE DEF path
  <2> QED BY <2>1, <2>2 DEF Spot, Last, path
<1>2. \A p \in RemotePaths \ {<<>>} : Spot(p) \in asked
  BY <1>1 DEF RemotePaths
<1>3. \A d \in dirs : Spot(d) \in asked
  BY DEF FolderInv, DirsOK
<1> QED BY <1>2, <1>3 DEF EveryNameAsked

LEMMA InvMeansTypes == FolderInv => TypeOK
<1> SUFFICES ASSUME FolderInv PROVE TypeOK
  OBVIOUS
<1>1. DOMAIN link = Links
  BY DEF FolderInv, LinkOK
<1>2. \A l \in Links :
        /\ link[l].trail \in Seq(Links)
        /\ {link[l].name, link[l].hash} \subseteq Names \cup {None}
        /\ link[l].state \in {"unused", "active", "trashed"}
  BY DEF FolderInv, LinkOK, Folder
<1>3. \A d \in dirs : d # <<>> /\ d \in Seq(Names) /\ (Len(d) > 1 => Front(d) \in dirs)
  BY DEF FolderInv, DirsOK
<1>4. ASSUME NEW e \in Engines
      PROVE  /\ pass[e].at \in {"idle", "dirs", "scan", "create", "stalled"}
             /\ pass[e].todo \subseteq Seq(Names) \ {<<>>}
             /\ Range(pass[e].known) \subseteq Links
             /\ pass[e].kr \subseteq Links \cup {Root}
  <2>1. GoodPass(pass[e], link, asked)
    BY DEF FolderInv, PassOK
  <2>2. \A q \in DOMAIN pass[e].known : pass[e].known[q] \in Links
    BY <2>1 DEF GoodPass, Fits
  <2>3. /\ pass[e].at \in {"idle", "dirs", "scan", "create", "stalled"}
        /\ pass[e].kr \subseteq Links \cup {Root}
        /\ \A p \in pass[e].todo : p \in Seq(Names) /\ p # <<>>
    BY <2>1 DEF GoodPass
  <2> QED BY <2>2, <2>3 DEF Range
<1> QED BY <1>1, <1>2, <1>3, <1>4 DEF TypeOK

LEMMA GoodNoPass == ASSUME NEW links, NEW names PROVE GoodPass(NoPass, links, names)
<1>1. /\ NoPass.at = "idle" /\ NoPass.known = <<>> /\ NoPass.kr = {} /\ NoPass.todo = {}
      /\ NoPass = [at |-> NoPass.at, known |-> NoPass.known, kr |-> NoPass.kr,
                   todo |-> NoPass.todo]
  BY DEF NoPass
<1>2. DOMAIN <<>> = {}
  BY EmptySeq, LenProperties
<1> QED BY <1>1, <1>2 DEF GoodPass

LEMMA GoodStalled == ASSUME NEW links, NEW names PROVE GoodPass(Stalled, links, names)
<1>1. /\ Stalled.at = "stalled" /\ Stalled.known = <<>> /\ Stalled.kr = {} /\ Stalled.todo = {}
      /\ Stalled = [at |-> Stalled.at, known |-> Stalled.known, kr |-> Stalled.kr,
                   todo |-> Stalled.todo]
  BY DEF Stalled
<1>2. DOMAIN <<>> = {}
  BY EmptySeq, LenProperties
<1> QED BY <1>1, <1>2 DEF GoodPass

LEMMA InvInit == Init => FolderInv
<1> SUFFICES ASSUME Init PROVE FolderInv
  OBVIOUS
<1>1. LinkOK /\ Forest
  BY TreeAssumption DEF Init, LinkOK, Forest
<1>2. ListedAsked
  <2> SUFFICES ASSUME NEW l \in Listed, Len(Trail(l)) > 1
               PROVE  Mark(l) \in asked
    BY DEF ListedAsked
  <2> DEFINE path == PathOf(l)
             n == Len(Trail(l))
  <2>1. l \in Links /\ Used(l)
    BY ListedAre
  <2>2. Len(path) = n - 1 /\ (path # <<>> => Spot(path) = Mark(l)) /\ n \in Nat \ {0}
    BY <1>1, <2>1, PathIs, TrailNow DEF LinkOK, Forest, Used, Trail, PathOf, Mark
  <2>3. Len(path) # 0
    <3>1. n > 1
      OBVIOUS
    <3> HIDE DEF path, n
    <3> QED BY <2>2, <3>1
  <2>4. path # <<>> /\ path \in RemotePaths
    BY <2>3, EmptySeq DEF RemotePaths
  <2> QED BY <2>2, <2>4 DEF Init
<1>3. DirsOK
  BY DEF Init, DirsOK
<1>4. PassOK
  BY GoodNoPass DEF Init, PassOK
<1> QED BY <1>1, <1>2, <1>3, <1>4 DEF FolderInv

-----------------------------------------------------------------------------
(* Steps of the user and on the server *)

\* A step that leaves the directories alone keeps what is said of them.
LEMMA DirsKeep ==
  ASSUME DirsOK, UNCHANGED dirs, asked \subseteq asked'
  PROVE  DirsOK'
BY DEF DirsOK

LEMMA UserMakesDirStep ==
  ASSUME FolderInv, NEW p \in Paths, UserMakesDir(p)
  PROVE  FolderInv'
<1>1. /\ UNCHANGED link /\ UNCHANGED pass /\ asked \subseteq asked'
      /\ dirs' = dirs \cup {p} /\ Spot(p) \in asked'
      /\ Len(p) = 1 \/ Front(p) \in dirs
  BY DEF UserMakesDir
<1>2. LinkOK' /\ Forest' /\ Stays /\ ListedAsked'
  BY <1>1, Unmoved DEF FolderInv
<1>3. PassOK'
  BY <1>1, <1>2, PassKeeps DEF FolderInv
<1>4. DirsOK'
  <2>1. p \in Seq(Names) /\ p # <<>>
    BY PathsAssumption
  <2>2. Len(p) > 1 => Front(p) \in dirs
    BY <1>1, <2>1
  <2> QED BY <1>1, <2>1, <2>2 DEF DirsOK, FolderInv
<1> QED BY <1>2, <1>3, <1>4 DEF FolderInv

LEMMA UserRemovesDirStep ==
  ASSUME FolderInv, NEW p \in Paths, UserRemovesDir(p)
  PROVE  FolderInv'
<1>1. /\ UNCHANGED link /\ UNCHANGED pass /\ asked = asked'
      /\ dirs' = {d \in dirs : ~IsPrefix(p, d)}
  BY DEF UserRemovesDir
<1>2. LinkOK' /\ Forest' /\ Stays /\ ListedAsked'
  BY <1>1, Unmoved DEF FolderInv
<1>3. PassOK'
  BY <1>1, <1>2, PassKeeps DEF FolderInv
<1>4. DirsOK'
  <2>1. p \in Seq(Names)
    BY PathsAssumption
  <2>2. ASSUME NEW d \in dirs'
        PROVE  /\ d # <<>> /\ d \in Seq(Names) /\ Spot(d) \in asked'
               /\ Len(d) > 1 => Front(d) \in dirs'
    <3>1. /\ d # <<>> /\ d \in Seq(Names) /\ Spot(d) \in asked'
          /\ Len(d) > 1 => Front(d) \in dirs
          /\ ~IsPrefix(p, d)
      BY <1>1 DEF FolderInv, DirsOK
    <3>2. ~IsPrefix(p, Front(d))
      BY <2>1, <3>1, BelowFront
    <3> QED BY <1>1, <3>1, <3>2
  <2> QED BY <2>2 DEF DirsOK
<1> QED BY <1>2, <1>3, <1>4 DEF FolderInv

LEMMA OtherFolderStep ==
  ASSUME FolderInv, NEW f, NEW name \in Names, OtherFolder(f, name)
  PROVE  FolderInv'
<1>1. /\ UNCHANGED dirs /\ UNCHANGED pass /\ asked \subseteq asked'
      /\ asked' = asked \cup {Spot(p) : p \in {PathIn(link', Fresh)} \ {<<>>}}
      /\ Accepts(f, name) /\ AddFolder(f, name)
  BY DEF OtherFolder
<1>2. /\ Fresh \in Links /\ ~Used(Fresh) /\ link'[Fresh].state # "unused"
      /\ \A l \in Links \ {Fresh} : link'[l] = link[l]
      /\ LinkOK' /\ Forest' /\ Stays
  BY <1>1, Added DEF FolderInv
<1>3. ListedAsked'
  <2>1. Len(link'[Fresh].trail) > 1 =>
          <<Len(link'[Fresh].trail) - 1, link'[Fresh].name>> \in asked'
    BY <1>1, <1>2, AskedOnServer
  <2>2. \A l \in Links : Used(l) => link'[l] = link[l]
    BY <1>2
  <2>3. ASSUME NEW l \in Links, link'[l].state # "unused"
        PROVE  \/ Used(l) /\ link'[l].name = link[l].name
               \/ Len(link'[l].trail) > 1 =>
                    <<Len(link'[l].trail) - 1, link'[l].name>> \in asked'
    <3>1. CASE l = Fresh
      BY <2>1, <3>1
    <3>2. CASE l # Fresh
      BY <1>2, <2>3, <3>2 DEF Used
    <3> QED BY <3>1, <3>2
  <2>4. \A l \in Links : Used(l) /\ link'[l].state = "active" => link[l].state = "active"
    BY <2>2
  <2> QED BY <1>1, <1>2, <2>3, <2>4, ListedKept DEF FolderInv
<1>4. PassOK' /\ DirsOK'
  BY <1>1, <1>2, PassKeeps, DirsKeep DEF FolderInv
<1> QED BY <1>2, <1>3, <1>4 DEF FolderInv

LEMMA OtherTrashStep ==
  ASSUME FolderInv, NEW l \in Links, OtherTrash(l)
  PROVE  FolderInv'
<1>1. /\ UNCHANGED dirs /\ UNCHANGED pass /\ asked = asked'
      /\ l \in Active /\ link' = [link EXCEPT ![l].state = "trashed"]
  BY DEF OtherTrash
<1>2. /\ LinkOK' /\ Forest' /\ Stays
      /\ \A k \in Links :
           /\ link'[k].trail = link[k].trail /\ link'[k].name = link[k].name
           /\ link'[k].state = IF k = l THEN "trashed" ELSE link[k].state
  BY <1>1, Trashed DEF FolderInv
<1>3. ListedAsked'
  <2>1. \A k \in Links : link'[k].state # "unused" => Used(k)
    BY <1>1, <1>2 DEF Used, Active, InState
  <2>2. \A k \in Links : link'[k].state = "active" => link[k].state = "active"
    BY <1>2
  <2> QED BY <1>1, <1>2, <2>1, <2>2, ListedKept DEF FolderInv
<1>4. PassOK' /\ DirsOK'
  BY <1>1, <1>2, PassKeeps, DirsKeep DEF FolderInv
<1> QED BY <1>2, <1>3, <1>4 DEF FolderInv

LEMMA RenameStep ==
  ASSUME FolderInv, NEW l \in Links, NEW name \in Names, Rename(l, name)
  PROVE  FolderInv'
<1>1. /\ UNCHANGED dirs /\ UNCHANGED pass /\ asked \subseteq asked'
      /\ asked' = asked \cup {Spot(p) : p \in {PathIn(link', l)} \ {<<>>}}
      /\ l \in Listed /\ link' = [link EXCEPT ![l].name = name]
  BY DEF Rename
<1>2. Used(l)
  BY <1>1, ListedAre
<1>3. /\ LinkOK' /\ Forest' /\ Stays
      /\ \A k \in Links :
           /\ link'[k].trail = link[k].trail /\ link'[k].state = link[k].state
           /\ link'[k].name = IF k = l THEN name ELSE link[k].name
  BY <1>1, <1>2, Renamed DEF FolderInv
<1>4. ListedAsked'
  <2>1. Len(link'[l].trail) > 1 =>
          <<Len(link'[l].trail) - 1, link'[l].name>> \in asked'
    BY <1>1, <1>2, <1>3, AskedOnServer DEF Used
  <2>2. ASSUME NEW k \in Links, link'[k].state # "unused"
        PROVE  \/ Used(k) /\ link'[k].name = link[k].name
               \/ Len(link'[k].trail) > 1 =>
                    <<Len(link'[k].trail) - 1, link'[k].name>> \in asked'
    <3>1. CASE k = l
      BY <2>1, <3>1
    <3>2. CASE k # l
      BY <1>3, <2>2, <3>2 DEF Used
    <3> QED BY <3>1, <3>2
  <2>3. \A k \in Links : Used(k) /\ link'[k].state = "active" => link[k].state = "active"
    BY <1>3
  <2> QED BY <1>1, <1>3, <2>2, <2>3, ListedKept DEF FolderInv
<1>5. PassOK' /\ DirsOK'
  BY <1>1, <1>3, PassKeeps, DirsKeep DEF FolderInv
<1> QED BY <1>3, <1>4, <1>5 DEF FolderInv

-----------------------------------------------------------------------------
(* Steps of a pass *)

\* A step of a pass that leaves the server and the directories alone.
LEMMA PassOnly ==
  ASSUME FolderInv, NEW e \in Engines, NEW to, pass' = [pass EXCEPT ![e] = to],
         UNCHANGED <<link, dirs, asked>>, GoodPass(to, link, asked)
  PROVE  FolderInv'
<1>1. LinkOK' /\ Forest' /\ Stays /\ ListedAsked'
  BY Unmoved DEF FolderInv
<1>2. DirsOK'
  BY DirsKeep DEF FolderInv
<1>3. GoodPass(to, link', asked')
  BY <1>1, GoodStays
<1>4. PassOK'
  BY <1>1, <1>3, PassMoves DEF FolderInv
<1> QED BY <1>1, <1>2, <1>4 DEF FolderInv

LEMMA EngineGood ==
  ASSUME FolderInv, NEW e \in Engines
  PROVE  GoodPass(pass[e], link, asked)
BY DEF FolderInv, PassOK

LEMMA WalkStep ==
  ASSUME FolderInv, NEW e \in Engines, Walk(e)
  PROVE  FolderInv'
<1>1. PICK last \in SUBSET Listed :
        /\ {PathOf(l) : l \in last} = RemotePaths
        /\ Go(e, "idle",
              [at |-> "dirs", kr |-> Entered, todo |-> {},
               known |-> [p \in RemotePaths |-> CHOOSE l \in last : PathOf(l) = p]])
        /\ UNCHANGED <<link, dirs, asked>>
  BY DEF Walk
<1> DEFINE known == [p \in RemotePaths |-> CHOOSE l \in last : PathOf(l) = p]
           to == [at |-> "dirs", known |-> known, kr |-> Entered, todo |-> {}]
<1>2. ASSUME NEW p \in RemotePaths
      PROVE  /\ Fits(p, known[p], link)
             /\ \A n \in 1..Len(p) : <<n, p[n]>> \in asked
  <2> DEFINE l == CHOOSE k \in last : PathOf(k) = p
  <2>1. \E k \in last : PathOf(k) = p
    BY <1>1
  <2>2. l \in Listed /\ PathOf(l) = p
    BY <2>1
  <2>3. l \in Links /\ Used(l)
    BY <2>2, ListedAre
  <2>4. /\ p \in Seq(Names) /\ Len(Trail(l)) = Len(p) + 1
        /\ \A n \in 1..Len(p) : <<n, p[n]>> \in asked
    <3> HIDE DEF l
    <3> QED BY <2>2, RemoteAsked DEF FolderInv
  <2>5. known[p] = l
    OBVIOUS
  <2> HIDE DEF l, known
  <2> QED BY <2>3, <2>4, <2>5 DEF Fits, Used, Trail
<1>3. Entered \subseteq Links \cup {Root}
  BY DEF Entered, Active, InState
<1>4. GoodPass(to, link, asked)
  <2>1. /\ to.at = "dirs" /\ to.known = known /\ to.kr = Entered /\ to.todo = {}
        /\ to = [at |-> to.at, known |-> to.known, kr |-> to.kr, todo |-> to.todo]
        /\ DOMAIN known = RemotePaths
    OBVIOUS
  <2> HIDE DEF to, known
  <2> QED BY <1>2, <1>3, <2>1 DEF GoodPass
<1>5. pass' = [pass EXCEPT ![e] = to]
  BY <1>1 DEF Go
<1> HIDE DEF to
<1> QED BY <1>1, <1>4, <1>5, PassOnly

LEMMA MakeDirsStep ==
  ASSUME FolderInv, NEW e \in Engines, MakeDirs(e)
  PROVE  FolderInv'
<1> DEFINE s == pass[e]
           to == [s EXCEPT !.at = "scan"]
<1>1. PICK made \in SUBSET (DOMAIN s.known \ (dirs \cup {<<>>})) :
        dirs' = dirs \cup UNION {{SubSeq(p, 1, n) : n \in 1..Len(p)} : p \in made}
  BY DEF MakeDirs
<1>2. s.at = "dirs" /\ pass' = [pass EXCEPT ![e] = to] /\ UNCHANGED <<link, asked>>
  BY DEF MakeDirs, Go
<1>3. GoodPass(s, link, asked)
  BY EngineGood
<1>4. GoodPass(to, link, asked)
  <2>1. /\ s = [at |-> s.at, known |-> s.known, kr |-> s.kr, todo |-> s.todo]
    BY <1>3 DEF GoodPass
  <2>2. /\ to.at = "scan" /\ to.known = s.known /\ to.kr = s.kr /\ to.todo = s.todo
        /\ to = [at |-> to.at, known |-> to.known, kr |-> to.kr, todo |-> to.todo]
    <3> HIDE DEF s
    <3> QED BY <2>1
  <2> HIDE DEF s, to
  <2> QED BY <1>3, <2>2 DEF GoodPass
<1>5. LinkOK' /\ Forest' /\ Stays /\ ListedAsked'
  BY <1>2, Unmoved DEF FolderInv
<1>6. PassOK'
  <2>1. GoodPass(to, link', asked')
    BY <1>2, <1>4, <1>5, GoodStays
  <2> HIDE DEF to
  <2> QED BY <1>2, <1>5, <2>1, PassMoves DEF FolderInv
<1>7. ASSUME NEW d \in dirs'
      PROVE  /\ d # <<>> /\ d \in Seq(Names) /\ Spot(d) \in asked'
             /\ Len(d) > 1 => Front(d) \in dirs'
  <2>1. CASE d \in dirs
    BY <1>1, <1>2, <2>1 DEF FolderInv, DirsOK
  <2>2. CASE d \notin dirs
    <3>1. PICK p \in made : \E n \in 1..Len(p) : d = SubSeq(p, 1, n)
      BY <1>1, <2>2
    <3>2. PICK n \in 1..Len(p) : d = SubSeq(p, 1, n)
      BY <3>1
    <3>3. p \in Seq(Names) /\ <<n, p[n]>> \in asked
      <4> HIDE DEF s
      <4> QED BY <1>2, <1>3 DEF GoodPass, Fits
    <3>4. /\ d \in Seq(Names) /\ d # <<>> /\ Len(d) = n /\ Last(d) = p[n]
          /\ n > 1 => n - 1 \in 1..Len(p) /\ Front(d) = SubSeq(p, 1, n - 1)
      BY <3>2, <3>3, FrontInFront
    <3>5. Len(d) > 1 => Front(d) \in dirs'
      BY <1>1, <3>4
    <3> QED BY <1>2, <3>3, <3>4, <3>5 DEF Spot
  <2> QED BY <2>1, <2>2
<1>8. DirsOK'
  BY <1>7 DEF DirsOK
<1> QED BY <1>5, <1>6, <1>8 DEF FolderInv

LEMMA ScanStep ==
  ASSUME FolderInv, NEW e \in Engines, Scan(e)
  PROVE  FolderInv'
<1> DEFINE s == pass[e]
           new == dirs \ DOMAIN s.known
           to == [s EXCEPT !.at = "create", !.todo = new]
<1>1. pass' = [pass EXCEPT ![e] = to] /\ UNCHANGED <<link, dirs, asked>>
  BY DEF Scan, Go
<1>2. GoodPass(s, link, asked)
  BY EngineGood
<1>3. \A d \in dirs : d # <<>> /\ d \in Seq(Names) /\ Spot(d) \in asked
  BY DEF FolderInv, DirsOK
<1>4. GoodPass(to, link, asked)
  <2>1. /\ s = [at |-> s.at, known |-> s.known, kr |-> s.kr, todo |-> s.todo]
    BY <1>2 DEF GoodPass
  <2>2. /\ to.at = "create" /\ to.known = s.known /\ to.kr = s.kr
        /\ to.todo = new
        /\ to = [at |-> to.at, known |-> to.known, kr |-> to.kr, todo |-> to.todo]
    <3> DEFINE half == [s EXCEPT !.at = "create"]
    <3>1. to = [half EXCEPT !.todo = new]
      <4> HIDE DEF s, new
      <4> QED BY <2>1
    <3>2. half = [at |-> "create", known |-> s.known, kr |-> s.kr, todo |-> s.todo]
      <4> HIDE DEF s
      <4> QED BY <2>1
    <3>3. to = [at |-> "create", known |-> s.known, kr |-> s.kr, todo |-> new]
      <4> HIDE DEF s, new, half, to
      <4> QED BY <3>1, <3>2
    <3> HIDE DEF s, new, to
    <3> QED BY <3>3
  <2> HIDE DEF s, to
  <2> QED BY <1>2, <1>3, <2>2 DEF GoodPass
<1> HIDE DEF to
<1> QED BY <1>1, <1>4, PassOnly

\* The rest of the list is of paths of the list.
LEMMA RestGood ==
  ASSUME NEW e, NEW p, NEW known, NEW links, NEW names,
         GoodPass(pass[e], links, names), pass[e].at = "create",
         \A q \in DOMAIN known : Fits(q, known[q], links)
  PROVE  GoodPass(Rest(e, p, known), links, names)
<1> DEFINE s == pass[e]
           to == Rest(e, p, known)
<1>1. s = [at |-> s.at, known |-> s.known, kr |-> s.kr, todo |-> s.todo]
  BY DEF GoodPass
<1>2. to = [s EXCEPT !.todo = @ \ {p}, !.known = known]
  BY DEF Rest
<1>3. /\ to.at = "create" /\ to.known = known /\ to.kr = s.kr /\ to.todo = s.todo \ {p}
      /\ to = [at |-> to.at, known |-> to.known, kr |-> to.kr, todo |-> to.todo]
  <2> HIDE DEF s, to
  <2> QED BY <1>1, <1>2 DEF s
<1> HIDE DEF to
<1> QED BY <1>3 DEF GoodPass, to

LEMMA SkipDirStep ==
  ASSUME FolderInv, NEW e \in Engines, NEW p, SkipDir(e, p)
  PROVE  FolderInv'
<1>1. /\ pass' = [pass EXCEPT ![e] = Rest(e, p, pass[e].known)]
      /\ pass[e].at = "create" /\ UNCHANGED <<link, dirs, asked>>
  BY DEF SkipDir, Go
<1>2. GoodPass(pass[e], link, asked)
  BY EngineGood
<1>3. \A q \in DOMAIN pass[e].known : Fits(q, pass[e].known[q], link)
  BY <1>2 DEF GoodPass
<1>4. GoodPass(Rest(e, p, pass[e].known), link, asked)
  BY <1>1, <1>2, <1>3, RestGood
<1> QED BY <1>1, <1>4, PassOnly

\* A folder made for a directory is at the directory's depth.
LEMMA MadeAtDepth ==
  ASSUME FolderInv, NEW e \in Engines, NEW p \in pass[e].todo,
         Ready(e, p), Accepts(Target(e, p), Last(p)), AddFolder(Target(e, p), Last(p)),
         UNCHANGED <<dirs, asked>>
  PROVE  /\ LinkOK' /\ Forest' /\ Stays /\ ListedAsked' /\ DirsOK'
         /\ Fits(p, Fresh, link')
<1> DEFINE t == Target(e, p)
<1>1. GoodPass(pass[e], link, asked)
  BY EngineGood
<1>2. p \in Seq(Names) /\ p # <<>> /\ Spot(p) \in asked
  BY <1>1 DEF GoodPass
<1>3. Len(p) \in Nat \ {0} /\ Last(p) \in Names /\ Len(Front(p)) = Len(p) - 1
  BY <1>2, FrontIs, ElementOfSeq DEF Last
<1>4. t # None
  BY <1>1, LinksAssumption DEF Ready, GoodPass
<1>5. t = pass[e].known[Front(p)] /\ Front(p) \in DOMAIN pass[e].known
  BY <1>4 DEF Target
<1>6. t \in Links /\ Len(Trail(t)) = Len(p) - 1 + 1
  BY <1>1, <1>3, <1>5 DEF GoodPass, Fits, Trail
<1>7. t # Root /\ Len(Trail(t)) = Len(p)
  BY <1>3, <1>6, LinksAssumption
<1> HIDE DEF t
<1>8. /\ Fresh \in Links /\ ~Used(Fresh) /\ link'[Fresh].state # "unused"
      /\ \A l \in Links \ {Fresh} : link'[l] = link[l]
      /\ link'[Fresh].name = Last(p)
      /\ Len(link'[Fresh].trail) = IF t = Root THEN 1 ELSE Len(Trail(t)) + 1
      /\ LinkOK' /\ Forest' /\ Stays
  <2>1. Accepts(t, Last(p)) /\ AddFolder(t, Last(p))
    BY DEF t
  <2> QED BY <1>3, <2>1, Added DEF FolderInv
<1>9. Len(link'[Fresh].trail) = Len(p) + 1
  BY <1>7, <1>8
<1>10. ListedAsked'
  <2>1. <<Len(link'[Fresh].trail) - 1, link'[Fresh].name>> = Spot(p)
    BY <1>3, <1>8, <1>9 DEF Spot
  <2>2. ASSUME NEW l \in Links, link'[l].state # "unused"
        PROVE  \/ Used(l) /\ link'[l].name = link[l].name
               \/ Len(link'[l].trail) > 1 =>
                    <<Len(link'[l].trail) - 1, link'[l].name>> \in asked'
    <3>1. CASE l = Fresh
      BY <1>2, <2>1, <3>1
    <3>2. CASE l # Fresh
      BY <1>8, <2>2, <3>2 DEF Used
    <3> QED BY <3>1, <3>2
  <2>3. \A l \in Links : Used(l) /\ link'[l].state = "active" => link[l].state = "active"
    BY <1>8
  <2> QED BY <1>8, <2>2, <2>3, ListedKept DEF FolderInv
<1>11. DirsOK'
  BY DirsKeep DEF FolderInv
<1> QED BY <1>2, <1>8, <1>9, <1>10, <1>11 DEF Fits

LEMMA MakeFolderStep ==
  ASSUME FolderInv, NEW e \in Engines, NEW p \in pass[e].todo, MakeFolder(e, p)
  PROVE  FolderInv'
<1> DEFINE known == [q \in DOMAIN pass[e].known \cup {p} |->
                       IF q = p THEN Fresh ELSE pass[e].known[q]]
<1>1. /\ pass' = [pass EXCEPT ![e] = Rest(e, p, known)]
      /\ pass[e].at = "create" /\ UNCHANGED <<dirs, asked>>
      /\ Ready(e, p) /\ Accepts(Target(e, p), Last(p)) /\ AddFolder(Target(e, p), Last(p))
  BY DEF MakeFolder, Go
<1>2. LinkOK' /\ Forest' /\ Stays /\ ListedAsked' /\ DirsOK' /\ Fits(p, Fresh, link')
  BY <1>1, MadeAtDepth
<1>3. GoodPass(pass[e], link', asked')
  BY <1>1, <1>2, EngineGood, GoodStays
<1>4. \A q \in DOMAIN known : Fits(q, known[q], link')
  <2>1. \A q \in DOMAIN pass[e].known : Fits(q, pass[e].known[q], link')
    BY <1>3 DEF GoodPass
  <2> QED BY <1>2, <2>1
<1> HIDE DEF known
<1>5. GoodPass(Rest(e, p, known), link', asked')
  BY <1>1, <1>3, <1>4, RestGood
<1>6. PassOK'
  BY <1>1, <1>2, <1>5, PassMoves DEF FolderInv
<1> QED BY <1>2, <1>6 DEF FolderInv

LEMMA LoseAnswerStep ==
  ASSUME FolderInv, NEW e \in Engines, NEW p \in pass[e].todo, LoseAnswer(e, p)
  PROVE  FolderInv'
<1>1. /\ pass' = [pass EXCEPT ![e] = Rest(e, p, pass[e].known)]
      /\ pass[e].at = "create" /\ UNCHANGED <<dirs, asked>>
      /\ Ready(e, p) /\ Accepts(Target(e, p), Last(p)) /\ AddFolder(Target(e, p), Last(p))
  BY DEF LoseAnswer, Go
<1>2. LinkOK' /\ Forest' /\ Stays /\ ListedAsked' /\ DirsOK'
  BY <1>1, MadeAtDepth
<1>3. GoodPass(pass[e], link', asked')
  BY <1>1, <1>2, EngineGood, GoodStays
<1>4. \A q \in DOMAIN pass[e].known : Fits(q, pass[e].known[q], link')
  BY <1>3 DEF GoodPass
<1>5. GoodPass(Rest(e, p, pass[e].known), link', asked')
  BY <1>1, <1>3, <1>4, RestGood
<1>6. PassOK'
  BY <1>1, <1>2, <1>5, PassMoves DEF FolderInv
<1> QED BY <1>2, <1>6 DEF FolderInv

LEMMA EndsStep ==
  ASSUME FolderInv, NEW e \in Engines, FinishPass(e) \/ Abandon(e) \/ Stall(e)
  PROVE  FolderInv'
<1>1. /\ UNCHANGED <<link, dirs, asked>>
      /\ \/ pass' = [pass EXCEPT ![e] = NoPass]
         \/ pass' = [pass EXCEPT ![e] = Stalled]
  BY DEF FinishPass, Abandon, Stall, Go
<1> QED BY <1>1, GoodNoPass, GoodStalled, PassOnly

LEMMA InvNext == FolderInv /\ [Next]_vars => FolderInv'
<1> SUFFICES ASSUME FolderInv, [Next]_vars PROVE FolderInv'
  OBVIOUS
<1>1. ASSUME NEW p \in Paths, UserMakesDir(p) \/ UserRemovesDir(p)
      PROVE  FolderInv'
  BY <1>1, UserMakesDirStep, UserRemovesDirStep
<1>2. ASSUME NEW f \in Links \cup {Root}, NEW n \in Names,
             OtherFolder(f, n) \/ CreateFolder(f, n)
      PROVE  FolderInv'
  BY <1>2, OtherFolderStep DEF CreateFolder
<1>3. ASSUME NEW l \in Links, OtherTrash(l) \/ (\E n \in Names : Rename(l, n))
      PROVE  FolderInv'
  BY <1>3, OtherTrashStep, RenameStep
<1>4. ASSUME NEW e \in Engines,
             Walk(e) \/ MakeDirs(e) \/ Scan(e) \/ FinishPass(e) \/ Abandon(e)
             \/ Stall(e)
      PROVE  FolderInv'
  BY <1>4, WalkStep, MakeDirsStep, ScanStep, EndsStep
<1>5. ASSUME NEW e \in Engines, NEW p \in pass[e].todo,
             SkipDir(e, p) \/ MakeFolder(e, p) \/ LoseAnswer(e, p)
      PROVE  FolderInv'
  BY <1>5, SkipDirStep, MakeFolderStep, LoseAnswerStep
<1>6. CASE UNCHANGED vars
  <2>1. UNCHANGED link /\ UNCHANGED dirs /\ UNCHANGED pass /\ asked' = asked
    BY <1>6 DEF vars
  <2> QED BY <2>1, Unmoved, PassKeeps, DirsKeep DEF FolderInv
<1> QED BY <1>1, <1>2, <1>3, <1>4, <1>5, <1>6 DEF Next

LEMMA InvAlways == Spec => []FolderInv
BY InvInit, InvNext, PTL DEF Spec

\* The state keeps its types, and a local directory's parent is one too,
\* whatever the user removes and create_dir_all makes.
THEOREM TypeCorrect == Spec => []TypeOK
BY InvAlways, InvMeansTypes, PTL

\* No folder and no local directory gets a name, at a depth, that nobody gave
\* there: however passes run next to each other, to other devices and to
\* renames, a folder whose parent could not be made is not made elsewhere.
THEOREM NamesWereAsked == Spec => []EveryNameAsked
BY InvAlways, InvMeansAsked, PTL
=============================================================================
