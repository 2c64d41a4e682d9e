---------------------------- MODULE CatalogProofs ----------------------------
(***************************************************************************)
(* What the proofs about Inventory and Changes share: how occupancy counts *)
(* sessions, and that creations and edits leave the rows of the providers  *)
(* with their types.                                                       *)
(*                                                                         *)
(* Occupancy merges accounts one after the other.  The library's theorems  *)
(* on induction take a predicate, which the provers cannot choose; its     *)
(* theorem WFMin takes a set, and gives induction on sets of numbers       *)
(* (Numbers), from which follow the function the merge defines (RunExists) *)
(* and what it has merged at each account (RunKeeps).                      *)
(***************************************************************************)
EXTENDS Catalog, TLAPS, FiniteSetTheorems, WellFoundedInduction

(* Induction, of a set of numbers. *)
LEMMA Numbers ==
  ASSUME NEW S, 0 \in S, \A n \in Nat : n \in S => n + 1 \in S
  PROVE  Nat \subseteq S
<1> DEFINE T == Nat \ S
           less == {p \in Nat \X Nat : p[1] < p[2]}
<1>1. IsWellFoundedOn(less, Nat)
  BY NatLessThanWellFounded DEF OpToRel
<1>2. SUFFICES ASSUME T # {}
               PROVE  FALSE
  OBVIOUS
<1>3. PICK x \in T : \A y \in T : ~(<<y, x>> \in less)
  <2> HIDE DEF T, less
  <2>1. T \subseteq Nat
    BY DEF T
  <2> QED
    BY <1>1, <1>2, <2>1, WFMin
<1>4. x \in Nat /\ x # 0 /\ x - 1 \in Nat
  OBVIOUS
<1>5. x - 1 \in T
  BY <1>4
<1>6. <<x - 1, x>> \in less
  BY <1>4
<1> QED
  BY <1>3, <1>5, <1>6

(* A set of numbers has a least one. *)
LEMMA Least ==
  ASSUME NEW S \in SUBSET Nat, S # {}
  PROVE  Min(S) \in S /\ \A y \in S : Min(S) <= y
<1> DEFINE less == {p \in Nat \X Nat : p[1] < p[2]}
<1>1. IsWellFoundedOn(less, Nat)
  BY NatLessThanWellFounded DEF OpToRel
<1>2. PICK x \in S : \A y \in S : ~(<<y, x>> \in less)
  <2> HIDE DEF less
  <2> QED
    BY <1>1, WFMin
<1>3. ASSUME NEW y \in S, ~(x <= y)
      PROVE  FALSE
  <2>1. y < x /\ y \in Nat /\ x \in Nat
    BY <1>3
  <2>2. <<y, x>> \in less
    BY <2>1
  <2> QED
    BY <1>2, <2>2
<1> QED
  BY <1>3 DEF Min

(* s lists the members of S, and no other. *)
Enumerates(s, S) == s \in Seq(S) /\ \A x \in S : \E i \in 1 .. Len(s) : s[i] = x

LEMMA Listed ==
  ASSUME NEW S, IsFiniteSet(S)
  PROVE  Enumerates(SetToSeq(S), S)
<1> DEFINE n == Cardinality(S)
<1>1. n \in Nat /\ ExistsBijection(1 .. n, S)
  BY FS_CardinalityType
<1>2. PICK f \in Bijection(1 .. n, S) : TRUE
  BY <1>1 DEF ExistsBijection
<1>3. f \in [1 .. n -> S] /\ IsInjective(f)
  BY <1>2 DEF Bijection, Injection, IsInjective
<1> DEFINE s == SetToSeq(S)
<1>4. s \in [1 .. n -> S] /\ IsInjective(s)
  BY <1>3 DEF SetToSeq
<1> HIDE DEF s
<1>5. s \in Injection(1 .. n, S)
  BY <1>4 DEF Injection, IsInjective
<1>6. IsFiniteSet(1 .. n) /\ Cardinality(1 .. n) = n
  BY <1>1, FS_Interval
<1>7. s \in Surjection(1 .. n, S)
  BY <1>5, <1>6, FS_Injection
<1>8. s \in Seq(S) /\ Len(s) = n
  BY <1>1, <1>4
<1> QED
  BY <1>7, <1>8 DEF Surjection, Enumerates, s

LEMMA Joined ==
  ASSUME NEW R, NEW S, NEW r, NEW s, Enumerates(r, R), Enumerates(s, S)
  PROVE  Enumerates(r \o s, R \cup S)
<1>1. /\ r \in Seq(R \cup S) /\ s \in Seq(R \cup S)
  BY DEF Enumerates
<1> DEFINE m == Len(r)
           n == Len(s)
           t == r \o s
<1>2. /\ m \in Nat /\ n \in Nat /\ Len(t) = m + n /\ t \in Seq(R \cup S)
      /\ \A i \in 1 .. m + n : t[i] = IF i <= m THEN r[i] ELSE s[i - m]
  BY <1>1
<1>3. /\ \A x \in R : \E i \in 1 .. m : r[i] = x
      /\ \A x \in S : \E i \in 1 .. n : s[i] = x
  BY DEF Enumerates
<1> HIDE DEF m, n, t
<1>4. ASSUME NEW x \in R
      PROVE  \E i \in 1 .. Len(t) : t[i] = x
  <2>1. PICK i \in 1 .. m : r[i] = x
    BY <1>3
  <2>2. i \in 1 .. m + n /\ i <= m
    BY <1>2
  <2> QED
    BY <1>2, <2>1, <2>2
<1>5. ASSUME NEW x \in S
      PROVE  \E i \in 1 .. Len(t) : t[i] = x
  <2>1. PICK i \in 1 .. n : s[i] = x
    BY <1>3
  <2>2. m + i \in 1 .. m + n /\ ~(m + i <= m) /\ (m + i) - m = i
    BY <1>2
  <2>3. t[m + i] = x
    BY <1>2, <2>1, <2>2
  <2> QED
    BY <1>2, <2>2, <2>3
<1> QED
  BY <1>2, <1>4, <1>5 DEF Enumerates, t

-----------------------------------------------------------------------------
(* The fold, as a run through the accounts. *)

Nothing == [groups |-> <<>>, ambiguous |-> FALSE]

IsRun(m, items, n) ==
  m = [i \in 0 .. n |-> IF i = 0 THEN Nothing ELSE Add(m[i - 1], items[i])]

LEMMA RunExists ==
  ASSUME NEW items, NEW n \in Nat
  PROVE  \E m : IsRun(m, items, n)
<1> DEFINE S == {k \in Nat : \E m : IsRun(m, items, k)}
<1>1. 0 \in S
  <2> DEFINE m == [i \in 0 .. 0 |-> Nothing]
  <2>1. IsRun(m, items, 0)
    BY DEF IsRun
  <2> QED
    BY <2>1
<1>2. ASSUME NEW k \in Nat, k \in S
      PROVE  k + 1 \in S
  <2>1. PICK m : IsRun(m, items, k)
    BY <1>2
  <2> DEFINE w == [i \in 0 .. k + 1 |-> IF i = k + 1 THEN Add(m[k], items[k + 1]) ELSE m[i]]
  <2>2. /\ DOMAIN w = 0 .. k + 1 /\ w[k + 1] = Add(w[k], items[k + 1])
        /\ \A i \in 0 .. k : w[i] = m[i]
    OBVIOUS
  <2>3. \A i \in 0 .. k : m[i] = IF i = 0 THEN Nothing ELSE Add(m[i - 1], items[i])
    BY <2>1 DEF IsRun
  <2>4. w = [i \in 0 .. k + 1 |-> w[i]]
    OBVIOUS
  <2> HIDE DEF w
  <2>5. ASSUME NEW i \in 0 .. k + 1
        PROVE  w[i] = IF i = 0 THEN Nothing ELSE Add(w[i - 1], items[i])
    <3>1. CASE i = k + 1
      BY <2>2, <3>1
    <3>2. CASE i \in 0 .. k
      <4>1. i # 0 => i - 1 \in 0 .. k
        BY <3>2
      <4> QED
        BY <2>2, <2>3, <3>2, <4>1
    <3> QED
      BY <3>1, <3>2
  <2>6. IsRun(w, items, k + 1)
    BY <2>4, <2>5 DEF IsRun
  <2> QED
    BY <2>6
<1> HIDE DEF S
<1>3. n \in S
  BY <1>1, <1>2, Numbers
<1> QED
  BY <1>3 DEF S

Listing(remote, instances, reservations) ==
  SetToSeq(remote) \o SetToSeq(instances) \o SetToSeq(reservations)

LEMMA GroupsRun ==
  ASSUME NEW remote, NEW instances, NEW reservations, NEW items,
         items = Listing(remote, instances, reservations), Len(items) \in Nat
  PROVE  \E m : /\ IsRun(m, items, Len(items))
               /\ Groups(remote, instances, reservations) = m[Len(items)]
<1> DEFINE n == Len(items)
           f == CHOOSE f : IsRun(f, items, n)
<1>1. Groups(remote, instances, reservations) = f[n]
  BY DEF Groups, Listing, IsRun, Nothing
<1>2. IsRun(f, items, n)
  BY RunExists
<1> QED
  BY <1>1, <1>2
-----------------------------------------------------------------------------
(* What the run keeps: groups have names apart, all of them names of accounts so far; and as long *)
(* as nothing is ambiguous, every account so far has a group of its name.                         *)

Accounts(N, I, P) == [name : N, id : I, product : P]

Apart(groups) ==
  \A j, k \in 1 .. Len(groups) : groups[j].name = groups[k].name => j = k
NamedAfter(groups, items, n) ==
  \A k \in 1 .. Len(groups) : \E j \in 1 .. n : items[j].name = groups[k].name
Covered(groups, items, n) ==
  \A j \in 1 .. n : \E k \in 1 .. Len(groups) : groups[k].name = items[j].name

Grouped(acc, items, n) ==
  /\ Apart(acc.groups) /\ NamedAfter(acc.groups, items, n)
  /\ ~acc.ambiguous => Covered(acc.groups, items, n)

(* An account makes a group of its own, or leaves the names of the groups alone. *)
LEMMA GroupAdded ==
  ASSUME NEW items, NEW n \in Nat, NEW groups, NEW G, Len(groups) \in Nat,
         Len(G) = Len(groups) + 1, G[Len(G)] = items[n + 1],
         \A k \in 1 .. Len(groups) : G[k] = groups[k] /\ groups[k].name # items[n + 1].name
  PROVE  /\ Apart(groups) => Apart(G)
         /\ NamedAfter(groups, items, n) => NamedAfter(G, items, n + 1)
         /\ Covered(groups, items, n) => Covered(G, items, n + 1)
<1>1. \A k \in 1 .. Len(G) : k \in 1 .. Len(groups) \/ k = Len(G)
  OBVIOUS
<1>2. \A j \in 1 .. n + 1 : j \in 1 .. n \/ j = n + 1
  OBVIOUS
<1>3. 1 .. Len(groups) \subseteq 1 .. Len(G) /\ 1 .. n \subseteq 1 .. n + 1
      /\ Len(G) \in 1 .. Len(G) /\ n + 1 \in 1 .. n + 1
  OBVIOUS
<1>4. Apart(groups) => Apart(G)
  BY <1>1, <1>3 DEF Apart
<1>5. NamedAfter(groups, items, n) => NamedAfter(G, items, n + 1)
  BY <1>1, <1>3 DEF NamedAfter
<1>6. Covered(groups, items, n) => Covered(G, items, n + 1)
  BY <1>2, <1>3 DEF Covered
<1> QED
  BY <1>4, <1>5, <1>6

LEMMA GroupJoined ==
  ASSUME NEW items, NEW n \in Nat, NEW groups, NEW G, Len(G) = Len(groups),
         \A k \in 1 .. Len(groups) : G[k].name = groups[k].name
  PROVE  /\ Apart(groups) => Apart(G)
         /\ NamedAfter(groups, items, n) => NamedAfter(G, items, n + 1)
         /\ \A k \in 1 .. Len(groups) :
              groups[k].name = items[n + 1].name /\ Covered(groups, items, n)
              => Covered(G, items, n + 1)
<1>1. \A j \in 1 .. n + 1 : j \in 1 .. n \/ j = n + 1
  OBVIOUS
<1>2. 1 .. n \subseteq 1 .. n + 1
  OBVIOUS
<1>3. Apart(groups) => Apart(G)
  BY DEF Apart
<1>4. NamedAfter(groups, items, n) => NamedAfter(G, items, n + 1)
  BY <1>2 DEF NamedAfter
<1> QED
  BY <1>1, <1>3, <1>4 DEF Covered

LEMMA Selected ==
  ASSUME NEW A, NEW groups \in Seq(A), NEW item, NEW hit,
         hit = SelectInSeq(groups, LAMBDA g : Shares(g, item))
  PROVE  \/ hit = 0 /\ \A k \in 1 .. Len(groups) : ~Shares(groups[k], item)
         \/ hit \in 1 .. Len(groups) /\ Shares(groups[hit], item)
<1> DEFINE S == {k \in 1 .. Len(groups) : Shares(groups[k], item)}
<1>1. hit = IF S # {} THEN Min(S) ELSE 0
  BY DEF SelectInSeq
<1>2. S \in SUBSET Nat
  OBVIOUS
<1>3. S # {} => Min(S) \in S
  <2> HIDE DEF S
  <2> QED
    BY <1>2, Least
<1> QED
  BY <1>1, <1>3

LEMMA AddKeeps ==
  ASSUME NEW N, NEW I, NEW P, None \in I, None \in P,
         NEW items \in Seq(Accounts(N, I, P)), NEW n \in Nat, n + 1 \in 1 .. Len(items),
         NEW acc \in [groups : Seq(Accounts(N, I, P)), ambiguous : BOOLEAN],
         Grouped(acc, items, n),
         NEW new, new = Add(acc, items[n + 1])
  PROVE  /\ new \in [groups : Seq(Accounts(N, I, P)), ambiguous : BOOLEAN]
         /\ Grouped(new, items, n + 1)
<1> DEFINE A == Accounts(N, I, P)
           item == items[n + 1]
           groups == acc.groups
           hit == SelectInSeq(groups, LAMBDA g : Shares(g, item))
           g == groups[hit]
           joined == [g EXCEPT !.id = Known(@, item.id), !.product = Known(@, item.product)]
<1>1. item \in A /\ groups \in Seq(A) /\ acc.ambiguous \in BOOLEAN
  OBVIOUS
<1>2. \/ hit = 0 /\ \A k \in 1 .. Len(groups) : ~Shares(groups[k], item)
      \/ hit \in 1 .. Len(groups) /\ Shares(g, item)
  BY <1>1, Selected
<1>3. \/ hit = 0 /\ new = [acc EXCEPT !.groups = Append(@, item)]
      \/ hit # 0 /\ new = [acc EXCEPT !.ambiguous = TRUE]
      \/ hit # 0 /\ SameSession(g, item) /\ new = [acc EXCEPT !.groups[hit] = joined]
  BY DEF Add
<1> HIDE DEF hit
<1>4. CASE hit = 0 /\ new = [acc EXCEPT !.groups = Append(@, item)]
  <2> DEFINE G == Append(groups, item)
  <2>1. new = [acc EXCEPT !.groups = G]
    BY <1>4
  <2>2. /\ G \in Seq(A) /\ Len(G) = Len(groups) + 1 /\ G[Len(groups) + 1] = item
        /\ \A k \in 1 .. Len(groups) : G[k] = groups[k]
    BY <1>1
  <2>3. \A k \in 1 .. Len(groups) : groups[k].name # item.name
    BY <1>2, <1>4 DEF Shares
  <2> HIDE DEF G
  <2>4. /\ new \in [groups : Seq(A), ambiguous : BOOLEAN]
        /\ new.groups = G /\ new.ambiguous = acc.ambiguous
    BY <2>1, <2>2
  <2> QED
    <3>1. Len(groups) \in Nat /\ Len(G) = Len(groups) + 1 /\ G[Len(G)] = item
      BY <1>1, <2>2
    <3>2. /\ Apart(groups) => Apart(G)
          /\ NamedAfter(groups, items, n) => NamedAfter(G, items, n + 1)
          /\ Covered(groups, items, n) => Covered(G, items, n + 1)
      <4> HIDE DEF groups
      <4> QED
        BY <2>2, <2>3, <3>1, GroupAdded
    <3> QED
      BY <2>4, <3>2 DEF Grouped
<1>5. CASE hit # 0 /\ new = [acc EXCEPT !.ambiguous = TRUE]
  <2>1. /\ new \in [groups : Seq(A), ambiguous : BOOLEAN]
        /\ new.groups = groups /\ new.ambiguous = TRUE
    BY <1>1, <1>5
  <2> QED
    <3>1. /\ Apart(groups) => Apart(groups)
          /\ NamedAfter(groups, items, n) => NamedAfter(groups, items, n + 1)
      <4> HIDE DEF groups
      <4> QED
        BY GroupJoined
    <3> QED
      BY <2>1, <3>1 DEF Grouped
<1>6. CASE hit # 0 /\ SameSession(g, item) /\ new = [acc EXCEPT !.groups[hit] = joined]
  <2> DEFINE G == [groups EXCEPT ![hit] = joined]
  <2>1. hit \in 1 .. Len(groups) /\ g \in A
    BY <1>1, <1>2, <1>6
  <2>2. joined \in A /\ joined.name = g.name /\ g.name = item.name
    BY <1>1, <1>6, <2>1 DEF Accounts, Known, SameSession
  <2> HIDE DEF joined
  <2>3. /\ G \in Seq(A) /\ Len(G) = Len(groups)
        /\ \A k \in 1 .. Len(groups) : G[k].name = groups[k].name
    BY <1>1, <2>1, <2>2
  <2> HIDE DEF G
  <2>4. new = [acc EXCEPT !.groups = G]
    BY <1>6 DEF G
  <2>5. /\ new \in [groups : Seq(A), ambiguous : BOOLEAN]
        /\ new.groups = G /\ new.ambiguous = acc.ambiguous
    BY <2>3, <2>4
  <2> QED
    <3>1. /\ Apart(groups) => Apart(G)
          /\ NamedAfter(groups, items, n) => NamedAfter(G, items, n + 1)
          /\ Covered(groups, items, n) => Covered(G, items, n + 1)
      <4> HIDE DEF groups
      <4> QED
        BY <2>1, <2>2, <2>3, GroupJoined
    <3> QED
      BY <2>5, <3>1 DEF Grouped
<1> QED
  BY <1>3, <1>4, <1>5, <1>6

LEMMA RunKeeps ==
  ASSUME NEW N, NEW I, NEW P, None \in I, None \in P,
         NEW items \in Seq(Accounts(N, I, P)), NEW m, IsRun(m, items, Len(items)),
         NEW n \in 0 .. Len(items)
  PROVE  m[n] \in [groups : Seq(Accounts(N, I, P)), ambiguous : BOOLEAN] /\ Grouped(m[n], items, n)
<1> DEFINE Good(i) == /\ m[i] \in [groups : Seq(Accounts(N, I, P)), ambiguous : BOOLEAN]
                      /\ Grouped(m[i], items, i)
           S == {i \in Nat : i \in 0 .. Len(items) => Good(i)}
<1>1. \A i \in 0 .. Len(items) : m[i] = IF i = 0 THEN Nothing ELSE Add(m[i - 1], items[i])
  BY DEF IsRun
<1>2. 0 \in S
  <2>1. m[0] = Nothing
    BY <1>1
  <2>2. Nothing \in [groups : Seq(Accounts(N, I, P)), ambiguous : BOOLEAN]
    BY DEF Nothing
  <2>3. Grouped(Nothing, items, 0)
    BY DEF Nothing, Grouped, Apart, NamedAfter, Covered
  <2> QED
    BY <2>1, <2>2, <2>3
<1>3. ASSUME NEW i \in Nat, i \in S
      PROVE  i + 1 \in S
  <2> SUFFICES ASSUME i + 1 \in 0 .. Len(items)
               PROVE  Good(i + 1)
    OBVIOUS
  <2>1. i \in 0 .. Len(items) /\ i + 1 \in 1 .. Len(items)
    OBVIOUS
  <2>2. Good(i)
    BY <1>3, <2>1
  <2>3. m[i + 1] = Add(m[i], items[i + 1])
    BY <1>1, <2>1
  <2> QED
    BY <2>1, <2>2, <2>3, AddKeeps
<1> HIDE DEF S
<1>4. n \in S
  BY <1>2, <1>3, Numbers
<1> QED
  BY <1>4 DEF S

(* The accounts of a listing, whatever their order. *)
LEMMA ListingHolds ==
  ASSUME NEW remote, NEW instances, NEW reservations,
         IsFiniteSet(remote), IsFiniteSet(instances), IsFiniteSet(reservations)
  PROVE  Enumerates(Listing(remote, instances, reservations),
                    remote \cup instances \cup reservations)
<1>1. /\ Enumerates(SetToSeq(remote), remote) /\ Enumerates(SetToSeq(instances), instances)
      /\ Enumerates(SetToSeq(reservations), reservations)
  BY Listed
<1>2. Enumerates(SetToSeq(remote) \o SetToSeq(instances), remote \cup instances)
  BY <1>1, Joined
<1> QED
  BY <1>1, <1>2, Joined DEF Listing

NamesOf(accounts) == {a.name : a \in accounts}

(* What is counted is the names of the accounts, unless they contradict each other. *)
THEOREM OccupancyCounts ==
  ASSUME NEW N, NEW I, NEW P, None \in I, None \in P,
         NEW remote \in SUBSET Accounts(N, I, P), NEW instances \in SUBSET Accounts(N, I, P),
         NEW reservations \in SUBSET Accounts(N, I, P),
         IsFiniteSet(remote), IsFiniteSet(instances), IsFiniteSet(reservations),
         NEW used, used = Occupancy(remote, instances, reservations)
  PROVE  /\ used.effective \in Nat /\ used.ambiguous \in BOOLEAN
         /\ LET names == NamesOf(remote \cup instances \cup reservations)
            IN ~used.ambiguous => IsFiniteSet(names) /\ Cardinality(names) = used.effective
<1> DEFINE A == Accounts(N, I, P)
           items == Listing(remote, instances, reservations)
           all == remote \cup instances \cup reservations
           names == NamesOf(all)
<1>1. /\ items \in Seq(A)
      /\ \A i \in 1 .. Len(items) : items[i] \in all
      /\ \A a \in all : \E i \in 1 .. Len(items) : items[i] = a
  <2>1. Enumerates(items, all)
    BY ListingHolds
  <2> HIDE DEF items
  <2> QED
    BY <2>1 DEF Enumerates
<1> HIDE DEF items
<1>2. PICK m : /\ IsRun(m, items, Len(items))
               /\ Groups(remote, instances, reservations) = m[Len(items)]
  BY <1>1, GroupsRun DEF items
<1> DEFINE acc == m[Len(items)]
           groups == acc.groups
<1>3. acc \in [groups : Seq(A), ambiguous : BOOLEAN] /\ Grouped(acc, items, Len(items))
  BY <1>1, <1>2, RunKeeps
<1>4. used.effective = Len(groups) /\ used.ambiguous = acc.ambiguous
  BY <1>2 DEF Occupancy
<1> HIDE DEF acc
<1>5. groups \in Seq(A) /\ Len(groups) \in Nat
  BY <1>3
<1>6. ASSUME ~acc.ambiguous
      PROVE  IsFiniteSet(names) /\ Cardinality(names) = Len(groups)
  <2> DEFINE k == Len(groups)
             f == [i \in 1 .. k |-> groups[i].name]
  <2>1. \A i \in 1 .. k : groups[i].name \in names
    BY <1>1, <1>3 DEF Grouped, NamedAfter, NamesOf
  <2>2. \A x \in names : \E i \in 1 .. k : groups[i].name = x
    BY <1>1, <1>3, <1>6 DEF Grouped, Covered, NamesOf
  <2>3. f \in Bijection(1 .. k, names)
    BY <1>3, <2>1, <2>2 DEF Bijection, Injection, Surjection, IsInjective, Grouped, Apart
  <2>4. ExistsBijection(1 .. k, names) /\ k \in Nat
    BY <1>5, <2>3 DEF ExistsBijection
  <2> HIDE DEF k, names
  <2> QED
    BY <2>4, FS_CountingElements, FS_NatBijection DEF k
<1> QED
  BY <1>3, <1>4, <1>5, <1>6
-----------------------------------------------------------------------------
(* The sessions of one provider. *)

(* The catalogue as far as its types go; readers may have seen the current occupancy. *)
RowsTyped(readers) ==
  /\ provider \in [Providers -> ProviderRecord(readers)]
  /\ foreign \subseteq Foreign /\ kept \subseteq Tickets

(* Names that count on v. *)
Counted(v) ==
  {e.name : e \in provider[v].entries}
  \cup {ask[t].name : t \in (RowsAt(v) \ provider[v].absent) \cup OpenAt(v)}

LEMMA UsedCounts ==
  ASSUME EvolutionsAssumption, NEW readers, RowsTyped(readers), NEW v \in Providers
  PROVE  /\ ReadOccupancy(v).effective \in Nat /\ ReadOccupancy(v).ambiguous \in BOOLEAN
         /\ ~ReadOccupancy(v).ambiguous =>
              IsFiniteSet(Counted(v)) /\ Cardinality(Counted(v)) = ReadOccupancy(v).effective
<1> DEFINE N == {ask[t].name : t \in Tickets} \cup {f.name : f \in Foreign}
           I == Tickets \cup {f.id : f \in Foreign} \cup {None}
           P == {ProductOf(t) : t \in Tickets} \cup {None}
           A == Accounts(N, I, P)
           remote == provider[v].entries
           rows == RowsAt(v) \ provider[v].absent
           instances == {Account(t, TRUE) : t \in rows}
           reservations == {Account(t, t \in kept) : t \in OpenAt(v)}
<1>1. IsFiniteSet(Tickets) /\ IsFiniteSet(Foreign)
  BY DEF EvolutionsAssumption
<1>2. rows \in SUBSET Tickets /\ OpenAt(v) \in SUBSET Tickets
  BY DEF RowsAt, OpenAt, RowsTyped
<1>3. IsFiniteSet(rows) /\ IsFiniteSet(OpenAt(v))
  BY <1>1, <1>2, FS_Subset
<1>4. remote \in SUBSET Listable
  BY DEF RowsTyped, ProviderRecord, RecordOf
<1>5. Listable \subseteq A
  BY DEF Listable, Accounts
<1>6. instances \in SUBSET A /\ reservations \in SUBSET A
  BY <1>2 DEF Account, Accounts
<1>7. IsFiniteSet(instances)
  <2> DEFINE f == [t \in rows |-> Account(t, TRUE)]
  <2>1. f \in Surjection(rows, instances)
    BY DEF Surjection
  <2> HIDE DEF f, rows, instances
  <2> QED
    BY <1>3, <2>1, FS_Surjection
<1>8. IsFiniteSet(reservations)
  <2> DEFINE f == [t \in OpenAt(v) |-> Account(t, t \in kept)]
  <2>1. f \in Surjection(OpenAt(v), reservations)
    BY DEF Surjection
  <2> HIDE DEF f, reservations
  <2> QED
    BY <1>3, <2>1, FS_Surjection
<1>9. IsFiniteSet(remote)
  <2> DEFINE ids == {f.id : f \in Foreign}
             names == {f.name : f \in Foreign}
             own == {ask[t].name : t \in Tickets}
             pairs == (own \cup names) \X (Tickets \cup ids)
             g == [f \in Foreign |-> f.id]
             h == [f \in Foreign |-> f.name]
             k == [t \in Tickets |-> ask[t].name]
             l == [q \in pairs |-> [name |-> q[1], id |-> q[2], product |-> None]]
  <2>1. /\ g \in Surjection(Foreign, ids) /\ h \in Surjection(Foreign, names)
        /\ k \in Surjection(Tickets, own)
    BY DEF Surjection
  <2>2. l \in Surjection(pairs, Listable)
    <3>1. \A q \in pairs : l[q] \in Listable
      BY DEF Listable
    <3>2. ASSUME NEW x \in Listable
          PROVE  \E q \in pairs : l[q] = x
      <4>1. /\ x.name \in own \cup names /\ x.id \in Tickets \cup ids
            /\ x = [name |-> x.name, id |-> x.id, product |-> None]
        BY DEF Listable
      <4>2. <<x.name, x.id>> \in pairs /\ l[<<x.name, x.id>>] = x
        BY <4>1
      <4> QED
        BY <4>2
    <3> QED
      BY <3>1, <3>2 DEF Surjection
  <2> HIDE DEF ids, names, own, g, h, k, l
  <2>3. IsFiniteSet(ids) /\ IsFiniteSet(names) /\ IsFiniteSet(own)
    BY <1>1, <2>1, FS_Surjection
  <2>4. IsFiniteSet(own \cup names) /\ IsFiniteSet(Tickets \cup ids)
    BY <1>1, <2>3, FS_Union
  <2>5. IsFiniteSet(pairs)
    BY <2>4, FS_Product
  <2> HIDE DEF pairs
  <2>6. IsFiniteSet(Listable)
    BY <2>2, <2>5, FS_Surjection
  <2> QED
    BY <1>4, <2>6, FS_Subset
<1>10. ReadOccupancy(v) = Occupancy(remote, instances, reservations)
  BY DEF ReadOccupancy
<1>11. NamesOf(remote \cup instances \cup reservations) = Counted(v)
  <2>1. NamesOf(instances) = {ask[t].name : t \in rows}
    <3>1. \A t \in rows : Account(t, TRUE).name = ask[t].name
      BY DEF Account
    <3>2. ASSUME NEW x \in NamesOf(instances)
          PROVE  \E t \in rows : x = ask[t].name
      <4>1. PICK a \in instances : x = a.name
        BY DEF NamesOf
      <4> QED
        BY <3>1, <4>1
    <3>3. ASSUME NEW t \in rows
          PROVE  ask[t].name \in NamesOf(instances)
      BY <3>1 DEF NamesOf
    <3> QED
      BY <3>2, <3>3
  <2>2. NamesOf(reservations) = {ask[t].name : t \in OpenAt(v)}
    <3>1. \A t \in OpenAt(v) : Account(t, t \in kept).name = ask[t].name
      BY DEF Account
    <3>2. ASSUME NEW x \in NamesOf(reservations)
          PROVE  \E t \in OpenAt(v) : x = ask[t].name
      <4>1. PICK a \in reservations : x = a.name
        BY DEF NamesOf
      <4> QED
        BY <3>1, <4>1
    <3>3. ASSUME NEW t \in OpenAt(v)
          PROVE  ask[t].name \in NamesOf(reservations)
      BY <3>1 DEF NamesOf
    <3> QED
      BY <3>2, <3>3
  <2> HIDE DEF instances, reservations
  <2>3. NamesOf(remote \cup instances \cup reservations)
          = NamesOf(remote) \cup NamesOf(instances) \cup NamesOf(reservations)
    BY DEF NamesOf
  <2>4. {ask[t].name : t \in rows \cup OpenAt(v)}
          = {ask[t].name : t \in rows} \cup {ask[t].name : t \in OpenAt(v)}
    OBVIOUS
  <2>5. NamesOf(remote) = {e.name : e \in remote}
    BY DEF NamesOf
  <2> QED
    BY <2>1, <2>2, <2>3, <2>4, <2>5 DEF Counted
<1>12. remote \in SUBSET A /\ None \in I /\ None \in P
  BY <1>4, <1>5
<1> DEFINE used == ReadOccupancy(v)
<1> HIDE DEF N, I, P, remote, rows, instances, reservations, used
<1>13. used = Occupancy(remote, instances, reservations)
  BY <1>10 DEF used
<1>14. /\ used.effective \in Nat /\ used.ambiguous \in BOOLEAN
       /\ LET names == NamesOf(remote \cup instances \cup reservations)
          IN ~used.ambiguous => IsFiniteSet(names) /\ Cardinality(names) = used.effective
  BY <1>6, <1>7, <1>8, <1>9, <1>12, <1>13, OccupancyCounts
<1> QED
  BY <1>11, <1>14 DEF used
-----------------------------------------------------------------------------
(* Types of the rows, kept by creations and edits. *)

LEMMA RowsUntouched ==
  ASSUME NEW readers, RowsTyped(readers), UNCHANGED <<ask, provider>>, foreign' \subseteq Foreign,
         kept' \subseteq Tickets
  PROVE  RowsTyped(readers)'
BY DEF RowsTyped, ProviderRecord, RecordOf, Listable

(* One row is written. *)
LEMMA RowWritten ==
  ASSUME NEW readers, RowsTyped(readers), ask' = ask, foreign' \subseteq Foreign,
         kept' \subseteq Tickets, NEW v, NEW y,
         v \in Providers => y \in ProviderRecord(readers),
         provider' = [provider EXCEPT ![v] = y]
  PROVE  RowsTyped(readers)'
<1>1. ProviderRecord(readers)' = ProviderRecord(readers)
  BY DEF ProviderRecord, RecordOf, Listable
<1>2. provider \in [Providers -> ProviderRecord(readers)]
  BY DEF RowsTyped
<1>3. provider' \in [Providers -> ProviderRecord(readers)]
  <2> DEFINE R == ProviderRecord(readers)
  <2> HIDE DEF R
  <2>1. provider \in [Providers -> R]
    BY <1>2 DEF R
  <2>2. provider' \in [Providers -> R]
    BY <2>1 DEF R
  <2> QED
    BY <2>2 DEF R
<1> QED
  BY <1>1, <1>3 DEF RowsTyped

LEMMA FewerReaders ==
  ASSUME NEW readers, NEW x \in ProviderRecord(readers)
  PROVE  [x EXCEPT !.occ = {}] \in ProviderRecord(readers)
BY DEF ProviderRecord, RecordOf

LEMMA AdvanceTypes ==
  ASSUME NEW readers, RowsTyped(readers), ask' = ask, foreign' \subseteq Foreign,
         kept' \subseteq Tickets, NEW v, Advance(v)
  PROVE  RowsTyped(readers)'
<1> DEFINE y == [provider[v] EXCEPT !.occ = {}]
<1>1. v \in Providers => y \in ProviderRecord(readers)
  <2>1. v \in Providers => provider[v] \in ProviderRecord(readers)
    BY DEF RowsTyped
  <2> QED
    BY <2>1, FewerReaders
<1>2. provider' = [provider EXCEPT ![v] = y]
  BY DEF Advance
<1> HIDE DEF y
<1> QED
  BY <1>1, <1>2, RowWritten

LEMMA RowGoneTypes ==
  ASSUME NEW readers, RowsTyped(readers), ask' = ask, foreign' \subseteq Foreign,
         kept' \subseteq Tickets, NEW t, RowGone(t)
  PROVE  RowsTyped(readers)'
<1> DEFINE v == ask[t].provider
           y == [provider[v] EXCEPT !.occ = {}, !.absent = @ \ {t}]
<1>1. v \in Providers => y \in ProviderRecord(readers)
  <2>1. v \in Providers => provider[v] \in ProviderRecord(readers)
    BY DEF RowsTyped
  <2> QED
    BY <2>1 DEF ProviderRecord, RecordOf
<1>2. provider' = [provider EXCEPT ![v] = y]
  BY DEF RowsTyped, RowGone
<1> HIDE DEF y
<1> QED
  BY <1>1, <1>2, RowWritten

LEMMA CreateTypes ==
  ASSUME NEW readers, RowsTyped(readers), NEW t \in Tickets, Create(t)
  PROVE  RowsTyped(readers)'
<1>1. foreign \subseteq Foreign /\ kept \subseteq Tickets
  BY DEF RowsTyped
<1>2. /\ ask' = ask /\ foreign' = foreign
      /\ kept' \in {kept, kept \cup {t}, kept \ {t}}
      /\ Advance(ask[t].provider) \/ RowGone(t) \/ provider' = provider
  BY DEF Create, Reserve, Release, MarkCreating, Call, Answer, Vanish, Record, Commit, Undo, Drop,
         Admit, catalogVars, Creation!Hold, Creation!Release, Creation!Dispatch, Creation!Call,
         Creation!Answer, Creation!Vanish, Creation!Keep, Creation!Commit, Creation!Undo,
         Creation!Undone, Creation!Discard
<1>3. foreign' \subseteq Foreign /\ kept' \subseteq Tickets
  BY <1>1, <1>2
<1> QED
  BY <1>2, <1>3, AdvanceTypes, RowGoneTypes, RowsUntouched

(* The types of a row, field by field. *)
FieldsTyped(readers, x) ==
  /\ x.known \in BOOLEAN /\ x.url \in Urls
  /\ x.endpoint \in {Endpoint[u] : u \in Urls} \cup {None}
  /\ x.identity \in {"pending", "verified"} /\ x.active \in BOOLEAN
  /\ x.accepting \in BOOLEAN /\ x.host \in BOOLEAN /\ x.max \in Nat \cup {None}
  /\ x.rev \in Nat /\ x.occ \in SUBSET readers
  /\ x.status \in {"unknown", "ready", "unresolved"}
  /\ x.observed \in {"never", "recent", "old"} /\ x.healthy \in BOOLEAN
  /\ x.seen \in {"never", "recent", "old"} /\ x.callback \in {"pending", "ready"}
  /\ x.entries \in SUBSET Listable /\ x.absent \in SUBSET Tickets
  /\ DOMAIN x = ProviderFields

LEMMA FieldByField ==
  ASSUME NEW readers, NEW x \in ProviderRecord(readers)
  PROVE  FieldsTyped(readers, x)
BY DEF ProviderRecord, RecordOf, ProviderFields, FieldsTyped

Fields(y) ==
  [known |-> y.known, url |-> y.url, endpoint |-> y.endpoint, identity |-> y.identity,
   active |-> y.active, accepting |-> y.accepting, host |-> y.host, max |-> y.max,
   rev |-> y.rev, occ |-> y.occ, status |-> y.status, observed |-> y.observed,
   healthy |-> y.healthy, seen |-> y.seen, callback |-> y.callback,
   entries |-> y.entries, absent |-> y.absent]

LEMMA FromFields ==
  ASSUME NEW readers, NEW y, y = Fields(y), FieldsTyped(readers, y)
  PROVE  y \in ProviderRecord(readers)
BY DEF ProviderRecord, RecordOf, Fields, FieldsTyped

(* An edit leaves types, field by field. *)
LEMMA UpdatedTypes ==
  ASSUME EditsAssumption, NEW readers, NEW x \in ProviderRecord(readers), NEW e \in ProviderEdits,
         NEW moves, NEW y, y = Updated(x, e, moves)
  PROVE  y \in ProviderRecord(readers)
<1> DEFINE url == Given(e.url, x.url)
<1>1. FieldsTyped(readers, x)
  BY FieldByField
<1>2. /\ e.url \in Urls \cup {NotGiven} /\ e.max \in Nat \cup {None, NotGiven}
      /\ e.active \in BOOLEAN \cup {NotGiven} /\ e.accepting \in BOOLEAN \cup {NotGiven}
  BY DEF EditsAssumption
<1>3. url \in Urls
  BY <1>1, <1>2 DEF Given, FieldsTyped
<1>4. /\ y.known = x.known /\ y.host = x.host /\ y.occ = x.occ /\ y.healthy = x.healthy
      /\ y.seen = x.seen /\ y.entries = x.entries /\ y.absent = x.absent
  BY DEF Updated
<1>5. /\ y.url = url /\ y.rev = x.rev + 1 /\ y.active = Given(e.active, x.active)
      /\ y.accepting = Given(e.accepting, x.accepting) /\ y.max = Given(e.max, x.max)
  BY <1>1 DEF Updated, ProviderFields, FieldsTyped
<1>6. y.endpoint \in {Endpoint[url], x.endpoint}
  BY <1>1 DEF Updated, ProviderFields, FieldsTyped
<1>7. y.identity \in {"verified", "pending", x.identity} /\ y.callback \in {"pending", x.callback}
  BY <1>1 DEF Updated, ProviderFields, FieldsTyped
<1>8. y.status \in {"unknown", x.status} /\ y.observed \in {"never", x.observed}
  BY <1>1 DEF Updated, ProviderFields, FieldsTyped
<1>9. y = Fields(y) /\ DOMAIN y = ProviderFields
  BY <1>1 DEF Updated, ProviderFields, Fields, FieldsTyped
<1>10. /\ y.url \in Urls /\ y.endpoint \in {Endpoint[u] : u \in Urls} \cup {None}
       /\ y.active \in BOOLEAN /\ y.accepting \in BOOLEAN /\ y.max \in Nat \cup {None}
       /\ y.rev \in Nat
  BY <1>1, <1>2, <1>3, <1>5, <1>6 DEF Given, FieldsTyped
<1>11. /\ y.identity \in {"pending", "verified"} /\ y.callback \in {"pending", "ready"}
       /\ y.status \in {"unknown", "ready", "unresolved"}
       /\ y.observed \in {"never", "recent", "old"}
  BY <1>1, <1>7, <1>8 DEF FieldsTyped
<1> HIDE DEF url
<1>12. FieldsTyped(readers, y)
  BY <1>1, <1>4, <1>9, <1>10, <1>11 DEF FieldsTyped
<1> QED
  BY <1>9, <1>12, FromFields

LEMMA RetiredTypes ==
  ASSUME NEW readers, NEW x \in ProviderRecord(readers)
  PROVE  [x EXCEPT !.active = FALSE, !.rev = @ + 1] \in ProviderRecord(readers)
<1> DEFINE y == [x EXCEPT !.active = FALSE]
           z == [y EXCEPT !.rev = @ + 1]
<1>1. y \in ProviderRecord(readers)
  BY DEF ProviderRecord, RecordOf
<1>2. z = [x EXCEPT !.active = FALSE, !.rev = @ + 1]
  OBVIOUS
<1> HIDE DEF y
<1>3. y.rev + 1 \in Nat
  BY <1>1, FieldByField DEF FieldsTyped
<1>4. z \in ProviderRecord(readers)
  BY <1>1, <1>3 DEF ProviderRecord, RecordOf
<1> QED
  BY <1>2, <1>4

LEMMA EditProviderTypes ==
  ASSUME EditsAssumption, NEW readers, RowsTyped(readers), EditProvider
  PROVE  RowsTyped(readers)'
<1>1. /\ foreign \subseteq Foreign /\ kept \subseteq Tickets
      /\ \A v \in Providers : provider[v] \in ProviderRecord(readers)
  BY DEF RowsTyped
<1>2. ask' = ask /\ foreign' = foreign /\ kept' = kept
  BY DEF EditProvider, CreateRecord, UpdateRecord, UpdateHost, Retire, unedited, creationVars
<1>3. foreign' \subseteq Foreign /\ kept' \subseteq Tickets
  BY <1>1, <1>2
<1>4. ASSUME NEW v \in Providers, NEW u \in Urls, NEW strict, CreateRecord(v, u, strict)
      PROVE  RowsTyped(readers)'
  <2>1. NewProvider(u) \in ProviderRecord(readers)
    BY DEF NewProvider, ProviderRecord, RecordOf
  <2> QED
    BY <1>2, <1>3, <1>4, <2>1, RowWritten DEF CreateRecord
<1>5. ASSUME NEW v \in Providers, NEW e \in ProviderEdits, UpdateRecord(v, e)
      PROVE  RowsTyped(readers)'
  <2> DEFINE y == Updated(provider[v], e, Moves(v, e))
  <2>1. y \in ProviderRecord(readers)
    BY <1>1, UpdatedTypes
  <2>2. provider' = [provider EXCEPT ![v] = y]
    BY <1>5 DEF UpdateRecord
  <2> HIDE DEF y
  <2> QED
    BY <1>2, <1>3, <2>1, <2>2, RowWritten
<1>6. ASSUME NEW v \in Providers, NEW a \in BOOLEAN, UpdateHost(v, a)
      PROVE  RowsTyped(readers)'
  <2> DEFINE y == [provider[v] EXCEPT !.host = a]
  <2>1. y \in ProviderRecord(readers)
    BY <1>1 DEF ProviderRecord, RecordOf
  <2>2. provider' = [provider EXCEPT ![v] = y]
    BY <1>6 DEF UpdateHost
  <2> HIDE DEF y
  <2> QED
    BY <1>2, <1>3, <2>1, <2>2, RowWritten
<1>7. ASSUME NEW v \in Providers, Retire(v)
      PROVE  RowsTyped(readers)'
  <2> DEFINE y == [provider[v] EXCEPT !.active = FALSE, !.rev = @ + 1]
  <2>1. y \in ProviderRecord(readers)
    BY <1>1, RetiredTypes
  <2>2. provider' = [provider EXCEPT ![v] = y]
    BY <1>7 DEF Retire, RowsTyped
  <2> HIDE DEF y
  <2> QED
    BY <1>2, <1>3, <2>1, <2>2, RowWritten
<1> QED
  BY <1>4, <1>5, <1>6, <1>7 DEF EditProvider

LEMMA CallbackTypes ==
  ASSUME NEW readers, RowsTyped(readers), NEW v \in Providers, CallbackReceived(v)
  PROVE  RowsTyped(readers)'
<1> DEFINE y == [provider[v] EXCEPT !.callback = "ready"]
<1>1. /\ foreign \subseteq Foreign /\ kept \subseteq Tickets
      /\ provider[v] \in ProviderRecord(readers)
  BY DEF RowsTyped
<1>2. /\ ask' = ask /\ foreign' = foreign /\ kept' = kept
      /\ provider' = [provider EXCEPT ![v] = y]
  BY DEF CallbackReceived, unedited, creationVars
<1>3. y \in ProviderRecord(readers)
  BY <1>1 DEF ProviderRecord, RecordOf
<1>4. foreign' \subseteq Foreign /\ kept' \subseteq Tickets
  BY <1>1, <1>2
<1> HIDE DEF y
<1> QED
  BY <1>2, <1>3, <1>4, RowWritten

(* What a collection writes. *)
LEMMA ObservedTypes ==
  ASSUME NEW readers, RowsTyped(readers), NEW v \in Providers, NEW seen \in SUBSET Listable,
         NEW touched, NEW y, y = Observed(v, seen, touched)
  PROVE  y \in ProviderRecord(readers)
<1> DEFINE x == provider[v]
           status == IF \A s \in seen : Explained(v, s) THEN "ready" ELSE "unresolved"
           missing == Missing(v, seen) \ touched
<1>1. x \in ProviderRecord(readers)
  BY DEF RowsTyped
<1>2. missing \in SUBSET Tickets /\ status \in {"ready", "unresolved"}
  BY DEF Missing, RowsAt, RowsTyped
<1>3. y = [x EXCEPT !.entries = seen, !.absent = missing, !.status = status, !.observed = "recent",
                    !.healthy = TRUE, !.seen = "recent"]
  BY DEF Observed
<1> HIDE DEF x, status, missing
<1>4. FieldsTyped(readers, x)
  BY <1>1, FieldByField
<1>5. /\ y.entries = seen /\ y.absent = missing /\ y.status = status /\ y.observed = "recent"
      /\ y.healthy = TRUE /\ y.seen = "recent"
  BY <1>3, <1>4 DEF FieldsTyped, ProviderFields
<1>6. /\ y.known = x.known /\ y.url = x.url /\ y.endpoint = x.endpoint /\ y.identity = x.identity
      /\ y.active = x.active /\ y.accepting = x.accepting /\ y.host = x.host /\ y.max = x.max
      /\ y.rev = x.rev /\ y.occ = x.occ /\ y.callback = x.callback
  BY <1>3
<1>7. DOMAIN y = ProviderFields /\ y = Fields(y)
  BY <1>3, <1>4 DEF FieldsTyped, ProviderFields, Fields
<1>8. FieldsTyped(readers, y)
  BY <1>2, <1>4, <1>5, <1>6, <1>7 DEF FieldsTyped
<1> QED
  BY <1>7, <1>8, FromFields

LEMMA RemoteIsListable ==
  ASSUME NEW readers, RowsTyped(readers), NEW v
  PROVE  RemoteAt(v) \in SUBSET Listable
BY DEF RowsTyped, RemoteAt, Listable
=============================================================================
