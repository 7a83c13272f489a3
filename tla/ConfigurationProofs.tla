------------------------ MODULE ConfigurationProofs ------------------------
(***************************************************************************)
(* For any servers, instances, lifetimes and power losses: the storage, the *)
(* memory and the lists agree as far as the deviations allow, and every     *)
(* server that gets stored has its keys.                                    *)
(***************************************************************************)
EXTENDS Configuration, FiniteSetTheorems, TLAPS

----------------------------------------------------------------------------
(* Lists.  What Selected gives is shown by the least position that would be *)
(* an exception, since the library's induction takes an operator.           *)

LEMMA Least ==
  ASSUME NEW T \in SUBSET Nat, T # {}
  PROVE  \E m \in T : \A k \in T : m <= k
<1> DEFINE R == OpToRel(<, Nat)
<1>1. IsWellFoundedOn(R, Nat)
  BY NatLessThanWellFounded
<1>2. \A y, x \in Nat : y < x => <<y, x>> \in R
  BY DEF OpToRel
<1> HIDE DEF R
<1>3. PICK m \in T : \A k \in T : ~ (<<k, m>> \in R)
  BY <1>1, WFMin
<1>4. \A k \in T : ~ (k < m)
  <2> TAKE k \in T
  <2>1. k \in Nat /\ m \in Nat
    OBVIOUS
  <2> QED
    BY <2>1, <1>2, <1>3
<1>5. \A k, l \in Nat : ~ (k < l) => l <= k
  OBVIOUS
<1>6. m \in Nat /\ \A k \in T : k \in Nat
  OBVIOUS
<1> QED
  BY <1>4, <1>5, <1>6

UpTo(P, i) == {j \in P : j <= i}

\* Each number of elements is that of the positions up to one of them.
LEMMA KthPosition ==
  ASSUME NEW n \in Nat, NEW P \in SUBSET (1..n)
  PROVE  /\ IsFiniteSet(P) /\ Cardinality(P) \in Nat /\ Cardinality(P) <= n
         /\ \A k \in 1..Cardinality(P) : \E i \in P : Cardinality(UpTo(P, i)) = k
<1>1. IsFiniteSet(1..n) /\ Cardinality(1..n) = n
  BY FS_Interval
<1>2. IsFiniteSet(P) /\ Cardinality(P) <= n
  BY <1>1, FS_Subset
<1>3. Cardinality(P) \in Nat
  BY <1>2, FS_CardinalityType
<1> DEFINE Missing == {k \in 1..Cardinality(P) : \A i \in P : Cardinality(UpTo(P, i)) # k}
<1>4. Missing = {}
  <2> SUFFICES ASSUME Missing # {} PROVE FALSE
    OBVIOUS
  <2>1. Missing \in SUBSET Nat
    BY <1>3
  <2>2. PICK k \in Missing : \A l \in Missing : k <= l
    BY <2>1, Least
  <2>3. k \in 1..Cardinality(P) /\ \A i \in P : Cardinality(UpTo(P, i)) # k
    BY <2>2
  \* The positions up to the one before, and the next one after it.
  <2> DEFINE Before == {j \in P : k # 1 /\ \E i \in P : Cardinality(UpTo(P, i)) = k - 1 /\ j <= i}
             After == P \ Before
  <2>4. /\ IsFiniteSet(Before) /\ Cardinality(Before) = k - 1
        /\ \A i \in Before, j \in After : i < j
    <3>1. CASE k = 1
      <4>1. Before = {}
        BY <3>1
      <4> QED
        BY <4>1, <3>1, FS_EmptySet
    <3>2. CASE k # 1
      <4>1. k - 1 \in 1..Cardinality(P) /\ k - 1 \notin Missing
        BY <3>2, <2>2, <2>3, <1>3
      <4>2. PICK i \in P : Cardinality(UpTo(P, i)) = k - 1
        BY <4>1
      <4>3. \A j \in P : Cardinality(UpTo(P, j)) = k - 1 => UpTo(P, j) = UpTo(P, i)
        <5> TAKE j \in P
        <5> HAVE Cardinality(UpTo(P, j)) = k - 1
        <5>1. i \in Int /\ j \in Int /\ \A l \in P : l \in Int
          OBVIOUS
        <5>2. IsFiniteSet(UpTo(P, i)) /\ IsFiniteSet(UpTo(P, j))
          BY <1>2, FS_Subset DEF UpTo
        <5>3. CASE i <= j
          <6>0. \A l \in P : l <= i => l <= j
            BY <5>1, <5>3
          <6>1. UpTo(P, i) \in SUBSET UpTo(P, j)
            BY <6>0 DEF UpTo
          <6> QED
            BY <6>1, <5>2, <4>2, FS_Subset
        <5>4. CASE j <= i
          <6>0. \A l \in P : l <= j => l <= i
            BY <5>1, <5>4
          <6>1. UpTo(P, j) \in SUBSET UpTo(P, i)
            BY <6>0 DEF UpTo
          <6> QED
            BY <6>1, <5>2, <4>2, FS_Subset
        <5> QED
          BY <5>1, <5>3, <5>4
      <4>4. Before = UpTo(P, i)
        <5>1. UpTo(P, i) \subseteq Before
          BY <4>2, <3>2 DEF UpTo
        <5>2. ASSUME NEW j \in Before PROVE j \in UpTo(P, i)
          <6>1. PICK l \in P : Cardinality(UpTo(P, l)) = k - 1 /\ j <= l
            OBVIOUS
          <6>2. j \in UpTo(P, l)
            BY <6>1 DEF UpTo
          <6> QED
            BY <6>1, <6>2, <4>3
        <5> QED
          BY <5>1, <5>2
      <4>5. \A j \in P \ UpTo(P, i), l \in UpTo(P, i) : l < j
        BY DEF UpTo
      <4> QED
        BY <4>2, <4>4, <4>5, <1>2, FS_Subset DEF UpTo
    <3> QED
      BY <3>1, <3>2
  <2> HIDE DEF Before
  <2>5. After # {}
    <3> SUFFICES ASSUME After = {} PROVE FALSE
      OBVIOUS
    <3>1. Before = P
      BY DEF Before
    <3> QED
      BY <3>1, <2>4, <2>3, <1>3
  <2>6. PICK m \in After : \A l \in After : m <= l
    <3>0. \A l \in P : l \in Nat
      OBVIOUS
    <3>1. After \in SUBSET Nat
      BY <3>0
    <3> QED
      BY <3>1, <2>5, Least
  <2>7. UpTo(P, m) = Before \cup {m}
    <3>1. Before \subseteq P
      BY DEF Before
    <3>2. \A l \in P : l \in Int
      OBVIOUS
    <3>3. \A l, j \in Int : l <= j /\ j <= l => l = j
      OBVIOUS
    <3>4. \A l, j \in Int : l < j => l <= j
      OBVIOUS
    <3>5. m \in P /\ m <= m
      OBVIOUS
    <3> QED
      BY <3>1, <3>2, <3>3, <3>4, <3>5, <2>4, <2>6 DEF UpTo
  <2>8. Cardinality(UpTo(P, m)) = k
    BY <2>7, <2>4, <2>3, <1>3, FS_AddElement
  <2> QED
    BY <2>8, <2>3
<1> QED
  BY <1>2, <1>3, <1>4

LEMMA CountsDiffer ==
  ASSUME NEW n \in Nat, NEW P \in SUBSET (1..n), NEW i \in P, NEW j \in P,
         Cardinality(UpTo(P, i)) = Cardinality(UpTo(P, j))
  PROVE  i = j
<1>1. IsFiniteSet(P)
  BY KthPosition
<1>2. IsFiniteSet(UpTo(P, i)) /\ IsFiniteSet(UpTo(P, j))
  BY <1>1, FS_Subset DEF UpTo
<1>3. \A a, b \in P : a \in Nat /\ b \in Nat /\ (a <= b \/ b <= a) /\ (a <= b /\ b <= a => a = b)
  OBVIOUS
<1>4. \A a, b \in P : a <= b => UpTo(P, a) \in SUBSET UpTo(P, b)
  <2> TAKE a, b \in P
  <2> HAVE a <= b
  <2>1. \A l \in P : l <= a => l <= b
    BY <1>3
  <2> QED
    BY <2>1 DEF UpTo
<1>5. UpTo(P, i) = UpTo(P, j)
  <2>1. CASE i <= j
    BY <2>1, <1>2, <1>4, FS_Subset
  <2>2. CASE j <= i
    BY <2>2, <1>2, <1>4, FS_Subset
  <2> QED
    BY <2>1, <2>2, <1>3
<1>6. i \in UpTo(P, i) /\ j \in UpTo(P, j)
  BY <1>3 DEF UpTo
<1> QED
  BY <1>3, <1>5, <1>6 DEF UpTo

\* The positions of what is selected, in order.
Position(P, k) == CHOOSE i \in P : Cardinality(UpTo(P, i)) = k

LEMMA PositionProperties ==
  ASSUME NEW n \in Nat, NEW P \in SUBSET (1..n)
  PROVE  /\ Cardinality(P) \in Nat
         /\ \A k \in 1..Cardinality(P) : Position(P, k) \in P
         /\ \A k, l \in 1..Cardinality(P) : Position(P, k) = Position(P, l) => k = l
         /\ \A i \in P : \E k \in 1..Cardinality(P) : Position(P, k) = i
<1>1. IsFiniteSet(P) /\ Cardinality(P) \in Nat
  BY KthPosition
<1>2. \A k \in 1..Cardinality(P) :
        Position(P, k) \in P /\ Cardinality(UpTo(P, Position(P, k))) = k
  BY KthPosition DEF Position
<1>3. ASSUME NEW i \in P
      PROVE  \E k \in 1..Cardinality(P) : Position(P, k) = i
  <2>1. IsFiniteSet(UpTo(P, i)) /\ Cardinality(UpTo(P, i)) <= Cardinality(P)
    BY <1>1, FS_Subset DEF UpTo
  <2>2. i \in UpTo(P, i)
    BY DEF UpTo
  <2>3. Cardinality(UpTo(P, i)) \in Nat /\ Cardinality(UpTo(P, i)) # 0
    BY <2>1, <2>2, FS_EmptySet, FS_CardinalityType
  <2>4. Cardinality(UpTo(P, i)) \in 1..Cardinality(P)
    BY <2>1, <2>3, <1>1
  <2>5. Position(P, Cardinality(UpTo(P, i))) = i
    BY <2>4, <1>2, CountsDiffer
  <2> QED
    BY <2>4, <2>5
<1>4. \A k, l \in 1..Cardinality(P) : Position(P, k) = Position(P, l) => k = l
  <2> TAKE k, l \in 1..Cardinality(P)
  <2>1. Cardinality(UpTo(P, Position(P, k))) = k /\ Cardinality(UpTo(P, Position(P, l))) = l
    BY <1>2
  <2> QED
    BY <2>1
<1> QED
  BY <1>1, <1>2, <1>3, <1>4

LEMMA SelectedProperties ==
  ASSUME NEW S, NEW list \in Seq(S), NEW P \in SUBSET DOMAIN list
  PROVE  /\ Cardinality(P) \in Nat
         /\ Selected(list, P) \in Seq(S)
         /\ Len(Selected(list, P)) = Cardinality(P)
         /\ DOMAIN Selected(list, P) = 1..Cardinality(P)
         /\ \A k \in 1..Cardinality(P) :
              Position(P, k) \in P /\ Selected(list, P)[k] = list[Position(P, k)]
<1>1. Len(list) \in Nat /\ DOMAIN list = 1..Len(list) /\ P \in SUBSET (1..Len(list))
  OBVIOUS
<1>2. Cardinality(P) \in Nat /\ \A k \in 1..Cardinality(P) : Position(P, k) \in P
  BY <1>1, PositionProperties
<1>3. Selected(list, P) = [k \in 1..Cardinality(P) |-> list[Position(P, k)]]
  BY DEF Selected, Position, UpTo
<1>4. \A i \in P : list[i] \in S
  BY <1>1
<1>5. [k \in 1..Cardinality(P) |-> list[Position(P, k)]] \in [1..Cardinality(P) -> S]
  BY <1>2, <1>4
<1> DEFINE n == Cardinality(P)
<1> HIDE DEF n
<1>6. ASSUME NEW f \in [1..n -> S], n \in Nat
      PROVE  f \in Seq(S) /\ Len(f) = n /\ DOMAIN f = 1..n
  BY <1>6
<1>7. Selected(list, P) \in Seq(S) /\ Len(Selected(list, P)) = n /\ DOMAIN Selected(list, P) = 1..n
  BY <1>2, <1>3, <1>5, <1>6 DEF n
<1> QED
  BY <1>2, <1>3, <1>7 DEF n

LEMMA SelectedAll ==
  ASSUME NEW S, NEW list \in Seq(S)
  PROVE  Selected(list, DOMAIN list) = list
<1> DEFINE n == Len(list)
<1>1. n \in Nat /\ DOMAIN list = 1..n
  OBVIOUS
<1> HIDE DEF n
<1>2. \A i \in 1..n : UpTo(1..n, i) = 1..i
  BY <1>1 DEF UpTo
<1>3. \A i \in 1..n : Cardinality(UpTo(1..n, i)) = i
  <2> TAKE i \in 1..n
  <2>1. Cardinality(1..i) = i
    BY <1>1, FS_Interval
  <2> QED
    BY <2>1, <1>2
<1>4. Cardinality(1..n) = n
  BY <1>1, FS_Interval
<1>5. \A k \in 1..n : Position(1..n, k) = k
  BY <1>3 DEF Position
<1>6. Selected(list, 1..n) = [k \in 1..n |-> list[k]]
  <2>1. Selected(list, 1..n) = [k \in 1..Cardinality(1..n) |-> list[Position(1..n, k)]]
    BY DEF Selected, Position, UpTo
  <2> QED
    BY <2>1, <1>4, <1>5
<1>7. list = [k \in 1..n |-> list[k]]
  BY <1>1
<1> QED
  BY <1>1, <1>6, <1>7

LEMMA SelectedFirst ==
  ASSUME NEW S, NEW list \in Seq(S), list # <<>>
  PROVE  Selected(list, {1}) = <<list[1]>>
<1>1. Cardinality({1}) = 1
  BY FS_Singleton
<1>2. UpTo({1}, 1) = {1}
  BY DEF UpTo
<1>3. Position({1}, 1) = 1
  BY <1>1, <1>2 DEF Position
<1>4. Selected(list, {1}) = [k \in 1..1 |-> list[Position({1}, k)]]
  BY <1>1 DEF Selected, Position, UpTo
<1>5. \A k \in 1..1 : k = 1
  OBVIOUS
<1>6. Selected(list, {1}) = [k \in 1..1 |-> list[1]]
  BY <1>3, <1>4, <1>5
<1>7. \A x : [k \in 1..1 |-> x] = <<x>>
  OBVIOUS
<1> QED
  BY <1>6, <1>7

----------------------------------------------------------------------------
(* Types *)

SecurityEntries == [id: Nat, boot: BOOLEAN, server: Nat]
ServerEntries == [id: Nat, server: Nat, life: Nat, reg: BOOLEAN]
Configs ==
  [version: {"none", "zero", "v1", "v2"}, nsec: Nat, nsrv: Nat,
   sec: Seq(SecurityEntries), srv: Seq(ServerEntries)]
AclEntries == [id: Nat, rights: SUBSET {1}]
AclRecords == [n: Nat, list: Seq(AclEntries)]
Acls == {a \in AclRecords : Len(a.list) <= a.n}
Disks == [size: Int, param: Configs, aclSize: Int, acl: Acls, keys: SUBSET Nat]
Sessions == {"off", "none", "bootstrap", "dm"}
Mems == [config: Configs, acl: Acls, listed: [Objects -> SUBSET Nat], session: Sessions]

TypeInv == disk \in Disks /\ mem \in Mems /\ wished \in Nat

\* A configuration whose numbers are those of its lists, with different
\* identifiers, and the bootstrap server first; or one that was read as nothing.
Distinctly(list) == \A i, j \in DOMAIN list : list[i].id = list[j].id => i = j
Whole(c) ==
  /\ c.version \in {"v2", "zero"}
  /\ c.nsec = Len(c.sec) /\ c.nsrv = Len(c.srv)
  /\ Distinctly(c.sec) /\ Distinctly(c.srv)
  /\ c.version = "v2" => /\ c.sec # <<>> /\ c.sec[1] = Security(0, TRUE, 1)
                         /\ \A i \in 2..Len(c.sec) : ~c.sec[i].boot
  /\ c.version = "zero" => c.sec = <<>>
Wholes == {c \in Configs : Whole(c)}

LEMMA ConstantTypes ==
  /\ \A s \in DmServers : s \in Nat /\ s >= 1 /\ s - 1 \in Nat
  /\ \A life \in Lifetimes \cup Bootstrapped : life \in Nat /\ life # 0
  /\ AclIds \in SUBSET Nat
<1>1. Cardinality(DmServers) \in Nat
  BY ConfigurationAssumption, FS_CardinalityType
<1>2. \A s \in DmServers : s \in 1..Cardinality(DmServers)
  BY ConfigurationAssumption
<1> QED
  BY <1>1, <1>2, ConfigurationAssumption

LEMMA EntryTypes ==
  /\ \A id, s \in Nat, boot \in BOOLEAN : Security(id, boot, s) \in SecurityEntries
  /\ \A id, s, life \in Nat : Server(id, s, life) \in ServerEntries
  /\ \A id \in Nat : AclEntry(id, {}) \in AclEntries
BY DEF Security, Server, AclEntry, SecurityEntries, ServerEntries, AclEntries

LEMMA ConfigFields ==
  ASSUME NEW c \in Configs
  PROVE  /\ c.version \in {"none", "zero", "v1", "v2"}
         /\ c.nsec \in Nat /\ c.nsrv \in Nat
         /\ c.sec \in Seq(SecurityEntries) /\ c.srv \in Seq(ServerEntries)
         /\ Len(c.sec) \in Nat /\ DOMAIN c.sec = 1..Len(c.sec)
         /\ Len(c.srv) \in Nat /\ DOMAIN c.srv = 1..Len(c.srv)
<1>1. /\ c.version \in {"none", "zero", "v1", "v2"}
      /\ c.nsec \in Nat /\ c.nsrv \in Nat
      /\ c.sec \in Seq(SecurityEntries) /\ c.srv \in Seq(ServerEntries)
  BY DEF Configs
<1> QED
  BY <1>1

LEMMA LengthType ==
  ASSUME NEW c \in Configs
  PROVE  Length(c) \in Nat /\ Length(c) >= 8
<1>1. c.nsec \in Nat /\ c.nsrv \in Nat
  BY ConfigFields
<1> QED
  BY <1>1 DEF Length

LEMMA PaddedType ==
  ASSUME NEW S, NEW list \in Seq(S), NEW n \in Nat, NEW zero \in S
  PROVE  Padded(list, n, zero) \in Seq(S) /\ Len(Padded(list, n, zero)) = n
<1>1. Len(list) \in Nat /\ \A i \in 1..Len(list) : list[i] \in S
  OBVIOUS
<1>2. \A i \in 1..n : (IF i <= Len(list) THEN list[i] ELSE zero) \in S
  BY <1>1
<1>3. Padded(list, n, zero) \in [1..n -> S]
  BY <1>2 DEF Padded
<1>4. ASSUME NEW f \in [1..n -> S]
      PROVE  f \in Seq(S) /\ Len(f) = n
  OBVIOUS
<1> QED
  BY <1>3, <1>4

LEMMA PaddedWhole ==
  ASSUME NEW S, NEW list \in Seq(S), NEW zero
  PROVE  Padded(list, Len(list), zero) = list
<1>1. Len(list) \in Nat /\ list = [i \in 1..Len(list) |-> list[i]]
  OBVIOUS
<1> DEFINE n == Len(list)
<1> HIDE DEF n
<1>2. \A i \in 1..n : i <= n
  BY <1>1 DEF n
<1>3. Padded(list, n, zero) = [i \in 1..n |-> list[i]]
  BY <1>2 DEF Padded, n
<1> QED
  BY <1>1, <1>3 DEF n

LEMMA StoredType ==
  ASSUME NEW c \in Configs
  PROVE  /\ Stored(c) \in Configs /\ Length(Stored(c)) = Length(c)
         /\ Stored(c).version = c.version
<1> DEFINE sec == Padded(c.sec, c.nsec, Security(0, FALSE, 0))
           srv == Padded(c.srv, c.nsrv, Server(0, 0, 0))
<1>1. sec \in Seq(SecurityEntries) /\ srv \in Seq(ServerEntries)
  BY ConfigFields, EntryTypes, PaddedType
<1>2. Stored(c) = [c EXCEPT !.sec = sec, !.srv = srv]
  BY DEF Stored
<1> HIDE DEF sec, srv
<1>3. Stored(c) \in Configs /\ Stored(c).version = c.version
      /\ Stored(c).nsec = c.nsec /\ Stored(c).nsrv = c.nsrv
  BY <1>1, <1>2 DEF Configs
<1> QED
  BY <1>3 DEF Length

LEMMA StoredWhole ==
  ASSUME NEW c \in Configs, c.nsec = Len(c.sec), c.nsrv = Len(c.srv)
  PROVE  Stored(c) = c
<1>1. /\ Padded(c.sec, c.nsec, Security(0, FALSE, 0)) = c.sec
      /\ Padded(c.srv, c.nsrv, Server(0, 0, 0)) = c.srv
  BY ConfigFields, PaddedWhole
<1>2. Stored(c) = [c EXCEPT !.sec = c.sec, !.srv = c.srv]
  BY <1>1 DEF Stored
<1> QED
  BY <1>2 DEF Configs

----------------------------------------------------------------------------
(* What the handlers make of a whole configuration.                         *)

LEMMA OneElement ==
  /\ \A x : <<x>> # <<>> /\ Len(<<x>>) = 1 /\ <<x>>[1] = x /\ Last(<<x>>) = x
  /\ \A S : \A x \in S : <<x>> \in Seq(S)
BY DEF Last

LEMMA FixedConfigs ==
  /\ Zero \in Wholes /\ Default \in Wholes /\ Absent \in Configs
  /\ Zero.version = "zero" /\ Default.version = "v2" /\ Absent.version = "none"
  /\ Zero.srv = <<>> /\ Default.srv = <<>> /\ Absent.srv = <<>>
<1>0. <<>> \in Seq(SecurityEntries) /\ <<>> \in Seq(ServerEntries) /\ 0 \in Nat
  OBVIOUS
<1>1. Zero \in Configs /\ Absent \in Configs /\ Zero.version = "zero" /\ Absent.version = "none"
      /\ Zero.srv = <<>> /\ Absent.srv = <<>>
  <2>1. Zero \in Configs /\ Zero.version = "zero" /\ Zero.srv = <<>>
    BY <1>0 DEF Zero, Configs
  <2>2. \A c \in Configs : LET e == [c EXCEPT !.version = "none"]
                          IN  e \in Configs /\ e.version = "none" /\ e.srv = c.srv
    BY DEF Configs
  <2> QED
    BY <2>1, <2>2 DEF Absent
<1>2. Whole(Zero)
  BY DEF Zero, Whole, Distinctly
<1>3. Security(0, TRUE, 1) \in SecurityEntries
  BY EntryTypes
<1>4. <<Security(0, TRUE, 1)>> \in Seq(SecurityEntries) /\ Len(<<Security(0, TRUE, 1)>>) = 1
      /\ <<Security(0, TRUE, 1)>>[1] = Security(0, TRUE, 1) /\ <<Security(0, TRUE, 1)>> # <<>>
  BY <1>3, OneElement
<1>5. Default \in Configs /\ Default.version = "v2" /\ Default.srv = <<>>
      /\ Default.sec = <<Security(0, TRUE, 1)>> /\ Default.nsec = 1 /\ Default.nsrv = 0
  <2>1. \A sec \in Seq(SecurityEntries) :
          LET c == [version |-> "v2", nsec |-> 1, nsrv |-> 0, sec |-> sec, srv |-> <<>>]
          IN  /\ c \in Configs /\ c.version = "v2" /\ c.srv = <<>>
              /\ c.sec = sec /\ c.nsec = 1 /\ c.nsrv = 0
    BY <1>0 DEF Configs
  <2> QED
    BY <1>4, <2>1 DEF Default
<1>6. Distinctly(Default.sec) /\ Distinctly(Default.srv)
  BY <1>4, <1>5 DEF Distinctly
<1>7. Whole(Default)
  BY <1>4, <1>5, <1>6 DEF Whole
<1> QED
  BY <1>1, <1>2, <1>5, <1>7 DEF Wholes

LEMMA AccountsOfWhole ==
  ASSUME NEW c \in Wholes
  PROVE  /\ c.version = "v2" => Accounts(c) = <<c.sec[1]>>
         /\ c.version = "zero" => Accounts(c) = <<>>
<1>1. c \in Configs /\ Whole(c)
  BY DEF Wholes
<1>2. CASE c.version = "v2"
  <2>1. c.sec # <<>> /\ c.sec[1].boot /\ \A i \in 2..Len(c.sec) : ~c.sec[i].boot
    BY <1>1, <1>2 DEF Whole, Security
  <2>2. DOMAIN c.sec = 1..Len(c.sec) /\ Len(c.sec) \in Nat /\ Len(c.sec) # 0
        /\ c.sec \in Seq(SecurityEntries)
    BY <1>1, <2>1, ConfigFields
  <2>3. \A i \in 1..Len(c.sec) : i = 1 \/ i \in 2..Len(c.sec)
    BY <2>2
  <2>4. 1 \in 1..Len(c.sec)
    BY <2>2
  <2>5. {i \in DOMAIN c.sec : c.sec[i].boot} = {1}
    BY <2>1, <2>2, <2>3, <2>4
  <2> QED
    BY <1>2, <2>1, <2>2, <2>5, SelectedFirst DEF Accounts
<1>3. CASE c.version = "zero"
  <2>1. c.sec = <<>>
    BY <1>1, <1>3 DEF Whole
  <2>2. {i \in DOMAIN c.sec : c.sec[i].boot} = DOMAIN c.sec /\ c.sec \in Seq(SecurityEntries)
    BY <2>1
  <2> QED
    BY <1>3, <2>1, <2>2, SelectedAll DEF Accounts
<1> QED
  BY <1>1, <1>2, <1>3 DEF Whole

\* The server entries are changed in place.
LEMMA EditedWhole ==
  ASSUME NEW c \in Wholes, NEW srv \in Seq(ServerEntries), Len(srv) = Len(c.srv),
         \A i \in 1..Len(srv) : srv[i].id = c.srv[i].id
  PROVE  [c EXCEPT !.srv = srv] \in Wholes
<1>1. c \in Configs /\ Whole(c)
  BY DEF Wholes
<1> DEFINE e == [c EXCEPT !.srv = srv]
<1>2. e \in Configs /\ e.version = c.version /\ e.nsec = c.nsec /\ e.nsrv = c.nsrv
      /\ e.sec = c.sec /\ e.srv = srv
  BY <1>1 DEF Configs
<1> HIDE DEF e
<1>3. DOMAIN srv = 1..Len(srv) /\ DOMAIN c.srv = 1..Len(srv)
  BY <1>1, ConfigFields
<1>4. Distinctly(e.srv)
  BY <1>1, <1>2, <1>3 DEF Distinctly, Whole
<1>5. Whole(e)
  BY <1>1, <1>2, <1>4 DEF Whole
<1> QED
  BY <1>2, <1>5 DEF Wholes, e

LEMMA WithoutDmWhole ==
  ASSUME NEW c \in Wholes
  PROVE  /\ WithoutDm(c) \in Wholes /\ WithoutDm(c).version = c.version
         /\ WithoutDm(c).srv = <<>>
         /\ c.version = "v2" => WithoutDm(c).sec = <<c.sec[1]>>
<1>1. c \in Configs /\ Whole(c)
  BY DEF Wholes
<1>0. <<>> \in Seq(SecurityEntries) /\ <<>> \in Seq(ServerEntries) /\ 0 \in Nat /\ 1 \in Nat
  OBVIOUS
<1>2. c.nsec = Len(c.sec) /\ Len(c.sec) \in Nat
  BY <1>1, ConfigFields DEF Whole
<1>3. CASE c.version = "v2"
  <2>1. Accounts(c) = <<c.sec[1]>>
    BY <1>3, AccountsOfWhole
  <2>2. c.sec[1] = Security(0, TRUE, 1) /\ c.sec[1] \in SecurityEntries
    BY <1>1, <1>3, EntryTypes DEF Whole
  <2> DEFINE first == c.sec[1]
  <2> HIDE DEF first
  <2>3. <<first>> # <<>> /\ Len(<<first>>) = 1 /\ <<first>>[1] = first /\ Last(<<first>>) = first
        /\ (first \in SecurityEntries => <<first>> \in Seq(SecurityEntries))
    BY OneElement
  <2>4. WithoutDm(c) = [c EXCEPT !.sec = <<first>>, !.nsec = 1, !.srv = <<>>, !.nsrv = 0]
    <3>1. c.nsec - (Len(c.sec) - Len(<<first>>)) = 1
      BY <1>2, <2>3
    <3> QED
      BY <2>1, <2>3, <3>1 DEF WithoutDm, first
  <2> DEFINE e == WithoutDm(c)
  <2>5. e \in Configs /\ e.version = "v2" /\ e.sec = <<first>> /\ e.nsec = 1 /\ e.srv = <<>>
        /\ e.nsrv = 0
    <3>1. \A sec \in Seq(SecurityEntries) :
            LET w == [c EXCEPT !.sec = sec, !.nsec = 1, !.srv = <<>>, !.nsrv = 0]
            IN  /\ w \in Configs /\ w.version = c.version /\ w.srv = <<>>
                /\ w.sec = sec /\ w.nsec = 1 /\ w.nsrv = 0
      BY <1>1, <1>0 DEF Configs
    <3>2. <<first>> \in Seq(SecurityEntries)
      BY <2>2, <2>3 DEF first
    <3> QED
      BY <1>3, <2>4, <3>1, <3>2
  <2> HIDE DEF e
  <2>6. Distinctly(e.sec) /\ Distinctly(e.srv)
    BY <2>5 DEF Distinctly
  <2>7. Whole(e)
    BY <2>2, <2>3, <2>5, <2>6 DEF Whole, first
  <2> QED
    BY <1>3, <2>5, <2>7 DEF Wholes, e, first
<1>4. CASE c.version = "zero"
  <2>1. Accounts(c) = <<>> /\ c.sec = <<>>
    BY <1>1, <1>4, AccountsOfWhole DEF Whole
  <2>2. WithoutDm(c) = [c EXCEPT !.sec = <<>>, !.nsec = 0, !.srv = <<>>, !.nsrv = 0]
    <3>1. c.nsec - (Len(c.sec) - Len(Accounts(c))) = 0
      <4>1. Len(<<>>) = 0
        OBVIOUS
      <4> QED
        BY <1>2, <2>1, <4>1
    <3> DEFINE n == c.nsec - (Len(c.sec) - Len(Accounts(c)))
    <3>2. WithoutDm(c) = [c EXCEPT !.sec = IF Accounts(c) = <<>> THEN <<>>
                                           ELSE <<Last(Accounts(c))>>,
                                   !.nsec = n, !.srv = <<>>, !.nsrv = 0]
      BY DEF WithoutDm
    <3>3. (IF Accounts(c) = <<>> THEN <<>> ELSE <<Last(Accounts(c))>>) = <<>>
      BY <2>1
    <3>4. n = 0
      BY <3>1
    <3> HIDE DEF n
    <3> QED
      BY <3>2, <3>3, <3>4
  <2> DEFINE e == WithoutDm(c)
  <2>3. e \in Configs /\ e.version = "zero" /\ e.sec = <<>> /\ e.nsec = 0 /\ e.srv = <<>>
        /\ e.nsrv = 0
    <3>1. LET w == [c EXCEPT !.sec = <<>>, !.nsec = 0, !.srv = <<>>, !.nsrv = 0]
          IN  /\ w \in Configs /\ w.version = c.version /\ w.srv = <<>>
              /\ w.sec = <<>> /\ w.nsec = 0 /\ w.nsrv = 0
      BY <1>1, <1>0 DEF Configs
    <3> QED
      BY <1>4, <2>2, <3>1
  <2> HIDE DEF e
  <2>4. Whole(e)
    BY <2>3 DEF Whole, Distinctly
  <2> QED
    BY <1>4, <2>3, <2>4 DEF Wholes, e
<1> QED
  BY <1>1, <1>3, <1>4 DEF Whole

LEMMA WithoutDmFixed == WithoutDm(Default) = Default /\ WithoutDm(Zero) = Zero
<1>1. WithoutDm(Default).sec = Default.sec
  BY FixedConfigs, WithoutDmWhole DEF Default
<1>2. WithoutDm(Zero).sec = Zero.sec
  BY FixedConfigs, AccountsOfWhole DEF WithoutDm, Zero
<1>3. \A c \in {Default, Zero} : WithoutDm(c) \in Wholes /\ WithoutDm(c).version = c.version
        /\ WithoutDm(c).srv = c.srv
  BY FixedConfigs, WithoutDmWhole
<1>4. \A c, e \in Configs :
        /\ c.version = e.version /\ c.sec = e.sec /\ c.srv = e.srv
        /\ c.nsec = e.nsec /\ c.nsrv = e.nsrv
        => c = e
  BY DEF Configs
<1>5. \A c, e \in Wholes :
        c.version = e.version /\ c.sec = e.sec /\ c.srv = e.srv => c = e
  BY <1>4 DEF Wholes, Whole
<1> QED
  BY <1>1, <1>2, <1>3, <1>5, FixedConfigs

LEMMA AppendFields ==
  ASSUME NEW S, NEW list \in Seq(S), NEW e \in S
  PROVE  /\ Append(list, e) \in Seq(S) /\ Append(list, e) # <<>>
         /\ Len(Append(list, e)) = Len(list) + 1
         /\ DOMAIN Append(list, e) = 1..(Len(list) + 1)
         /\ \A i \in 1..Len(list) : Append(list, e)[i] = list[i]
         /\ Append(list, e)[Len(list) + 1] = e
OBVIOUS

LEMMA AppendDistinct ==
  ASSUME NEW S, NEW list \in Seq(S), NEW e \in S, Distinctly(list), ~Has(list, e.id)
  PROVE  Distinctly(Append(list, e))
<1> DEFINE n == Len(list)
           more == Append(list, e)
<1>1. n \in Nat /\ DOMAIN list = 1..n
  OBVIOUS
<1>2. DOMAIN more = 1..(n + 1) /\ more[n + 1] = e /\ \A i \in 1..n : more[i] = list[i]
  BY AppendFields
<1> HIDE DEF n, more
<1>3. \A i \in 1..(n + 1) : i \in 1..n \/ i = n + 1
  BY <1>1
<1>4. \A i \in 1..n : list[i].id # e.id
  BY <1>1 DEF Has
<1>5. \A i, j \in 1..n : list[i].id = list[j].id => i = j
  BY <1>1 DEF Distinctly
<1>6. \A i, j \in 1..(n + 1) : more[i].id = more[j].id => i = j
  BY <1>2, <1>3, <1>4, <1>5
<1> QED
  BY <1>2, <1>6 DEF Distinctly, more

LEMMA AddedServerWhole ==
  ASSUME NEW c \in Wholes, NEW e \in ServerEntries, ~Has(c.srv, e.id)
  PROVE  [c EXCEPT !.srv = Append(@, e), !.nsrv = @ + 1] \in Wholes
<1>1. c \in Configs /\ Whole(c)
  BY DEF Wholes
<1>2. c.srv \in Seq(ServerEntries) /\ c.nsrv \in Nat /\ c.nsrv = Len(c.srv) /\ Distinctly(c.srv)
  BY <1>1, ConfigFields DEF Whole
<1> DEFINE srv == Append(c.srv, e)
           w == [c EXCEPT !.srv = srv, !.nsrv = c.nsrv + 1]
<1>3. srv \in Seq(ServerEntries) /\ Len(srv) = c.nsrv + 1 /\ Distinctly(srv)
  BY <1>2, AppendFields, AppendDistinct
<1> HIDE DEF srv
<1>4. w \in Configs /\ w.version = c.version /\ w.nsec = c.nsec /\ w.nsrv = c.nsrv + 1
      /\ w.sec = c.sec /\ w.srv = srv
  <2>1. PICK n \in Nat : n = c.nsrv + 1
    BY <1>2
  <2>2. w = [c EXCEPT !.srv = srv, !.nsrv = n]
    BY <2>1
  <2>3. w \in Configs
    BY <1>1, <1>3, <2>2 DEF Configs
  <2>4. w.version = c.version /\ w.nsec = c.nsec /\ w.sec = c.sec
    BY <1>1, <2>2 DEF Configs
  <2>5. w.nsrv = n /\ w.srv = srv
    BY <1>1, <2>2 DEF Configs
  <2> QED
    BY <2>1, <2>3, <2>4, <2>5
<1> HIDE DEF w
<1>5. Whole(w)
  BY <1>1, <1>3, <1>4 DEF Whole
<1>6. w \in Wholes
  BY <1>4, <1>5 DEF Wholes
<1> QED
  BY <1>6 DEF w, srv

\* omanager_WriteServerObj.
LEMMA WithServerWhole ==
  ASSUME NEW c \in Wholes, NEW e \in ServerEntries
  PROVE  /\ WithServer(c, e) \in Wholes
         /\ WithServer(c, e).version = c.version /\ WithServer(c, e).sec = c.sec
         /\ WithServer(c, e).srv # <<>>
         /\ ServerIds(WithServer(c, e)) \subseteq ServerIds(c) \cup {e.server}
         /\ IdsOf(WithServer(c, e).srv) = IdsOf(c.srv) \cup {e.id}
<1>1. c \in Configs /\ Whole(c)
  BY DEF Wholes
<1>2. /\ c.srv \in Seq(ServerEntries) /\ Len(c.srv) \in Nat /\ DOMAIN c.srv = 1..Len(c.srv)
  BY <1>1, ConfigFields
<1>3. CASE Has(c.srv, e.id)
  <2> DEFINE k == Find(c.srv, e.id)
             srv == [c.srv EXCEPT ![k] = e]
             w == [c EXCEPT !.srv = srv]
  <2>1. k \in 1..Len(c.srv) /\ c.srv[k].id = e.id
    BY <1>2, <1>3 DEF Find, Has
  <2> HIDE DEF k
  <2>2. /\ srv \in Seq(ServerEntries) /\ Len(srv) = Len(c.srv) /\ DOMAIN srv = 1..Len(c.srv)
        /\ \A i \in 1..Len(c.srv) : srv[i] = IF i = k THEN e ELSE c.srv[i]
    BY <1>2, <2>1
  <2> HIDE DEF srv
  <2>3. \A i \in 1..Len(srv) : srv[i].id = c.srv[i].id
    BY <2>1, <2>2
  <2>4. w \in Wholes
    BY <2>2, <2>3, EditedWhole
  <2>5. w.version = c.version /\ w.sec = c.sec /\ w.srv = srv
    BY <1>1 DEF Configs
  <2>6. WithServer(c, e) = w
    BY <1>3 DEF WithServer, w, srv, k
  <2> HIDE DEF w
  <2>7. ServerIds(w) \subseteq ServerIds(c) \cup {e.server}
    BY <1>2, <2>2, <2>5 DEF ServerIds
  <2>8. IdsOf(srv) = IdsOf(c.srv) /\ e.id \in IdsOf(c.srv)
    BY <1>2, <2>1, <2>2, <2>3 DEF IdsOf
  <2>9. srv # <<>>
    BY <2>1, <2>2, <1>2
  <2> QED
    BY <2>4, <2>5, <2>6, <2>7, <2>8, <2>9
<1>4. CASE ~Has(c.srv, e.id)
  <2> DEFINE srv == Append(c.srv, e)
             w == [c EXCEPT !.srv = Append(@, e), !.nsrv = @ + 1]
  <2>1. w \in Wholes
    BY <1>4, AddedServerWhole
  <2>2. /\ DOMAIN srv = 1..(Len(c.srv) + 1) /\ srv # <<>>
        /\ \A i \in 1..Len(c.srv) : srv[i] = c.srv[i]
        /\ srv[Len(c.srv) + 1] = e
    BY <1>2, AppendFields
  <2>3. w.version = c.version /\ w.sec = c.sec /\ w.srv = srv
    BY <1>1 DEF Configs
  <2>4. WithServer(c, e) = w
    BY <1>4 DEF WithServer
  <2> HIDE DEF w, srv
  <2>5. /\ \A i \in 1..(Len(c.srv) + 1) : i \in 1..Len(c.srv) \/ i = Len(c.srv) + 1
        /\ \A i \in 1..Len(c.srv) : i \in 1..(Len(c.srv) + 1)
        /\ Len(c.srv) + 1 \in 1..(Len(c.srv) + 1)
    BY <1>2
  <2>6. ServerIds(w) \subseteq ServerIds(c) \cup {e.server}
    BY <1>2, <2>2, <2>3, <2>5 DEF ServerIds
  <2>7. IdsOf(srv) = IdsOf(c.srv) \cup {e.id}
    BY <1>2, <2>2, <2>5 DEF IdsOf
  <2> QED
    BY <2>1, <2>2, <2>3, <2>4, <2>6, <2>7
<1> QED
  BY <1>3, <1>4

\* omanager_WriteSecurityObj, for another server than the bootstrap server.
LEMMA WithSecurityWhole ==
  ASSUME NEW c \in Wholes, NEW e \in SecurityEntries, c.version = "v2", e.id # 0, ~e.boot
  PROVE  /\ WithSecurity(c, e) \in Wholes
         /\ WithSecurity(c, e).version = c.version /\ WithSecurity(c, e).srv = c.srv
         /\ IdsOf(WithSecurity(c, e).sec) = IdsOf(c.sec) \cup {e.id}
<1>1. c \in Configs /\ Whole(c)
  BY DEF Wholes
<1>2. /\ c.sec \in Seq(SecurityEntries) /\ Len(c.sec) \in Nat /\ DOMAIN c.sec = 1..Len(c.sec)
      /\ c.nsec = Len(c.sec)
  BY <1>1, ConfigFields DEF Whole
<1>3. /\ c.sec # <<>> /\ Len(c.sec) # 0 /\ c.sec[1] = Security(0, TRUE, 1)
      /\ \A i \in 2..Len(c.sec) : ~c.sec[i].boot
      /\ Distinctly(c.sec)
  <2>1. c.sec # <<>> => Len(c.sec) # 0
    BY <1>2
  <2> QED
    BY <1>1, <2>1 DEF Whole
<1>4. Security(0, TRUE, 1).id = 0
  BY DEF Security
<1>5. CASE Has(c.sec, e.id)
  <2> DEFINE k == Find(c.sec, e.id)
             sec == [c.sec EXCEPT ![k] = e]
             w == [c EXCEPT !.sec = sec]
  <2>1. k \in 1..Len(c.sec) /\ c.sec[k].id = e.id
    BY <1>2, <1>5 DEF Find, Has
  <2> HIDE DEF k
  <2>2. k # 1
    BY <2>1, <1>3, <1>4
  <2>3. /\ sec \in Seq(SecurityEntries) /\ Len(sec) = Len(c.sec) /\ DOMAIN sec = 1..Len(c.sec)
        /\ \A i \in 1..Len(c.sec) : sec[i] = IF i = k THEN e ELSE c.sec[i]
    BY <1>2, <2>1
  <2> HIDE DEF sec
  <2>4. \A i \in 1..Len(sec) : sec[i].id = c.sec[i].id
    BY <2>1, <2>3
  <2>5. Distinctly(sec)
    BY <1>2, <1>3, <2>3, <2>4 DEF Distinctly
  <2>6. sec # <<>> /\ sec[1] = Security(0, TRUE, 1)
    <3>1. 1 \in 1..Len(c.sec)
      BY <1>2, <1>3
    <3>2. sec[1] = c.sec[1]
      BY <3>1, <2>2, <2>3
    <3>3. sec # <<>>
      BY <2>3, <1>3
    <3> QED
      BY <3>2, <3>3, <1>3
  <2>7. \A i \in 2..Len(sec) : ~sec[i].boot
    BY <1>2, <1>3, <2>3
  <2>8. w \in Configs /\ w.version = c.version /\ w.nsec = c.nsec /\ w.nsrv = c.nsrv
        /\ w.sec = sec /\ w.srv = c.srv
    BY <1>1, <2>3 DEF Configs
  <2>9. WithSecurity(c, e) = w
    BY <1>5 DEF WithSecurity, w, sec, k
  <2> HIDE DEF w
  <2>10. Whole(w)
    BY <1>1, <2>3, <2>5, <2>6, <2>7, <2>8 DEF Whole
  <2>11. IdsOf(sec) = IdsOf(c.sec) /\ e.id \in IdsOf(c.sec)
    BY <1>2, <2>1, <2>3, <2>4 DEF IdsOf
  <2> QED
    BY <2>8, <2>9, <2>10, <2>11 DEF Wholes
<1>6. CASE ~Has(c.sec, e.id)
  <2> DEFINE sec == Append(c.sec, e)
             w == [c EXCEPT !.sec = Append(@, e), !.nsec = @ + 1]
  <2>1. /\ sec \in Seq(SecurityEntries) /\ sec # <<>> /\ Len(sec) = c.nsec + 1
        /\ DOMAIN sec = 1..(Len(c.sec) + 1)
        /\ \A i \in 1..Len(c.sec) : sec[i] = c.sec[i]
        /\ sec[Len(c.sec) + 1] = e
    BY <1>2, AppendFields
  <2>2. Distinctly(sec)
    BY <1>2, <1>3, <1>6, AppendDistinct
  <2>3. w \in Configs /\ w.version = c.version /\ w.nsec = c.nsec + 1 /\ w.nsrv = c.nsrv
        /\ w.sec = sec /\ w.srv = c.srv
    <3>1. PICK n \in Nat : n = c.nsec + 1
      BY <1>2
    <3>2. PICK list : list = sec
      OBVIOUS
    <3>3. w = [c EXCEPT !.sec = list, !.nsec = n] /\ list \in Seq(SecurityEntries)
      BY <2>1, <3>1, <3>2
    <3>4. w \in Configs
      BY <1>1, <3>3 DEF Configs
    <3>5. w.version = c.version /\ w.nsrv = c.nsrv /\ w.srv = c.srv
      BY <1>1, <3>3 DEF Configs
    <3>6. w.nsec = n /\ w.sec = list
      BY <1>1, <3>3 DEF Configs
    <3> QED
      BY <3>1, <3>2, <3>4, <3>5, <3>6
  <2>4. WithSecurity(c, e) = w
    BY <1>6 DEF WithSecurity
  <2> HIDE DEF w, sec
  <2>5. /\ \A i \in 1..(Len(c.sec) + 1) : i \in 1..Len(c.sec) \/ i = Len(c.sec) + 1
        /\ \A i \in 1..Len(c.sec) : i \in 1..(Len(c.sec) + 1)
        /\ Len(c.sec) + 1 \in 1..(Len(c.sec) + 1)
        /\ \A i \in 2..(Len(c.sec) + 1) : i \in 2..Len(c.sec) \/ i = Len(c.sec) + 1
        /\ \A i \in 2..Len(c.sec) : i \in 1..Len(c.sec)
        /\ 1 \in 1..Len(c.sec)
    BY <1>2, <1>3
  <2>6. sec[1] = Security(0, TRUE, 1)
    BY <1>3, <2>1, <2>5
  <2>7. \A i \in 2..Len(sec) : ~sec[i].boot
    BY <1>2, <1>3, <2>1, <2>5
  <2>8. Whole(w)
    BY <1>1, <1>2, <2>1, <2>2, <2>3, <2>6, <2>7 DEF Whole
  <2>9. IdsOf(sec) = IdsOf(c.sec) \cup {e.id}
    BY <1>2, <2>1, <2>5 DEF IdsOf
  <2> QED
    BY <2>3, <2>4, <2>8, <2>9 DEF Wholes
<1> QED
  BY <1>5, <1>6

LEMMA NoServers ==
  ASSUME NEW c \in Configs, c.srv = <<>>
  PROVE  ServerIds(c) = {} /\ IdsOf(c.srv) = {} /\ \A id : ~Has(c.srv, id)
BY DEF ServerIds, IdsOf, Has

\* UpdateLifetime.
LEMMA WithLifetimeWhole ==
  ASSUME NEW c \in Wholes, NEW life \in Nat
  PROVE  /\ WithLifetime(c, life) \in Wholes
         /\ WithLifetime(c, life).version = c.version /\ WithLifetime(c, life).sec = c.sec
         /\ WithLifetime(c, life).srv # <<>>
         /\ ServerIds(WithLifetime(c, life)) \subseteq ServerIds(c) \cup {0}
         /\ c.srv # <<>> =>
              /\ IdsOf(WithLifetime(c, life).srv) = IdsOf(c.srv)
              /\ \A i \in DOMAIN WithLifetime(c, life).srv :
                   WithLifetime(c, life).srv[i].life = life
         /\ c.srv = <<>> => IdsOf(WithLifetime(c, life).srv) = {0}
<1>1. c \in Configs /\ Whole(c)
  BY DEF Wholes
<1>2. /\ c.srv \in Seq(ServerEntries) /\ Len(c.srv) \in Nat /\ DOMAIN c.srv = 1..Len(c.srv)
  BY <1>1, ConfigFields
<1>3. CASE c.srv = <<>>
  <2> DEFINE e == Server(0, 0, 0)
  <2>1. e \in ServerEntries /\ e.id = 0 /\ e.server = 0
    BY EntryTypes DEF Server
  <2>2. WithLifetime(c, life) = WithServer(c, e)
    <3>1. ~Has(c.srv, e.id)
      BY <1>3 DEF Has
    <3>2. WithLifetime(c, life) = [c EXCEPT !.srv = <<e>>, !.nsrv = @ + 1]
      BY <1>3 DEF WithLifetime
    <3>3. WithServer(c, e) = [c EXCEPT !.srv = Append(c.srv, e), !.nsrv = @ + 1]
      BY <3>1 DEF WithServer
    <3> HIDE DEF e
    <3>4. Append(c.srv, e) = <<e>>
      BY <1>3
    <3> QED
      BY <3>2, <3>3, <3>4
  <2> HIDE DEF e
  <2>3. IdsOf(c.srv) = {}
    BY <1>1, <1>3, NoServers
  <2> QED
    BY <1>3, <2>1, <2>2, <2>3, WithServerWhole
<1>4. CASE c.srv # <<>>
  <2> DEFINE srv == [i \in DOMAIN c.srv |-> [c.srv[i] EXCEPT !.life = life]]
             w == [c EXCEPT !.srv = srv]
  <2>1. WithLifetime(c, life) = w
    BY <1>4 DEF WithLifetime
  <2>2. \A i \in 1..Len(c.srv) :
          LET e == [c.srv[i] EXCEPT !.life = life]
          IN  e \in ServerEntries /\ e.id = c.srv[i].id /\ e.server = c.srv[i].server
              /\ e.life = life
    <3> TAKE i \in 1..Len(c.srv)
    <3>1. c.srv[i] \in ServerEntries
      BY <1>2
    <3> QED
      BY <3>1 DEF ServerEntries
  <2>3. srv \in [1..Len(c.srv) -> ServerEntries]
    BY <1>2, <2>2
  <2>4. srv \in Seq(ServerEntries) /\ Len(srv) = Len(c.srv) /\ DOMAIN srv = 1..Len(c.srv)
    <3>1. ASSUME NEW n \in Nat, NEW f \in [1..n -> ServerEntries]
          PROVE  f \in Seq(ServerEntries) /\ Len(f) = n /\ DOMAIN f = 1..n
      OBVIOUS
    <3> HIDE DEF srv
    <3> QED
      BY <1>2, <2>3, <3>1
  <2>5. \A i \in 1..Len(c.srv) :
          srv[i].id = c.srv[i].id /\ srv[i].server = c.srv[i].server /\ srv[i].life = life
    BY <1>2, <2>2
  <2> HIDE DEF srv
  <2>6. w \in Wholes
    BY <2>4, <2>5, EditedWhole
  <2>7. w.version = c.version /\ w.sec = c.sec /\ w.srv = srv
    BY <1>1 DEF Configs
  <2> HIDE DEF w
  <2>8. ServerIds(w) = ServerIds(c)
    BY <1>2, <2>4, <2>5, <2>7 DEF ServerIds
  <2>9. IdsOf(srv) = IdsOf(c.srv)
    BY <1>2, <2>4, <2>5 DEF IdsOf
  <2>10. srv # <<>>
    BY <1>2, <1>4, <2>4
  <2> QED
    BY <1>4, <2>1, <2>4, <2>5, <2>6, <2>7, <2>8, <2>9, <2>10
<1> QED
  BY <1>3, <1>4

----------------------------------------------------------------------------
(* The storages that a handler goes through: those of a set X.              *)

LEMMA TwoMore ==
  ASSUME NEW X, NEW steps \in Seq(X), NEW a \in X, NEW b \in X
  PROVE  /\ steps \o <<a, b>> \in Seq(X) /\ steps \o <<a, b>> # <<>>
         /\ Last(steps \o <<a, b>>) = b
<1> DEFINE more == steps \o <<a, b>>
<1>1. Len(steps) \in Nat
  OBVIOUS
<1>2. more \in Seq(X) /\ Len(more) = Len(steps) + 2
  OBVIOUS
<1>3. more[Len(steps) + 2] = b
  BY <1>1
<1> HIDE DEF more
<1>4. more # <<>>
  BY <1>1, <1>2
<1> QED
  BY <1>2, <1>3, <1>4 DEF Last, more

LEMMA LastIn ==
  ASSUME NEW X, NEW steps \in Seq(X), steps # <<>>
  PROVE  Last(steps) \in X /\ Len(steps) \in Nat /\ Len(steps) >= 1
<1>1. Len(steps) \in Nat /\ Len(steps) # 0 /\ DOMAIN steps = 1..Len(steps)
  OBVIOUS
<1> QED
  BY <1>1 DEF Last

LEMMA OneStep ==
  ASSUME NEW X, NEW d \in X
  PROVE  <<d>> \in Seq(X) /\ <<d>> # <<>> /\ Last(<<d>>) = d
BY OneElement

LEMMA TwoSteps ==
  ASSUME NEW X, NEW d \in X, NEW e \in X
  PROVE  <<d, e>> \in Seq(X) /\ <<d, e>> # <<>> /\ Last(<<d, e>>) = e
BY DEF Last

PaddedAcl(a) == [a EXCEPT !.list = Padded(@, a.n, AclEntry(0, {}))]

\* A handler ends, or the power is lost at one of its storages.
LEMMA DoIn ==
  ASSUME NEW X, NEW steps \in Seq(X), steps # <<>>, NEW m, Do(steps, m)
  PROVE  \/ disk' = Last(steps) /\ mem' = m
         \/ /\ disk' \in X /\ mem' = NoMemory
            /\ AclTorn(disk') => AclTorn(disk) \/ "aclTorn" \in Deviations
<1>1. CASE disk' = Last(steps) /\ mem' = m
  BY <1>1
<1>2. CASE ~(disk' = Last(steps) /\ mem' = m)
  <2>1. mem' = NoMemory
    BY <1>2 DEF Do
  <2>2. PICK i \in 1..Len(steps) - 1 :
          /\ AclTorn(steps[i]) => AclTorn(disk) \/ "aclTorn" \in Deviations
          /\ disk' = steps[i]
    BY <1>2 DEF Do
  <2>3. steps[i] \in X
    BY LastIn
  <2> QED
    BY <2>1, <2>2, <2>3
<1> QED
  BY <1>1, <1>2

LEMMA AclFields ==
  ASSUME NEW a \in Acls
  PROVE  a.n \in Nat /\ a.list \in Seq(AclEntries) /\ Len(a.list) \in Nat
         /\ DOMAIN a.list = 1..Len(a.list) /\ Len(a.list) <= a.n
<1>1. a.n \in Nat /\ a.list \in Seq(AclEntries) /\ Len(a.list) <= a.n
  BY DEF Acls, AclRecords
<1> QED
  BY <1>1

LEMMA AclWith ==
  ASSUME NEW list \in Seq(AclEntries)
  PROVE  /\ \A n \in Nat : Len(list) <= n => [n |-> n, list |-> list] \in Acls
         /\ \A a \in Acls : /\ Len(list) <= a.n => [a EXCEPT !.list = list] \in Acls
                           /\ [a EXCEPT !.list = list].n = a.n
                           /\ [a EXCEPT !.list = list].list = list
BY DEF Acls, AclRecords

LEMMA NoAclType == NoAcl \in Acls /\ NoAcl.n = 0 /\ NoAcl.list = <<>>
<1>1. <<>> \in Seq(AclEntries) /\ 0 \in Nat /\ Len(<<>>) <= 0
  OBVIOUS
<1> QED
  BY <1>1 DEF NoAcl, Acls, AclRecords

LEMMA AclLengthType ==
  ASSUME NEW a \in Acls
  PROVE  AclLength(a) \in Nat /\ AclLength(a) >= 6
<1>1. a.n \in Nat /\ a.list \in Seq(AclEntries) /\ Len(a.list) \in Nat
      /\ DOMAIN a.list = 1..Len(a.list)
  BY AclFields
<1> DEFINE Rows == {{i} \X a.list[i].rights : i \in DOMAIN a.list}
<1>2. IsFiniteSet(DOMAIN a.list)
  BY <1>1, FS_Interval
<1>3. IsFiniteSet(Rows)
  <2> DEFINE f == [i \in DOMAIN a.list |-> {i} \X a.list[i].rights]
  <2>1. f \in Surjection(DOMAIN a.list, Rows)
    BY DEF Surjection
  <2> QED
    BY <2>1, <1>2, FS_Surjection
<1>4. \A r \in Rows : IsFiniteSet(r)
  <2> TAKE r \in Rows
  <2>1. PICK i \in DOMAIN a.list : r = {i} \X a.list[i].rights
    OBVIOUS
  <2>2. a.list[i].rights \in SUBSET {1}
    <3>1. a.list[i] \in AclEntries
      BY <1>1
    <3> QED
      BY <3>1 DEF AclEntries
  <2>3. IsFiniteSet({i}) /\ IsFiniteSet({1})
    BY FS_Singleton
  <2>4. IsFiniteSet(a.list[i].rights)
    BY <2>2, <2>3, FS_Subset
  <2> QED
    BY <2>1, <2>3, <2>4, FS_Product
<1>5. Cardinality(UNION Rows) \in Nat
  BY <1>3, <1>4, FS_UNION, FS_CardinalityType
<1>6. AclLength(a) = 6 + 10 * a.n + 4 * Cardinality(UNION Rows)
  BY DEF AclLength
<1> HIDE DEF Rows
<1> QED
  BY <1>1, <1>5, <1>6

LEMMA PaddedAclType ==
  ASSUME NEW a \in Acls
  PROVE  PaddedAcl(a) \in Acls /\ (a.n = Len(a.list) => PaddedAcl(a) = a)
<1> DEFINE list == Padded(a.list, a.n, AclEntry(0, {}))
<1>1. PaddedAcl(a) = [a EXCEPT !.list = list]
  BY DEF PaddedAcl
<1>2. list \in Seq(AclEntries) /\ Len(list) = a.n
  <2>1. a.n \in Nat /\ a.list \in Seq(AclEntries) /\ AclEntry(0, {}) \in AclEntries
    BY AclFields, EntryTypes
  <2>2. \A zero \in AclEntries : /\ Padded(a.list, a.n, zero) \in Seq(AclEntries)
                                 /\ Len(Padded(a.list, a.n, zero)) = a.n
    BY <2>1, PaddedType
  <2> QED
    BY <2>1, <2>2
<1>3. a.n = Len(a.list) => list = a.list
  BY AclFields, PaddedWhole
<1> HIDE DEF list
<1>4. a.n \in Nat /\ a.n <= a.n
  BY AclFields
<1>5. PaddedAcl(a) \in Acls
  <2>1. Len(list) <= a.n
    BY <1>2, <1>4
  <2> QED
    BY <2>1, <1>1, <1>2, <1>4, AclWith
<1>6. [a EXCEPT !.list = a.list] = a
  BY DEF Acls, AclRecords
<1> QED
  BY <1>1, <1>3, <1>5, <1>6

----------------------------------------------------------------------------
(* The bootstrap configuration in the storage.                              *)

\* It is whole, or that of the previous version, or none; its size is stored first.
Sound(d) ==
  /\ \/ d.param = Absent
     \/ d.param.version = "v1" /\ [d.param EXCEPT !.version = "v2"] \in Wholes
     \/ d.param \in Wholes
  /\ d.size = NoSize \/ d.size \in Nat
  /\ d.size = NoSize => d.param.version \in {"none", "v1"}

\* What a power loss may leave: servers that were not known before have keys.
Keyed(known, d) == d.param.version = "v2" => ServerIds(d.param) \ (known \cup {0}) \subseteq d.keys
Nexts(known) == {d \in Disks : Sound(d) /\ Keyed(known, d)}

LEMMA DiskFields ==
  ASSUME NEW d \in Disks
  PROVE  /\ d.size \in Int /\ d.param \in Configs /\ d.aclSize \in Int /\ d.acl \in Acls
         /\ d.keys \in SUBSET Nat
         /\ \A n \in Int : LET e == [d EXCEPT !.size = n]
                           IN  /\ e \in Disks /\ e.size = n /\ e.param = d.param
                               /\ e.aclSize = d.aclSize /\ e.acl = d.acl /\ e.keys = d.keys
         /\ \A c \in Configs : LET e == [d EXCEPT !.param = c]
                               IN  /\ e \in Disks /\ e.size = d.size /\ e.param = c
                                   /\ e.aclSize = d.aclSize /\ e.acl = d.acl /\ e.keys = d.keys
         /\ \A n \in Int : LET e == [d EXCEPT !.aclSize = n]
                           IN  /\ e \in Disks /\ e.size = d.size /\ e.param = d.param
                               /\ e.aclSize = n /\ e.acl = d.acl /\ e.keys = d.keys
         /\ \A a \in Acls : LET e == [d EXCEPT !.acl = a]
                            IN  /\ e \in Disks /\ e.size = d.size /\ e.param = d.param
                                /\ e.aclSize = d.aclSize /\ e.acl = a /\ e.keys = d.keys
         /\ \A k \in SUBSET Nat : LET e == [d EXCEPT !.keys = k]
                                  IN  /\ e \in Disks /\ e.size = d.size /\ e.param = d.param
                                      /\ e.aclSize = d.aclSize /\ e.acl = d.acl /\ e.keys = k
BY DEF Disks

LEMMA KeysChanged ==
  ASSUME NEW d \in Disks, NEW k \in SUBSET Nat
  PROVE  /\ [d EXCEPT !.keys = k] \in Disks /\ [d EXCEPT !.keys = k].keys = k
         /\ [d EXCEPT !.keys = k].size = d.size /\ [d EXCEPT !.keys = k].param = d.param
<1>1. [d EXCEPT !.keys = k] \in Disks
  BY DEF Disks
<1>2. [d EXCEPT !.keys = k].keys = k
  BY DEF Disks
<1>3. [d EXCEPT !.keys = k].size = d.size /\ [d EXCEPT !.keys = k].param = d.param
  BY DEF Disks
<1> QED
  BY <1>1, <1>2, <1>3

LEMMA StoreWholeIn ==
  ASSUME NEW known, NEW steps \in Seq(Nexts(known)), steps # <<>>, NEW c \in Wholes,
         c.version = "v2" => ServerIds(c) \ (known \cup {0}) \subseteq Last(steps).keys
  PROVE  LET r == StoreConfig(steps, c)
         IN  /\ r \in Seq(Nexts(known)) /\ r # <<>>
             /\ Last(r) \in Nexts(known)
             /\ Last(r).param = c /\ Last(r).size = Length(c)
             /\ Last(r).keys = Last(steps).keys
             /\ Last(r).acl = Last(steps).acl /\ Last(r).aclSize = Last(steps).aclSize
<1> DEFINE d == Last(steps)
<1>1. d \in Disks /\ Sound(d) /\ Keyed(known, d)
  BY LastIn DEF Nexts
<1>2. c \in Configs /\ Stored(c) = c /\ Length(c) \in Nat
  BY StoredWhole, LengthType DEF Wholes, Whole
<1>3. NoSize \notin Nat /\ \A n \in Nat : n # NoSize /\ n \in Int
  BY DEF NoSize
<1> HIDE DEF d
<1> DEFINE a == [d EXCEPT !.size = Length(c)]
           b == [a EXCEPT !.param = c]
<1>4. /\ a \in Disks /\ a.size = Length(c) /\ a.param = d.param /\ a.keys = d.keys
      /\ a.acl = d.acl /\ a.aclSize = d.aclSize
  BY <1>1, <1>2, <1>3, DiskFields
<1> HIDE DEF a
<1>5. /\ b \in Disks /\ b.size = Length(c) /\ b.param = c /\ b.keys = d.keys
      /\ b.acl = d.acl /\ b.aclSize = d.aclSize
  BY <1>2, <1>4, DiskFields
<1> HIDE DEF b
<1>6. a \in Nexts(known)
  BY <1>1, <1>2, <1>3, <1>4 DEF Nexts, Sound, Keyed
<1>7. b \in Nexts(known)
  BY <1>2, <1>3, <1>5 DEF Nexts, Sound, Keyed, d
<1>8. /\ StoreConfig(steps, c) \in Seq(Nexts(known)) /\ StoreConfig(steps, c) # <<>>
      /\ Last(StoreConfig(steps, c)) = b
  <2>1. StoreConfig(steps, c) = steps \o <<a, b>>
    BY <1>2 DEF StoreConfig, a, b, d
  <2> QED
    BY <2>1, <1>6, <1>7, TwoMore
<1> QED
  BY <1>5, <1>7, <1>8 DEF d

\* The access rights are stored apart: a set of storages that does not depend on them.
AclClosed(X) ==
  /\ X \subseteq Disks
  /\ \A d \in X, e \in Disks :
       e.size = d.size /\ e.param = d.param /\ e.keys = d.keys => e \in X

LEMMA NextsClosed == \A known : AclClosed(Nexts(known))
BY DEF AclClosed, Nexts, Sound, Keyed

LEMMA AclApart ==
  ASSUME NEW X, AclClosed(X), NEW d \in X
  PROVE  /\ \A n \in Int : [d EXCEPT !.aclSize = n] \in X
         /\ \A a \in Acls : [d EXCEPT !.acl = a] \in X
<1>1. d \in Disks
  BY DEF AclClosed
<1>2. ASSUME NEW e \in Disks, e.size = d.size, e.param = d.param, e.keys = d.keys
      PROVE  e \in X
  BY <1>2 DEF AclClosed
<1>3. ASSUME NEW n \in Int
      PROVE  [d EXCEPT !.aclSize = n] \in X
  <2> DEFINE e == [d EXCEPT !.aclSize = n]
  <2>1. e \in Disks /\ e.size = d.size /\ e.param = d.param /\ e.keys = d.keys
    BY <1>1, DiskFields
  <2> HIDE DEF e
  <2> QED
    BY <1>2, <2>1 DEF e
<1>4. ASSUME NEW a \in Acls
      PROVE  [d EXCEPT !.acl = a] \in X
  <2> DEFINE e == [d EXCEPT !.acl = a]
  <2>1. e \in Disks /\ e.size = d.size /\ e.param = d.param /\ e.keys = d.keys
    BY <1>1, DiskFields
  <2> HIDE DEF e
  <2> QED
    BY <1>2, <2>1 DEF e
<1> QED
  BY <1>3, <1>4

LEMMA StoreAclIn ==
  ASSUME NEW X, AclClosed(X), NEW steps \in Seq(X), steps # <<>>, NEW a \in Acls
  PROVE  LET r == StoreAcl(steps, a)
         IN  /\ r \in Seq(X) /\ r # <<>> /\ Last(r) \in X
             /\ Last(r).param = Last(steps).param /\ Last(r).size = Last(steps).size
<1> DEFINE d == Last(steps)
<1>1. d \in X /\ d \in Disks
  BY LastIn DEF AclClosed
<1>2. PaddedAcl(a) \in Acls /\ AclLength(a) \in Int
  BY PaddedAclType, AclLengthType
<1> HIDE DEF d
<1> DEFINE s == [d EXCEPT !.aclSize = AclLength(a)]
           t == [s EXCEPT !.acl = PaddedAcl(a)]
<1>3. s \in X /\ s \in Disks /\ s.param = d.param /\ s.size = d.size
  BY <1>1, <1>2, AclApart, DiskFields
<1> HIDE DEF s
<1>4. t \in X /\ t.param = d.param /\ t.size = d.size
  BY <1>2, <1>3, AclApart, DiskFields
<1> HIDE DEF t
<1>5. /\ StoreAcl(steps, a) \in Seq(X) /\ StoreAcl(steps, a) # <<>>
      /\ Last(StoreAcl(steps, a)) = t
  <2>1. StoreAcl(steps, a) = steps \o <<s, t>>
    BY DEF StoreAcl, PaddedAcl, s, t, d
  <2> QED
    BY <2>1, <1>3, <1>4, TwoMore
<1> QED
  BY <1>4, <1>5 DEF d

LEMMA LoadAclIn ==
  ASSUME NEW X, AclClosed(X), NEW steps \in Seq(X), steps # <<>>
  PROVE  LET r == LoadAcl(steps)
         IN  /\ r.steps \in Seq(X) /\ r.steps # <<>> /\ Last(r.steps) \in X
             /\ Last(r.steps).param = Last(steps).param /\ Last(r.steps).size = Last(steps).size
             /\ r.acl \in Acls
<1> DEFINE d == Last(steps)
<1>1. d \in X /\ d.acl \in Acls /\ d.aclSize \in Int
  BY LastIn, DiskFields DEF AclClosed
<1>2. NoAcl \in Acls /\ [d.acl EXCEPT !.list = <<>>] \in Acls
  <2>1. <<>> \in Seq(AclEntries) /\ Len(<<>>) <= d.acl.n /\ d.acl.n \in Nat
    BY <1>1, AclFields
  <2> QED
    BY <2>1, <1>1, NoAclType, AclWith
<1>3. AclLength(d.acl) \in Nat
  BY <1>1, AclLengthType
<1> HIDE DEF d
<1>4. CASE d.aclSize > AclLength(d.acl) \/ d.aclSize = NoSize
  <2>1. LoadAcl(steps) = [acl |-> NoAcl, steps |-> StoreAcl(steps, NoAcl)]
    BY <1>1, <1>3, <1>4 DEF LoadAcl, d
  <2> QED
    BY <2>1, <1>2, StoreAclIn
<1>5. CASE d.aclSize # NoSize /\ d.aclSize < AclLength(d.acl)
  <2>1. LoadAcl(steps) = [acl |-> [d.acl EXCEPT !.list = <<>>], steps |-> steps]
    BY <1>1, <1>3, <1>5 DEF LoadAcl, d
  <2> QED
    BY <2>1, <1>1, <1>2 DEF d
<1>6. CASE d.aclSize = AclLength(d.acl) /\ d.aclSize # NoSize
  <2>1. LoadAcl(steps) = [acl |-> d.acl, steps |-> steps]
    BY <1>1, <1>3, <1>6 DEF LoadAcl, d
  <2> QED
    BY <2>1, <1>1 DEF d
<1> QED
  BY <1>1, <1>3, <1>4, <1>5, <1>6

LEMMA StoreAclApart ==
  ASSUME NEW known, NEW steps \in Seq(Nexts(known)), steps # <<>>, NEW a \in Acls
  PROVE  LET r == StoreAcl(steps, a)
         IN  /\ r \in Seq(Nexts(known)) /\ r # <<>> /\ Last(r) \in Nexts(known)
             /\ Last(r).param = Last(steps).param /\ Last(r).size = Last(steps).size
BY NextsClosed, StoreAclIn

LEMMA LoadAclApart ==
  ASSUME NEW known, NEW steps \in Seq(Nexts(known)), steps # <<>>
  PROVE  LET r == LoadAcl(steps)
         IN  /\ r.steps \in Seq(Nexts(known)) /\ r.steps # <<>> /\ Last(r.steps) \in Nexts(known)
             /\ Last(r.steps).param = Last(steps).param /\ Last(r.steps).size = Last(steps).size
             /\ r.acl \in Acls
BY NextsClosed, LoadAclIn

----------------------------------------------------------------------------
(* omanager_LoadBootstrapConfiguration.                                     *)

LEMMA DistinctWhole ==
  ASSUME NEW c \in Wholes
  PROVE  [c EXCEPT !.sec = Distinct(@), !.srv = Distinct(@)] = c
<1>1. c \in Configs /\ Distinctly(c.sec) /\ Distinctly(c.srv)
  BY DEF Wholes, Whole
<1>2. ASSUME NEW S, NEW list \in Seq(S), Distinctly(list)
      PROVE  Distinct(list) = list
  <2>1. DOMAIN list = 1..Len(list) /\ Len(list) \in Nat
    OBVIOUS
  <2>2. \A i \in 1..Len(list) : \A j \in 1..(i - 1) : j \in 1..Len(list) /\ j # i
    BY <2>1
  <2>3. \A i \in DOMAIN list : \A j \in 1..(i - 1) : list[j].id # list[i].id
    BY <1>2, <2>1, <2>2 DEF Distinctly
  <2>4. {i \in DOMAIN list : \A j \in 1..(i - 1) : list[j].id # list[i].id} = DOMAIN list
    BY <2>3
  <2> QED
    BY <2>4, SelectedAll DEF Distinct
<1>3. Distinct(c.sec) = c.sec /\ Distinct(c.srv) = c.srv
  BY <1>1, <1>2, ConfigFields
<1>4. [c EXCEPT !.sec = c.sec, !.srv = c.srv] = c
  BY <1>1 DEF Configs
<1> QED
  BY <1>3, <1>4

Loaded(c, ok, steps) == [config |-> c, ok |-> ok, steps |-> steps]

LEMMA LoadedFields ==
  ASSUME NEW c, NEW ok, NEW steps, NEW r, r = Loaded(c, ok, steps)
  PROVE  r.config = c /\ r.ok = ok /\ r.steps = steps
<1>1. r.config = c
  BY DEF Loaded
<1>2. r.ok = ok
  BY DEF Loaded
<1>3. r.steps = steps
  BY DEF Loaded
<1> QED
  BY <1>1, <1>2, <1>3

\* What it returns, for each storage it may find.
LEMMA LoadCases ==
  ASSUME NEW d \in Disks, Sound(d), NEW storage \in BOOLEAN
  PROVE  LET After(steps, c) == IF storage THEN StoreConfig(steps, c) ELSE steps
         IN  \/ /\ d.param.version = "v1"
                /\ LET c == IF storage THEN Adapted(d) ELSE Zero
                   IN  Load(d, storage) = Loaded(c, TRUE, After(<<d>>, c))
             \/ Load(d, storage) = Loaded(Default, TRUE, After(<<d>>, Default))
             \/ Load(d, storage) = Loaded(Default, FALSE, After(<<d>>, Default))
             \/ Load(d, storage) = Loaded(Zero, FALSE, <<d>>)
             \/ Load(d, storage) = Loaded(Default, FALSE, After(DeleteStored(d), Default))
             \/ /\ d.param \in Wholes /\ d.param.version = "v2" /\ d.size = Length(d.param)
                /\ Load(d, storage) = Loaded(d.param, TRUE, <<d>>)
<1> DEFINE After(steps, c) == IF storage THEN StoreConfig(steps, c) ELSE steps
<1>1. /\ d.param.version \in {"none", "zero", "v1", "v2"}
      /\ Length(d.param) \in Nat /\ d.size \in Int /\ NoSize \notin Nat
  BY DiskFields, ConfigFields, LengthType DEF NoSize
<1>2. CASE d.size = NoSize /\ d.param.version = "v1"
  <2> DEFINE c == IF storage THEN Adapted(d) ELSE Zero
  <2>1. Load(d, storage) = Loaded(c, TRUE, After(<<d>>, c))
    BY <1>1, <1>2 DEF Load, Loaded
  <2> QED
    BY <1>2, <2>1
<1>3. CASE d.size = NoSize /\ d.param.version # "v1"
  <2>1. Load(d, storage) = Loaded(Default, TRUE, After(<<d>>, Default))
    BY <1>1, <1>3 DEF Load, Loaded
  <2> QED
    BY <2>1
<1>4. CASE d.size # NoSize /\ d.param.version = "none"
  <2>1. Load(d, storage) = Loaded(Default, FALSE, After(<<d>>, Default))
    BY <1>1, <1>4 DEF Load, Loaded
  <2> QED
    BY <2>1
<1>5. CASE d.size # NoSize /\ d.param.version # "none" /\ d.size < Length(d.param)
  <2>1. Load(d, storage) = Loaded(Zero, FALSE, <<d>>)
    BY <1>1, <1>5 DEF Load, Loaded
  <2> QED
    BY <2>1
<1>6. CASE d.param.version = "v2" /\ d.size = Length(d.param)
  <2>1. d.param \in Wholes
    BY <1>6, FixedConfigs DEF Sound
  <2>2. Load(d, storage) = Loaded([d.param EXCEPT !.sec = Distinct(@), !.srv = Distinct(@)], TRUE, <<d>>)
    BY <1>1, <1>6 DEF Load, Loaded
  <2> QED
    BY <1>6, <2>1, <2>2, DistinctWhole
<1>7. CASE /\ d.size # NoSize /\ d.param.version # "none" /\ ~(d.size < Length(d.param))
           /\ ~(d.param.version = "v2" /\ d.size = Length(d.param))
  <2>1. Load(d, storage) = Loaded(Default, FALSE, After(DeleteStored(d), Default))
    BY <1>1, <1>7 DEF Load, Loaded
  <2> QED
    BY <2>1
<1> QED
  BY <1>1, <1>2, <1>3, <1>4, <1>5, <1>6, <1>7

LEMMA DeletedIn ==
  ASSUME NEW known, NEW d \in Nexts(known)
  PROVE  DeleteStored(d) \in Seq(Nexts(known)) /\ DeleteStored(d) # <<>>
<1> DEFINE a == [d EXCEPT !.param = Absent]
           b == [a EXCEPT !.size = NoSize]
<1>1. d \in Disks /\ Sound(d) /\ Absent \in Configs /\ Absent.version = "none"
      /\ NoSize \in Int
  BY FixedConfigs DEF Nexts, NoSize
<1>2. a \in Disks /\ a.param = Absent /\ a.size = d.size /\ a.keys = d.keys
  BY <1>1, DiskFields
<1> HIDE DEF a
<1>3. b \in Disks /\ b.param = Absent /\ b.size = NoSize
  BY <1>1, <1>2, DiskFields
<1>4. a \in Nexts(known)
  BY <1>1, <1>2 DEF Nexts, Sound, Keyed
<1> HIDE DEF b
<1>5. b \in Nexts(known)
  BY <1>1, <1>3 DEF Nexts, Sound, Keyed
<1>6. DeleteStored(d) = <<d, a, b>>
  BY DEF DeleteStored, a, b
<1> QED
  BY <1>4, <1>5, <1>6

LEMMA AdaptedWhole ==
  ASSUME NEW d \in Disks, Sound(d), d.param.version = "v1"
  PROVE  /\ Adapted(d) \in Wholes
         /\ ServerIds(Adapted(d)) \subseteq ServerIds(d.param)
         /\ Adapted(d) \in {Zero, [d.param EXCEPT !.version = "v2"]}
<1> DEFINE c == [d.param EXCEPT !.version = "v2"]
<1>1. d.param \in Configs
  BY DiskFields
<1>2. c \in Wholes
  <2>1. d.param # Absent
    BY FixedConfigs
  <2>2. d.param \notin Wholes
    BY DEF Wholes, Whole
  <2> QED
    BY <2>1, <2>2 DEF Sound
<1>3. c.srv = d.param.srv
  BY <1>1 DEF Configs
<1>4. ServerIds(c) = ServerIds(d.param)
  BY <1>3 DEF ServerIds
<1>5. Adapted(d) = IF 1 \in d.keys THEN c ELSE Zero
  BY DEF Adapted
<1>6. ServerIds(Zero) = {}
  BY FixedConfigs, NoServers DEF Wholes
<1> QED
  BY <1>2, <1>4, <1>5, <1>6, FixedConfigs

\* Without storing what it adapts: the lifetime is set so.
LEMMA LoadStored ==
  ASSUME NEW known, NEW d \in Nexts(known)
  PROVE  LET r == Load(d, FALSE)
         IN  /\ r.config \in Wholes /\ r.ok \in BOOLEAN
             /\ r.steps \in Seq(Nexts(known)) /\ r.steps # <<>>
             /\ r.ok => r.steps = <<d>>
             /\ \/ r.config \in {Zero, Default}
                \/ r.config = d.param /\ d.param.version = "v2"
<1> DEFINE r == Load(d, FALSE)
<1> HIDE DEF r
<1> SUFFICES /\ r.config \in Wholes /\ r.ok \in BOOLEAN
             /\ r.steps \in Seq(Nexts(known)) /\ r.steps # <<>>
             /\ r.ok => r.steps = <<d>>
             /\ \/ r.config \in {Zero, Default}
                \/ r.config = d.param /\ d.param.version = "v2"
  BY DEF r
<1>1. d \in Disks /\ Sound(d)
  BY DEF Nexts
<1>2. <<d>> \in Seq(Nexts(known)) /\ <<d>> # <<>>
  BY OneStep
<1>3. DeleteStored(d) \in Seq(Nexts(known)) /\ DeleteStored(d) # <<>>
  BY DeletedIn
<1>4. ASSUME NEW c, NEW ok, NEW steps, r = Loaded(c, ok, steps)
      PROVE  r.config = c /\ r.ok = ok /\ r.steps = steps
  BY <1>4, LoadedFields
<1>5. \/ r = Loaded(Zero, TRUE, <<d>>)
      \/ r = Loaded(Default, TRUE, <<d>>)
      \/ r = Loaded(Default, FALSE, <<d>>)
      \/ r = Loaded(Zero, FALSE, <<d>>)
      \/ r = Loaded(Default, FALSE, DeleteStored(d))
      \/ /\ d.param \in Wholes /\ d.param.version = "v2"
         /\ r = Loaded(d.param, TRUE, <<d>>)
  BY <1>1, LoadCases DEF r
<1>6. CASE r = Loaded(Zero, TRUE, <<d>>)
  <2>1. r.config = Zero /\ r.ok = TRUE /\ r.steps = <<d>>
    BY <1>4, <1>6
  <2> QED
    BY <2>1, <1>2, FixedConfigs
<1>7. CASE r = Loaded(Default, TRUE, <<d>>)
  <2>1. r.config = Default /\ r.ok = TRUE /\ r.steps = <<d>>
    BY <1>4, <1>7
  <2> QED
    BY <2>1, <1>2, FixedConfigs
<1>8. CASE r = Loaded(Default, FALSE, <<d>>)
  <2>1. r.config = Default /\ r.ok = FALSE /\ r.steps = <<d>>
    BY <1>4, <1>8
  <2> QED
    BY <2>1, <1>2, FixedConfigs
<1>9. CASE r = Loaded(Zero, FALSE, <<d>>)
  <2>1. r.config = Zero /\ r.ok = FALSE /\ r.steps = <<d>>
    BY <1>4, <1>9
  <2> QED
    BY <2>1, <1>2, FixedConfigs
<1>10. CASE r = Loaded(Default, FALSE, DeleteStored(d))
  <2>1. r.config = Default /\ r.ok = FALSE
        /\ r.steps = DeleteStored(d)
    BY <1>4, <1>10
  <2> QED
    BY <2>1, <1>3, FixedConfigs
<1>11. CASE /\ d.param \in Wholes /\ d.param.version = "v2"
            /\ r = Loaded(d.param, TRUE, <<d>>)
  <2>1. r.config = d.param /\ r.ok = TRUE
        /\ r.steps = <<d>>
    BY <1>4, <1>11
  <2> QED
    BY <2>1, <1>2, <1>11
<1> QED
  BY <1>5, <1>6, <1>7, <1>8, <1>9, <1>10, <1>11

\* At the start of the client.
LEMMA LoadAtStart ==
  ASSUME NEW d, d \in Nexts(ServerIds(d.param))
  PROVE  LET r == Load(d, TRUE)
         IN  /\ r.config \in Wholes /\ r.ok \in BOOLEAN
             /\ r.steps \in Seq(Nexts(ServerIds(d.param))) /\ r.steps # <<>>
             /\ r.ok => Last(r.steps).param = r.config /\ Last(r.steps).size = Length(r.config)
             /\ r.config \in {Zero, Default, [d.param EXCEPT !.version = "v2"]}
             /\ ~r.ok => r.config \in {Zero, Default}
<1> DEFINE known == ServerIds(d.param)
           X == Nexts(known)
<1>1. d \in Disks /\ Sound(d) /\ d \in X
  BY DEF Nexts
<1> DEFINE r == Load(d, TRUE)
<1> HIDE DEF r
<1> SUFFICES /\ r.config \in Wholes /\ r.ok \in BOOLEAN
             /\ r.steps \in Seq(X) /\ r.steps # <<>>
             /\ r.ok => Last(r.steps).param = r.config /\ Last(r.steps).size = Length(r.config)
             /\ r.config \in {Zero, Default, [d.param EXCEPT !.version = "v2"]}
             /\ ~r.ok => r.config \in {Zero, Default}
  BY DEF r
<1> HIDE DEF X, known
<1>2. <<d>> \in Seq(X) /\ <<d>> # <<>> /\ Last(<<d>>) = d
  BY <1>1, OneStep
<1>3. DeleteStored(d) \in Seq(X) /\ DeleteStored(d) # <<>>
  BY <1>1, DeletedIn DEF X
<1>4. ASSUME NEW c \in Wholes, ServerIds(c) \subseteq known,
             NEW steps \in Seq(X), steps # <<>>
      PROVE  /\ StoreConfig(steps, c) \in Seq(X) /\ StoreConfig(steps, c) # <<>>
             /\ Last(StoreConfig(steps, c)).param = c
             /\ Last(StoreConfig(steps, c)).size = Length(c)
  BY <1>4, StoreWholeIn DEF X
<1>5. ServerIds(Default) \subseteq known /\ Default \in Wholes /\ Zero \in Wholes
  BY FixedConfigs, NoServers DEF Wholes
<1>6. ASSUME NEW c, NEW ok, NEW steps, r = Loaded(c, ok, steps)
      PROVE  r.config = c /\ r.ok = ok /\ r.steps = steps
  BY <1>6, LoadedFields
<1>7. \/ /\ d.param.version = "v1"
         /\ r = Loaded(Adapted(d), TRUE, StoreConfig(<<d>>, Adapted(d)))
      \/ r = Loaded(Default, TRUE, StoreConfig(<<d>>, Default))
      \/ r = Loaded(Default, FALSE, StoreConfig(<<d>>, Default))
      \/ r = Loaded(Zero, FALSE, <<d>>)
      \/ r = Loaded(Default, FALSE, StoreConfig(DeleteStored(d), Default))
      \/ /\ d.param \in Wholes /\ d.param.version = "v2" /\ d.size = Length(d.param)
         /\ r = Loaded(d.param, TRUE, <<d>>)
  BY <1>1, LoadCases DEF r
<1>8. CASE /\ d.param.version = "v1"
           /\ r = Loaded(Adapted(d), TRUE, StoreConfig(<<d>>, Adapted(d)))
  <2>1. /\ r.config = Adapted(d) /\ r.ok = TRUE
        /\ r.steps = StoreConfig(<<d>>, Adapted(d))
    BY <1>6, <1>8
  <2>2. /\ Adapted(d) \in Wholes /\ ServerIds(Adapted(d)) \subseteq known
        /\ Adapted(d) \in {Zero, [d.param EXCEPT !.version = "v2"]}
    BY <1>1, <1>8, AdaptedWhole DEF known
  <2>3. /\ StoreConfig(<<d>>, Adapted(d)) \in Seq(X) /\ StoreConfig(<<d>>, Adapted(d)) # <<>>
        /\ Last(StoreConfig(<<d>>, Adapted(d))).param = Adapted(d)
        /\ Last(StoreConfig(<<d>>, Adapted(d))).size = Length(Adapted(d))
    BY <2>2, <1>2, <1>4
  <2> QED
    BY <2>1, <2>2, <2>3 DEF X, known
<1>9. CASE \/ r = Loaded(Default, TRUE, StoreConfig(<<d>>, Default))
           \/ r = Loaded(Default, FALSE, StoreConfig(<<d>>, Default))
  <2>1. /\ r.config = Default /\ r.ok \in BOOLEAN
        /\ r.steps = StoreConfig(<<d>>, Default)
    BY <1>6, <1>9
  <2>2. /\ StoreConfig(<<d>>, Default) \in Seq(X) /\ StoreConfig(<<d>>, Default) # <<>>
        /\ Last(StoreConfig(<<d>>, Default)).param = Default
        /\ Last(StoreConfig(<<d>>, Default)).size = Length(Default)
    BY <1>2, <1>4, <1>5
  <2> QED
    BY <2>1, <2>2, <1>5 DEF X, known
<1>10. CASE r = Loaded(Zero, FALSE, <<d>>)
  <2>1. /\ r.config = Zero /\ r.ok = FALSE
        /\ r.steps = <<d>>
    BY <1>6, <1>10
  <2> QED
    BY <2>1, <1>2, <1>5 DEF X, known
<1>11. CASE r = Loaded(Default, FALSE, StoreConfig(DeleteStored(d), Default))
  <2>1. /\ r.config = Default /\ r.ok = FALSE
        /\ r.steps = StoreConfig(DeleteStored(d), Default)
    BY <1>6, <1>11
  <2>2. /\ StoreConfig(DeleteStored(d), Default) \in Seq(X)
        /\ StoreConfig(DeleteStored(d), Default) # <<>>
    BY <1>3, <1>4, <1>5
  <2> QED
    BY <2>1, <2>2, <1>5 DEF X, known
<1>12. CASE /\ d.param \in Wholes /\ d.param.version = "v2" /\ d.size = Length(d.param)
            /\ r = Loaded(d.param, TRUE, <<d>>)
  <2>1. /\ r.config = d.param /\ r.ok = TRUE
        /\ r.steps = <<d>>
    BY <1>6, <1>12
  <2>2. [d.param EXCEPT !.version = "v2"] = d.param
    BY <1>12 DEF Wholes, Configs
  <2> QED
    BY <2>1, <2>2, <1>2, <1>12 DEF X, known
<1> QED
  BY <1>7, <1>8, <1>9, <1>10, <1>11, <1>12

----------------------------------------------------------------------------
(* The configuration in memory is the one in the storage, outside a         *)
(* bootstrap.                                                               *)

Agree(d, m) ==
  /\ m.session = "off" => m = NoMemory
  /\ m.config \in Wholes
  /\ m.session \in {"bootstrap", "dm"} => m.config.version = "v2"
  /\ m.session \in {"none", "dm"} /\ m.config.version = "v2" =>
       d.param = m.config /\ d.size = Length(m.config)
  /\ m.session = "dm" => m.config.srv # <<>>

StorageInv == TypeInv /\ Sound(disk) /\ Agree(disk, mem)

\* What a step of the storage keeps.
StepKeeps ==
  /\ disk' \in Disks /\ mem' \in Mems /\ Sound(disk') /\ Agree(disk', mem')
  /\ Keyed(ServerIds(disk.param), disk')

LEMMA NoMemoryType == NoMemory \in Mems /\ \A d : Agree(d, NoMemory)
<1>1. NoAcl \in Acls
  BY NoAclType
<1>2. [o \in Objects |-> {}] \in [Objects -> SUBSET Nat]
  OBVIOUS
<1> DEFINE nothing == [o \in Objects |-> {}]
<1> HIDE DEF nothing
<1>3. NoMemory = [config |-> Zero, acl |-> NoAcl, listed |-> nothing, session |-> "off"]
  BY DEF NoMemory, nothing
<1>4. Zero \in Configs /\ Zero \in Wholes
  BY FixedConfigs DEF Wholes
<1>5. NoMemory \in Mems /\ NoMemory.session = "off" /\ NoMemory.config = Zero
  BY <1>1, <1>2, <1>3, <1>4 DEF Mems, Sessions, nothing
<1>6. \A d : Agree(d, NoMemory)
  BY <1>4, <1>5 DEF Agree
<1> QED
  BY <1>5, <1>6

\* A handler that stores.
LEMMA StoringKeeps ==
  ASSUME TypeInv, NEW steps \in Seq(Nexts(ServerIds(disk.param))), steps # <<>>,
         NEW m \in Mems, Agree(Last(steps), m), Do(steps, m)
  PROVE  StepKeeps
<1> DEFINE X == Nexts(ServerIds(disk.param))
<1>1. Last(steps) \in X
  BY LastIn
<1>2. CASE disk' = Last(steps) /\ mem' = m
  BY <1>1, <1>2 DEF StepKeeps, Nexts
<1>3. CASE disk' \in X /\ mem' = NoMemory
  BY <1>3, NoMemoryType DEF StepKeeps, Nexts
<1> QED
  BY <1>2, <1>3, DoIn

\* One that does not.
LEMMA NotStoringKeeps ==
  ASSUME StorageInv, disk' = disk, mem' \in Mems, Agree(disk, mem')
  PROVE  StepKeeps
BY DEF StorageInv, TypeInv, StepKeeps, Keyed

LEMMA PresentIn ==
  ASSUME StorageInv
  PROVE  /\ disk \in Nexts(ServerIds(disk.param)) /\ disk \in Disks
         /\ <<disk>> \in Seq(Nexts(ServerIds(disk.param))) /\ <<disk>> # <<>>
         /\ Last(<<disk>>) = disk
<1>1. disk \in Nexts(ServerIds(disk.param)) /\ disk \in Disks
  BY DEF StorageInv, TypeInv, Nexts, Keyed
<1> QED
  BY <1>1, OneStep

\* A configuration whose servers are those of the storage, or none.
LEMMA StoringPresent ==
  ASSUME StorageInv, NEW c \in Wholes,
         c.version = "v2" => ServerIds(c) \subseteq ServerIds(disk.param) \cup {0}
  PROVE  LET r == StoreConfig(<<disk>>, c)
             X == Nexts(ServerIds(disk.param))
         IN  /\ r \in Seq(X) /\ r # <<>>
             /\ Last(r).param = c /\ Last(r).size = Length(c)
<1> DEFINE known == ServerIds(disk.param)
<1>1. c.version = "v2" => ServerIds(c) \ (known \cup {0}) \subseteq Last(<<disk>>).keys
  OBVIOUS
<1>2. <<disk>> \in Seq(Nexts(known)) /\ <<disk>> # <<>>
  BY PresentIn
<1> DEFINE steps == <<disk>>
<1> HIDE DEF known, steps
<1>3. LET r == StoreConfig(steps, c)
      IN  /\ r \in Seq(Nexts(known)) /\ r # <<>>
          /\ Last(r).param = c /\ Last(r).size = Length(c)
  <2>1. /\ c.version = "v2" => ServerIds(c) \ (known \cup {0}) \subseteq Last(steps).keys
        /\ steps \in Seq(Nexts(known)) /\ steps # <<>>
    BY <1>1, <1>2 DEF steps
  <2> QED
    BY <2>1, StoreWholeIn
<1> QED
  BY <1>3 DEF known, steps

LEMMA MemFields ==
  ASSUME NEW m \in Mems
  PROVE  /\ m.config \in Configs /\ m.acl \in Acls /\ m.listed \in [Objects -> SUBSET Nat]
         /\ m.session \in Sessions
         /\ \A c \in Configs : LET e == [m EXCEPT !.config = c]
                               IN  e \in Mems /\ e.config = c /\ e.acl = m.acl
                                   /\ e.listed = m.listed /\ e.session = m.session
         /\ \A a \in Acls : LET e == [m EXCEPT !.acl = a]
                            IN  e \in Mems /\ e.config = m.config /\ e.acl = a
                                /\ e.listed = m.listed /\ e.session = m.session
         /\ \A l \in [Objects -> SUBSET Nat] : LET e == [m EXCEPT !.listed = l]
                                               IN  e \in Mems /\ e.config = m.config
                                                   /\ e.acl = m.acl /\ e.listed = l
                                                   /\ e.session = m.session
         /\ \A s \in Sessions : LET e == [m EXCEPT !.session = s]
                                IN  e \in Mems /\ e.config = m.config /\ e.acl = m.acl
                                    /\ e.listed = m.listed /\ e.session = s
BY DEF Mems

LEMMA ListedAfterType ==
  ASSUME TypeInv, NEW object \in Objects, NEW id \in Nat, NEW good \in BOOLEAN
  PROVE  /\ Listing(object, id) \in SUBSET Nat
         /\ ListedAfter(object, id, good) \in [Objects -> SUBSET Nat]
<1>1. mem.listed \in [Objects -> SUBSET Nat]
  BY MemFields DEF TypeInv
<1>2. Listing(object, id) \in SUBSET Nat
  BY <1>1 DEF Listing
<1>3. \A s \in SUBSET Nat : [mem.listed EXCEPT ![object] = s] \in [Objects -> SUBSET Nat]
  BY <1>1
<1>4. Listing(object, id) \ {id} \in SUBSET Nat
  BY <1>2
<1> QED
  BY <1>2, <1>3, <1>4 DEF ListedAfter

LEMMA DeleteDmIn ==
  ASSUME NEW known, NEW steps \in Seq(Nexts(known)), steps # <<>>, NEW c \in Wholes,
         ServerIds(Last(steps).param) \subseteq known \/ ServerIds(c) = {}
  PROVE  LET r == DeleteDm(steps, c)
         IN  /\ r \in Seq(Nexts(known)) /\ r # <<>>
             /\ Last(r).param = WithoutDm(c) /\ Last(r).size = Length(WithoutDm(c))
<1> DEFINE d == Last(steps)
           e == [d EXCEPT !.keys = @ \ ServerIds(c)]
           less == Append(steps, e)
<1>1. d \in Disks /\ Sound(d) /\ Keyed(known, d)
  BY LastIn DEF Nexts
<1>2. ServerIds(d.param) \subseteq known \/ ServerIds(c) = {}
  OBVIOUS
<1> HIDE DEF d
<1>3. e \in Disks /\ e.param = d.param /\ e.size = d.size /\ e.keys = d.keys \ ServerIds(c)
  <2>1. PICK k : k = d.keys \ ServerIds(c)
    OBVIOUS
  <2>2. k \in SUBSET Nat
    <3>1. d.keys \in SUBSET Nat
      BY <1>1, DiskFields
    <3> QED
      BY <2>1, <3>1
  <2>3. e = [d EXCEPT !.keys = k]
    BY <2>1
  <2> QED
    BY <1>1, <2>1, <2>2, <2>3, KeysChanged
<1> HIDE DEF e
<1>4. e \in Nexts(known)
  BY <1>1, <1>2, <1>3 DEF Nexts, Sound, Keyed
<1>5. less \in Seq(Nexts(known)) /\ less # <<>> /\ Last(less) = e
  BY <1>4 DEF Last
<1>6. WithoutDm(c) \in Wholes /\ ServerIds(WithoutDm(c)) = {}
  BY WithoutDmWhole, NoServers DEF Wholes
<1> HIDE DEF less
<1>7. LET r == StoreConfig(less, WithoutDm(c))
      IN  /\ r \in Seq(Nexts(known)) /\ r # <<>>
          /\ Last(r).param = WithoutDm(c) /\ Last(r).size = Length(WithoutDm(c))
  BY <1>5, <1>6, StoreWholeIn
<1> QED
  BY <1>7 DEF DeleteDm, less, e, d

LEMMA ObjectRegisterKeeps ==
  ASSUME StorageInv, ObjectRegister
  PROVE  StepKeeps
<1> DEFINE known == ServerIds(disk.param)
           loaded == Load(disk, TRUE)
           config == IF loaded.ok THEN loaded.config ELSE WithoutDm(loaded.config)
           steps == IF loaded.ok THEN loaded.steps ELSE DeleteDm(loaded.steps, loaded.config)
           rights == LoadAcl(steps)
           listed == [security |-> FirstIds(config.nsec), server |-> FirstIds(config.nsrv),
                      acl |-> FirstIds(rights.acl.n)]
           m == [config |-> config, acl |-> rights.acl, session |-> "none", listed |-> listed]
<1>1. Do(rights.steps, m)
  BY DEF ObjectRegister
<1>2. /\ loaded.config \in Wholes /\ loaded.ok \in BOOLEAN
      /\ loaded.steps \in Seq(Nexts(known)) /\ loaded.steps # <<>>
      /\ loaded.ok =>
           Last(loaded.steps).param = loaded.config /\ Last(loaded.steps).size = Length(loaded.config)
      /\ ~loaded.ok => loaded.config \in {Zero, Default}
  BY PresentIn, LoadAtStart
<1> HIDE DEF loaded, known
<1>3. /\ config \in Wholes
      /\ steps \in Seq(Nexts(known)) /\ steps # <<>>
      /\ Last(steps).param = config /\ Last(steps).size = Length(config)
  <2>1. CASE loaded.ok
    BY <2>1, <1>2
  <2>2. CASE ~loaded.ok
    <3>1. ServerIds(loaded.config) = {}
      BY <1>2, <2>2, FixedConfigs, NoServers DEF Wholes
    <3>2. LET r == DeleteDm(loaded.steps, loaded.config)
          IN  /\ r \in Seq(Nexts(known)) /\ r # <<>>
              /\ Last(r).param = WithoutDm(loaded.config)
              /\ Last(r).size = Length(WithoutDm(loaded.config))
      BY <1>2, <3>1, DeleteDmIn
    <3> QED
      BY <2>2, <3>2, <1>2, WithoutDmWhole
  <2> QED
    BY <2>1, <2>2, <1>2
<1> HIDE DEF config, steps
<1>4. /\ rights.steps \in Seq(Nexts(known)) /\ rights.steps # <<>>
      /\ Last(rights.steps).param = config /\ Last(rights.steps).size = Length(config)
      /\ rights.acl \in Acls
  BY <1>3, LoadAclApart
<1> HIDE DEF rights
<1>5. \A n \in Nat : FirstIds(n) \in SUBSET Nat
  BY DEF FirstIds
<1>6. config \in Configs /\ config.nsec \in Nat /\ config.nsrv \in Nat /\ rights.acl.n \in Nat
  BY <1>3, <1>4, ConfigFields, AclFields DEF Wholes
<1>7. listed \in [Objects -> SUBSET Nat]
  BY <1>5, <1>6 DEF Objects
<1> HIDE DEF listed
<1>8. m \in Mems /\ m.session = "none" /\ m.config = config
  BY <1>4, <1>6, <1>7 DEF Mems, Sessions
<1> HIDE DEF m
<1>9. Agree(Last(rights.steps), m)
  BY <1>3, <1>4, <1>8 DEF Agree
<1> QED
  BY <1>1, <1>4, <1>8, <1>9, StoringKeeps DEF known, StorageInv

LEMMA EndKeeps ==
  ASSUME StorageInv, Free \/ PowerLoss
  PROVE  StepKeeps
<1>1. disk' = disk /\ mem' = NoMemory
  BY DEF Free, PowerLoss
<1> QED
  BY <1>1, NoMemoryType, NotStoringKeeps

\* A handler that changes the lists or the session only.
LEMMA SameConfigKeeps ==
  ASSUME StorageInv, On, disk' = disk, mem' \in Mems, mem'.config = mem.config,
         \/ mem'.session = mem.session
         \/ mem'.session = "bootstrap" /\ mem.config.version = "v2"
         \/ mem'.session = "none" /\ mem.session = "dm"
  PROVE  StepKeeps
<1>1. Agree(disk, mem')
  BY DEF StorageInv, Agree, On
<1> QED
  BY <1>1, NotStoringKeeps

LEMMA StartBootstrapKeeps ==
  ASSUME StorageInv, StartBootstrap
  PROVE  StepKeeps
<1>1. mem \in Mems /\ On
  BY DEF StorageInv, TypeInv, StartBootstrap, InSession, On
<1>2. mem.config.version = "v2"
  <2>1. mem.config.sec # <<>>
    BY DEF StartBootstrap
  <2> QED
    BY <2>1 DEF StorageInv, Agree, Wholes, Whole
<1>3. mem' = [mem EXCEPT !.session = "bootstrap"] /\ disk' = disk
  BY DEF StartBootstrap
<1>4. mem' \in Mems /\ mem'.config = mem.config /\ mem'.session = "bootstrap"
  BY <1>1, <1>3, MemFields DEF Sessions
<1> QED
  BY <1>1, <1>2, <1>3, <1>4, SameConfigKeeps

LEMMA EndSessionKeeps ==
  ASSUME StorageInv, EndSession
  PROVE  StepKeeps
<1>1. mem \in Mems /\ On /\ mem.session = "dm"
  BY DEF StorageInv, TypeInv, EndSession, InSession, On
<1>2. mem' = [mem EXCEPT !.session = "none"] /\ disk' = disk
  BY DEF EndSession
<1>3. mem' \in Mems /\ mem'.config = mem.config /\ mem'.session = "none"
  <2>1. mem \in Mems /\ "none" \in Sessions
    BY <1>1 DEF Sessions
  <2> QED
    BY <2>1, <1>2, MemFields
<1> QED
  BY <1>1, <1>2, <1>3, SameConfigKeeps

LEMMA ForgetKeeps ==
  ASSUME StorageInv, NEW id, DeleteSecurity(id) \/ DeleteServer(id)
  PROVE  StepKeeps
<1>1. mem \in Mems /\ On
  BY DEF StorageInv, TypeInv, DeleteSecurity, DeleteServer, InSession, On
<1>2. PICK o \in Objects : mem' = [mem EXCEPT !.listed[o] = @ \ {id}]
  BY DEF DeleteSecurity, DeleteServer, Objects
<1>3. disk' = disk
  BY DEF DeleteSecurity, DeleteServer
<1> DEFINE listed == [mem.listed EXCEPT ![o] = mem.listed[o] \ {id}]
<1>4. listed \in [Objects -> SUBSET Nat]
  BY <1>1, MemFields
<1>5. mem' = [mem EXCEPT !.listed = listed]
  BY <1>2
<1> HIDE DEF listed
<1>6. mem' \in Mems /\ mem'.config = mem.config /\ mem'.session = mem.session
  BY <1>1, <1>4, <1>5, MemFields
<1> QED
  BY <1>1, <1>3, <1>6, SameConfigKeeps

----------------------------------------------------------------------------
(* The bootstrap server.                                                    *)

NoSecondAccount == "secondAccount" \notin Deviations

LEMMA BootstrapConfigKeeps ==
  ASSUME StorageInv, InSession("bootstrap"), disk' = disk,
         NEW config \in Wholes, config.version = "v2",
         NEW listed \in [Objects -> SUBSET Nat],
         mem' = [mem EXCEPT !.listed = listed, !.config = config]
  PROVE  StepKeeps
<1>1. mem \in Mems /\ mem.session = "bootstrap"
  BY DEF StorageInv, TypeInv, InSession
<1>2. mem' \in Mems /\ mem'.config = config /\ mem'.session = "bootstrap"
  <2>1. config \in Configs
    BY DEF Wholes
  <2> QED
    BY <1>1, <2>1 DEF Mems
<1>3. Agree(disk, mem')
  BY <1>2 DEF Agree
<1> QED
  BY <1>2, <1>3, NotStoringKeeps

LEMMA InBootstrap ==
  ASSUME StorageInv, mem.session \in {"bootstrap", "dm"}
  PROVE  mem.config \in Wholes /\ mem.config.version = "v2"
BY DEF StorageInv, Agree

LEMMA OutcomeType == \A good \in Outcomes : good \in BOOLEAN
BY DEF Outcomes

LEMMA WriteSecurityKeeps ==
  ASSUME NoSecondAccount, StorageInv, NEW s \in DmServers, NEW boot \in BOOLEAN,
         NEW good \in Outcomes, WriteSecurity(s, boot, good)
  PROVE  StepKeeps
<1> DEFINE e == Security(s, boot, IF good THEN s ELSE 0)
           listed == ListedAfter("security", s, good)
           config == IF Written("security", s) THEN WithSecurity(mem.config, e) ELSE mem.config
<1>1. InSession("bootstrap") /\ ~boot /\ disk' = disk
  BY DEF WriteSecurity, NoSecondAccount
<1>2. mem' = [mem EXCEPT !.listed = listed, !.config = config]
  BY DEF WriteSecurity
<1>3. s \in Nat /\ s # 0 /\ good \in BOOLEAN
  BY ConstantTypes, OutcomeType
<1>4. e \in SecurityEntries
  BY <1>3, EntryTypes
<1>5. e.id = s /\ e.boot = boot
  BY DEF Security
<1>6. listed \in [Objects -> SUBSET Nat]
  BY <1>3, ListedAfterType DEF StorageInv, Objects
<1>7. mem.config \in Wholes /\ mem.config.version = "v2"
  BY <1>1, InBootstrap DEF InSession
<1> HIDE DEF e, listed
<1>8. config \in Wholes /\ config.version = "v2"
  BY <1>1, <1>3, <1>4, <1>5, <1>7, WithSecurityWhole
<1> HIDE DEF config
<1> QED
  BY <1>1, <1>2, <1>6, <1>8, BootstrapConfigKeeps

LEMMA WriteServerKeeps ==
  ASSUME StorageInv, NEW s \in DmServers, NEW life \in Bootstrapped,
         NEW good \in Outcomes, WriteServer(s, life, good)
  PROVE  StepKeeps
<1> DEFINE e == Server(s - 1, IF good THEN s ELSE 0, life)
           listed == ListedAfter("server", s - 1, good)
           config == IF Written("server", s - 1) THEN WithServer(mem.config, e) ELSE mem.config
<1>1. InSession("bootstrap") /\ disk' = disk
  BY DEF WriteServer
<1>2. mem' = [mem EXCEPT !.listed = listed, !.config = config]
  BY DEF WriteServer
<1>3. s \in Nat /\ s - 1 \in Nat /\ good \in BOOLEAN /\ life \in Nat
  BY ConstantTypes, OutcomeType
<1>4. e \in ServerEntries
  BY <1>3, EntryTypes
<1>5. listed \in [Objects -> SUBSET Nat]
  BY <1>3, ListedAfterType DEF StorageInv, Objects
<1>6. mem.config \in Wholes /\ mem.config.version = "v2"
  BY <1>1, InBootstrap DEF InSession
<1> HIDE DEF e, listed
<1>7. config \in Wholes /\ config.version = "v2"
  BY <1>4, <1>6, WithServerWhole
<1> HIDE DEF config
<1> QED
  BY <1>1, <1>2, <1>5, <1>7, BootstrapConfigKeeps

LEMMA BootstrapDoneKeeps ==
  ASSUME StorageInv, BootstrapDone
  PROVE  StepKeeps
<1> DEFINE servers == {mem.config.sec[i].server : i \in {j \in DOMAIN mem.config.sec :
                                                           ~mem.config.sec[j].boot}}
           keyed == [disk EXCEPT !.keys = @ \cup servers]
           known == ServerIds(disk.param)
           config == mem.config
           start == <<disk, keyed>>
           stored == StoreConfig(start, config)
           steps == StoreAcl(stored, mem.acl)
           m == [mem EXCEPT !.session = "none"]
<1>1. InSession("bootstrap") /\ servers = ServerIds(config) /\ Do(steps, m)
  BY DEF BootstrapDone
<1>2. config \in Wholes /\ config.version = "v2" /\ config \in Configs
  BY <1>1, InBootstrap DEF InSession, Wholes
<1>3. servers \in SUBSET Nat
  <2>1. \A i \in DOMAIN config.srv : config.srv[i] \in ServerEntries
    BY <1>2, ConfigFields
  <2>2. ServerIds(config) \in SUBSET Nat
    BY <2>1 DEF ServerIds, ServerEntries
  <2> QED
    BY <1>1, <2>2
<1> HIDE DEF servers
<1>4. /\ disk \in Disks /\ keyed \in Disks /\ keyed.param = disk.param
      /\ keyed.size = disk.size /\ keyed.keys = disk.keys \cup servers
  BY <1>3, PresentIn, DiskFields
<1> HIDE DEF keyed
<1>5. disk \in Nexts(known) /\ keyed \in Nexts(known)
  BY <1>4, PresentIn DEF Nexts, Sound, Keyed
<1> HIDE DEF known
<1>6. start \in Seq(Nexts(known)) /\ start # <<>> /\ Last(start) = keyed
  BY <1>5, TwoSteps
<1> HIDE DEF start, config
<1>7. /\ stored \in Seq(Nexts(known)) /\ stored # <<>>
      /\ Last(stored).param = config /\ Last(stored).size = Length(config)
  <2>1. config.version = "v2" => ServerIds(config) \ (known \cup {0}) \subseteq Last(start).keys
    BY <1>1, <1>4, <1>6
  <2> QED
    BY <2>1, <1>2, <1>6, StoreWholeIn
<1> HIDE DEF stored
<1>8. mem \in Mems /\ mem.acl \in Acls
  BY MemFields DEF StorageInv, TypeInv
<1>9. /\ steps \in Seq(Nexts(known)) /\ steps # <<>>
      /\ Last(steps).param = config /\ Last(steps).size = Length(config)
  BY <1>7, <1>8, StoreAclApart
<1> HIDE DEF steps
<1>10. m \in Mems /\ m.config = config /\ m.session = "none"
  <2>1. "none" \in Sessions
    BY DEF Sessions
  <2> QED
    BY <2>1, <1>8, MemFields DEF config
<1> HIDE DEF m
<1>11. Agree(Last(steps), m)
  BY <1>2, <1>9, <1>10 DEF Agree
<1> QED
  BY <1>1, <1>9, <1>10, <1>11, StoringKeeps DEF known, StorageInv

----------------------------------------------------------------------------
(* The handlers that store what they change.                                *)

\* Every server has this lifetime.
AllLive(c, life) == c.srv # <<>> /\ \A i \in DOMAIN c.srv : c.srv[i].life = life

LEMMA EditedServers ==
  ASSUME NEW c \in Wholes, NEW srv \in [1..Len(c.srv) -> ServerEntries],
         \A i \in 1..Len(c.srv) : srv[i].id = c.srv[i].id /\ srv[i].server = c.srv[i].server
  PROVE  LET e == [c EXCEPT !.srv = srv]
         IN  /\ e \in Wholes /\ e.version = c.version /\ e.sec = c.sec /\ e.srv = srv
             /\ ServerIds(e) = ServerIds(c) /\ IdsOf(e.srv) = IdsOf(c.srv)
             /\ Len(e.srv) = Len(c.srv) /\ Length(e) = Length(c)
             /\ c.srv # <<>> => e.srv # <<>>
<1>1. c \in Configs /\ Len(c.srv) \in Nat /\ DOMAIN c.srv = 1..Len(c.srv)
      /\ c.srv \in Seq(ServerEntries)
  BY ConfigFields DEF Wholes
<1>2. ASSUME NEW n \in Nat, NEW f \in [1..n -> ServerEntries]
      PROVE  f \in Seq(ServerEntries) /\ Len(f) = n /\ DOMAIN f = 1..n
  OBVIOUS
<1>3. srv \in Seq(ServerEntries) /\ Len(srv) = Len(c.srv) /\ DOMAIN srv = 1..Len(c.srv)
  BY <1>1, <1>2
<1> DEFINE e == [c EXCEPT !.srv = srv]
<1>4. e \in Wholes
  BY <1>3, EditedWhole
<1>5. /\ e.version = c.version /\ e.sec = c.sec /\ e.srv = srv
      /\ e.nsec = c.nsec /\ e.nsrv = c.nsrv
  <2>1. e.version = c.version /\ e.sec = c.sec
    BY <1>1 DEF Configs
  <2>2. e.nsec = c.nsec /\ e.nsrv = c.nsrv
    BY <1>1 DEF Configs
  <2>3. e.srv = srv
    BY <1>1 DEF Configs
  <2> QED
    BY <2>1, <2>2, <2>3
<1> HIDE DEF e
<1>6. ServerIds(e) = ServerIds(c) /\ IdsOf(e.srv) = IdsOf(c.srv)
  <2>1. DOMAIN c.srv = 1..Len(c.srv)
    BY <1>1
  <2>2. ServerIds(e) = ServerIds(c)
    BY <1>3, <1>5, <2>1 DEF ServerIds
  <2>3. IdsOf(e.srv) = IdsOf(c.srv)
    BY <1>3, <1>5, <2>1 DEF IdsOf
  <2> QED
    BY <2>2, <2>3
<1>8. Length(e) = Length(c)
  BY <1>5 DEF Length
<1>7. c.srv # <<>> => e.srv # <<>>
  <2>1. c.srv # <<>> => Len(c.srv) # 0
    BY <1>1
  <2>2. srv = <<>> => Len(srv) = 0
    OBVIOUS
  <2> QED
    BY <2>1, <2>2, <1>3, <1>5
<1> QED
  BY <1>3, <1>4, <1>5, <1>6, <1>7, <1>8 DEF e

LEMMA StoringMemKeeps ==
  ASSUME StorageInv, NEW c \in Wholes, c.version = "v2",
         ServerIds(c) \subseteq ServerIds(disk.param) \cup {0},
         NEW m \in Mems, m.config = c, m.session \in {"none", "dm"},
         m.session = "dm" => c.srv # <<>>,
         Do(StoreConfig(<<disk>>, c), m)
  PROVE  StepKeeps
<1> DEFINE steps == StoreConfig(<<disk>>, c)
<1>1. /\ steps \in Seq(Nexts(ServerIds(disk.param))) /\ steps # <<>>
      /\ Last(steps).param = c /\ Last(steps).size = Length(c)
  BY StoringPresent
<1>2. Do(steps, m)
  OBVIOUS
<1> HIDE DEF steps
<1>3. Agree(Last(steps), m)
  BY <1>1 DEF Agree
<1> QED
  BY <1>1, <1>2, <1>3, StoringKeeps DEF StorageInv

\* What is stored is what is in memory.
LEMMA PresentConfig ==
  ASSUME StorageInv, mem.session \in {"none", "dm"}, mem.config.version = "v2"
  PROVE  /\ mem.config \in Wholes /\ mem \in Mems
         /\ disk.param = mem.config /\ disk.size = Length(mem.config)
         /\ mem.session = "dm" => mem.config.srv # <<>>
BY DEF StorageInv, Agree, TypeInv

\* The registration IDs of some servers change, in memory and in the storage.
RegistrationStored(c, m) ==
  /\ c \in Wholes /\ c.version = "v2" /\ mem.config.version = "v2"
  /\ c.sec = mem.config.sec /\ c.srv # <<>>
  /\ disk.param = mem.config /\ disk.size = Length(c)
  /\ ServerIds(c) = ServerIds(mem.config) /\ IdsOf(c.srv) = IdsOf(mem.config.srv)
  /\ \A life \in Nat : AllLive(mem.config, life) => AllLive(c, life)
  /\ m \in Mems /\ m.config = c /\ m.acl = mem.acl /\ m.listed = mem.listed
  /\ m.session = "dm"
  /\ Do(StoreConfig(<<disk>>, c), m)

LEMMA Registering ==
  ASSUME StorageInv, mem.session \in {"none", "dm"}, mem.config.version = "v2",
         mem.config.srv # <<>>,
         NEW srv \in [1..Len(mem.config.srv) -> ServerEntries],
         \A i \in 1..Len(mem.config.srv) : /\ srv[i].id = mem.config.srv[i].id
                                           /\ srv[i].server = mem.config.srv[i].server
                                           /\ srv[i].life = mem.config.srv[i].life,
         NEW m, m = [mem EXCEPT !.config = [mem.config EXCEPT !.srv = srv], !.session = "dm"],
         Do(StoreConfig(<<disk>>, [mem.config EXCEPT !.srv = srv]), m)
  PROVE  RegistrationStored([mem.config EXCEPT !.srv = srv], m)
<1> DEFINE c == mem.config
           config == [c EXCEPT !.srv = srv]
<1>1. /\ m = [mem EXCEPT !.config = config, !.session = "dm"]
      /\ Do(StoreConfig(<<disk>>, config), m)
  OBVIOUS
<1>2. c \in Wholes /\ mem \in Mems /\ disk.param = c /\ disk.size = Length(c) /\ c.srv # <<>>
      /\ c.version = "v2"
  BY PresentConfig
<1>3. \A i \in 1..Len(c.srv) : /\ srv[i].id = c.srv[i].id /\ srv[i].server = c.srv[i].server
                               /\ srv[i].life = c.srv[i].life
  OBVIOUS
<1>4. Len(c.srv) \in Nat /\ DOMAIN c.srv = 1..Len(c.srv)
  BY <1>2, ConfigFields DEF Wholes
<1>5. srv \in [1..Len(c.srv) -> ServerEntries]
  OBVIOUS
<1> HIDE DEF c
<1>6. /\ config \in Wholes /\ config.version = "v2" /\ config.sec = c.sec /\ config.srv = srv
      /\ config.srv # <<>> /\ Length(config) = Length(c)
      /\ ServerIds(config) = ServerIds(c) /\ IdsOf(config.srv) = IdsOf(c.srv)
  BY <1>2, <1>3, <1>5, EditedServers
<1>7. \A life \in Nat : AllLive(c, life) => AllLive(config, life)
  BY <1>3, <1>4, <1>5, <1>6 DEF AllLive
<1> HIDE DEF config
<1>8. /\ m \in Mems /\ m.config = config /\ m.session = "dm" /\ m.acl = mem.acl
      /\ m.listed = mem.listed
  <2>1. config \in Configs
    BY <1>6 DEF Wholes
  <2> QED
    BY <1>1, <1>2, <2>1 DEF Mems, Sessions
<1>9. RegistrationStored(config, m)
  BY <1>1, <1>2, <1>6, <1>7, <1>8 DEF RegistrationStored, c
<1> QED
  BY <1>9 DEF config, c

LEMMA RegisterStores ==
  ASSUME StorageInv, NEW i, Register(i)
  PROVE  \E c, m : RegistrationStored(c, m)
<1> DEFINE c == mem.config
           entry == [c.srv[i] EXCEPT !.reg = TRUE]
           srv == [c.srv EXCEPT ![i] = entry]
           m == [mem EXCEPT !.config = [c EXCEPT !.srv = srv], !.session = "dm"]
<1>1. /\ mem.session = "none" /\ KnowsDm /\ i \in DOMAIN c.srv
      /\ Do(StoreConfig(<<disk>>, [c EXCEPT !.srv = srv]), m)
  BY DEF Register, InSession
<1>2. c.version = "v2"
  <2>1. c.sec # <<>>
    BY <1>1 DEF KnowsDm
  <2> QED
    BY <2>1 DEF StorageInv, Agree, Wholes, Whole
<1>3. Len(c.srv) \in Nat /\ DOMAIN c.srv = 1..Len(c.srv) /\ c.srv \in Seq(ServerEntries)
  BY <1>1, <1>2, PresentConfig, ConfigFields DEF Wholes
<1>4. c.srv # <<>>
  BY <1>1
<1>5. m = [mem EXCEPT !.config = [c EXCEPT !.srv = srv], !.session = "dm"]
  OBVIOUS
<1> HIDE DEF c
<1>6. /\ entry \in ServerEntries /\ entry.id = c.srv[i].id /\ entry.server = c.srv[i].server
      /\ entry.life = c.srv[i].life
  <2>1. c.srv[i] \in ServerEntries
    BY <1>1, <1>3
  <2> QED
    BY <2>1 DEF ServerEntries
<1> HIDE DEF entry
<1>7. srv \in [1..Len(c.srv) -> ServerEntries]
  BY <1>1, <1>3, <1>6
<1>8. \A k \in 1..Len(c.srv) : /\ srv[k].id = c.srv[k].id /\ srv[k].server = c.srv[k].server
                               /\ srv[k].life = c.srv[k].life
  BY <1>1, <1>3, <1>6
<1> HIDE DEF srv, m
<1> QED
  BY <1>1, <1>2, <1>4, <1>5, <1>7, <1>8, Registering DEF c

LEMMA DeleteRegistrationIDStores ==
  ASSUME StorageInv, DeleteRegistrationID
  PROVE  \E c, m : RegistrationStored(c, m)
<1> DEFINE c == mem.config
           srv == [i \in DOMAIN c.srv |-> [c.srv[i] EXCEPT !.reg = FALSE]]
           config == [c EXCEPT !.srv = srv]
           m == [mem EXCEPT !.config = config]
<1>1. /\ mem.session = "dm" /\ c.srv # <<>>
      /\ Do(StoreConfig(<<disk>>, config), m)
  BY DEF DeleteRegistrationID, InSession
<1>2. c.version = "v2" /\ mem \in Mems
  BY <1>1, InBootstrap DEF StorageInv, TypeInv
<1>3. Len(c.srv) \in Nat /\ DOMAIN c.srv = 1..Len(c.srv) /\ c.srv \in Seq(ServerEntries)
  BY <1>1, <1>2, PresentConfig, ConfigFields DEF Wholes
<1> HIDE DEF c
<1>4. m = [mem EXCEPT !.config = config, !.session = "dm"]
  BY <1>1, <1>2 DEF Mems
<1>5. \A i \in 1..Len(c.srv) :
        LET entry == [c.srv[i] EXCEPT !.reg = FALSE]
        IN  /\ entry \in ServerEntries /\ entry.id = c.srv[i].id
            /\ entry.server = c.srv[i].server /\ entry.life = c.srv[i].life
  <2> TAKE i \in 1..Len(c.srv)
  <2>1. c.srv[i] \in ServerEntries
    BY <1>3
  <2> QED
    BY <2>1 DEF ServerEntries
<1>6. srv \in [1..Len(c.srv) -> ServerEntries]
  BY <1>3, <1>5
<1>7. \A k \in 1..Len(c.srv) : /\ srv[k].id = c.srv[k].id /\ srv[k].server = c.srv[k].server
                               /\ srv[k].life = c.srv[k].life
  BY <1>3, <1>5
<1> HIDE DEF srv, m
<1> QED
  BY <1>1, <1>2, <1>4, <1>6, <1>7, Registering DEF c

LEMMA RegistrationKeeps ==
  ASSUME StorageInv, \E c, m : RegistrationStored(c, m)
  PROVE  StepKeeps
BY StoringMemKeeps DEF RegistrationStored

LEMMA DeleteDmCredentialsKeeps ==
  ASSUME StorageInv, DeleteDmCredentials
  PROVE  StepKeeps
<1> DEFINE known == ServerIds(disk.param)
           start == <<disk>>
           c == mem.config
           steps == DeleteDm(start, c)
           config == WithoutDm(c)
           listed == [mem.listed EXCEPT !["server"] = {}, !["security"] = @ \ DmInstances(c)]
           m == [mem EXCEPT !.config = config, !.session = "none", !.listed = listed]
<1>2. mem \in Mems /\ c \in Wholes /\ disk \in Disks
  BY DEF StorageInv, TypeInv, Agree
<1>1. mem.session \in {"none", "dm"} /\ Do(steps, m)
  BY DEF DeleteDmCredentials
<1>3. start \in Seq(Nexts(known)) /\ start # <<>> /\ Last(start) = disk
  BY PresentIn
<1>4. config \in Wholes /\ config.version = c.version
  BY <1>2, WithoutDmWhole
<1>5. listed \in [Objects -> SUBSET Nat]
  BY <1>2, MemFields DEF Objects
<1>6. m \in Mems /\ m.config = config /\ m.session = "none"
  BY <1>2, <1>4, <1>5 DEF Mems, Sessions, Wholes
<1> HIDE DEF start, c, config, listed, m
<1>7. ServerIds(Last(start).param) \subseteq known
  BY <1>3 DEF known
<1> HIDE DEF known
<1>8. /\ steps \in Seq(Nexts(known)) /\ steps # <<>>
      /\ Last(steps).param = config /\ Last(steps).size = Length(config)
  BY <1>2, <1>3, <1>7, DeleteDmIn DEF config
<1> HIDE DEF steps
<1>9. Agree(Last(steps), m)
  BY <1>4, <1>6, <1>8 DEF Agree
<1> QED
  BY <1>1, <1>6, <1>8, <1>9, StoringKeeps DEF known, StorageInv

----------------------------------------------------------------------------
(* The lifetime.                                                            *)

LEMMA LoadV2 ==
  ASSUME NEW d \in Disks, Sound(d), d.param.version = "v2", d.size = Length(d.param),
         NEW storage \in BOOLEAN
  PROVE  /\ Load(d, storage).config = d.param /\ Load(d, storage).ok = TRUE
         /\ Load(d, storage).steps = <<d>>
<1> DEFINE r == Load(d, storage)
<1>1. d.param \in Wholes
  BY FixedConfigs DEF Sound
<1>2. Length(d.param) \in Nat /\ NoSize \notin Nat
  BY <1>1, LengthType DEF Wholes, NoSize
<1>3. Load(d, storage) =
        Loaded([d.param EXCEPT !.sec = Distinct(@), !.srv = Distinct(@)], TRUE, <<d>>)
  BY <1>1, <1>2 DEF Load, Loaded
<1>4. r = Loaded(d.param, TRUE, <<d>>)
  BY <1>1, <1>3, DistinctWhole
<1> HIDE DEF r
<1>5. r.config = d.param /\ r.ok = TRUE /\ r.steps = <<d>>
  BY <1>4 DEF Loaded
<1> QED
  BY <1>5 DEF r

LEMMA LoadWhole ==
  ASSUME StorageInv, mem.session \in {"none", "dm"}, mem.config.version = "v2"
  PROVE  /\ Load(disk, FALSE).config = mem.config /\ Load(disk, FALSE).ok = TRUE
         /\ Load(disk, FALSE).steps = <<disk>>
BY PresentConfig, LoadV2 DEF StorageInv, TypeInv

LEMMA WithLifetimeLive ==
  ASSUME NEW c \in Wholes, NEW life \in Nat, c.srv # <<>>
  PROVE  AllLive(WithLifetime(c, life), life)
BY WithLifetimeWhole DEF AllLive

\* The server instance that is written after the lifetime of all servers.
Written1(base, id, life) ==
  IF Has(base.srv, id)
  THEN [base EXCEPT !.srv[Find(base.srv, id)].life = life]
  ELSE WithServer(base, Server(id, 0, life))

LEMMA Written1Whole ==
  ASSUME NEW c \in Wholes, NEW id \in Nat, NEW life \in Nat
  PROVE  /\ Written1(c, id, life) \in Wholes
         /\ Written1(c, id, life).version = c.version /\ Written1(c, id, life).sec = c.sec
         /\ Written1(c, id, life).srv # <<>>
         /\ ServerIds(Written1(c, id, life)) \subseteq ServerIds(c) \cup {0}
         /\ AllLive(c, life) => AllLive(Written1(c, id, life), life)
<1>1. c \in Configs /\ Len(c.srv) \in Nat /\ DOMAIN c.srv = 1..Len(c.srv)
      /\ c.srv \in Seq(ServerEntries) /\ c.nsrv \in Nat
  BY ConfigFields DEF Wholes
<1>2. CASE Has(c.srv, id)
  <2> DEFINE k == Find(c.srv, id)
             entry == [c.srv[k] EXCEPT !.life = life]
             srv == [c.srv EXCEPT ![k] = entry]
             w == [c EXCEPT !.srv = srv]
  <2>1. Written1(c, id, life) = w
    BY <1>2 DEF Written1
  <2>2. k \in DOMAIN c.srv
    BY <1>2 DEF Has, Find
  <2> HIDE DEF k
  <2>3. entry \in ServerEntries /\ entry.id = c.srv[k].id /\ entry.server = c.srv[k].server
        /\ entry.life = life
    <3>1. c.srv[k] \in ServerEntries
      BY <1>1, <2>2
    <3> QED
      BY <3>1 DEF ServerEntries
  <2> HIDE DEF entry
  <2>4. srv \in [1..Len(c.srv) -> ServerEntries]
    BY <1>1, <2>2, <2>3
  <2>5. \A i \in 1..Len(c.srv) : srv[i].id = c.srv[i].id /\ srv[i].server = c.srv[i].server
    BY <1>1, <2>2, <2>3
  <2>6. (\A i \in DOMAIN c.srv : c.srv[i].life = life) => \A i \in DOMAIN srv : srv[i].life = life
    BY <1>1, <2>2, <2>3
  <2> HIDE DEF srv
  <2>7. /\ w \in Wholes /\ w.version = c.version /\ w.sec = c.sec /\ w.srv = srv
        /\ ServerIds(w) = ServerIds(c) /\ (c.srv # <<>> => w.srv # <<>>)
    BY <2>4, <2>5, EditedServers
  <2>8. c.srv # <<>>
    BY <2>2
  <2> HIDE DEF w
  <2> QED
    BY <2>1, <2>6, <2>7, <2>8 DEF AllLive
<1>3. CASE ~Has(c.srv, id)
  <2> DEFINE e == Server(id, 0, life)
             w == WithServer(c, e)
  <2>1. e \in ServerEntries /\ e.id = id /\ e.server = 0 /\ e.life = life
    BY EntryTypes DEF Server
  <2> HIDE DEF e
  <2>2. /\ w \in Wholes /\ w.version = c.version /\ w.sec = c.sec /\ w.srv # <<>>
        /\ ServerIds(w) \subseteq ServerIds(c) \cup {e.server}
    BY <2>1, WithServerWhole
  <2>3. w.srv = Append(c.srv, e)
    <3> DEFINE more == Append(c.srv, e)
    <3>1. w = [c EXCEPT !.srv = more, !.nsrv = c.nsrv + 1]
      BY <1>3, <2>1 DEF WithServer
    <3> HIDE DEF more, w
    <3>2. w.srv = more
      BY <1>1, <3>1 DEF Configs
    <3> QED
      BY <3>2 DEF more
  <2>4. Written1(c, id, life) = w
    BY <1>3 DEF Written1, e
  <2> HIDE DEF w
  <2>5. AllLive(c, life) => AllLive(w, life)
    <3>1. \A i \in 1..(Len(c.srv) + 1) : i \in 1..Len(c.srv) \/ i = Len(c.srv) + 1
      BY <1>1
    <3> QED
      BY <1>1, <2>1, <2>2, <2>3, <3>1, AppendFields DEF AllLive
  <2> QED
    BY <2>1, <2>2, <2>4, <2>5
<1> QED
  BY <1>2, <1>3

\* What the lifetime is set on, and what is left of it.
LEMMA LifetimeLoaded ==
  ASSUME StorageInv, NEW life \in Nat
  PROVE  LET r == Load(disk, FALSE)
         IN  /\ r.ok \in BOOLEAN
             /\ r.config \in Wholes /\ WithLifetime(r.config, life) \in Wholes
             /\ ServerIds(WithLifetime(r.config, life)) \subseteq ServerIds(disk.param) \cup {0}
             /\ r.ok => r.steps = <<disk>>
             /\ r.steps \in Seq(Nexts(ServerIds(disk.param))) /\ r.steps # <<>>
<1> DEFINE r == Load(disk, FALSE)
           known == ServerIds(disk.param)
<1>1. /\ r.config \in Wholes /\ r.ok \in BOOLEAN
      /\ r.steps \in Seq(Nexts(known)) /\ r.steps # <<>>
      /\ r.ok => r.steps = <<disk>>
      /\ \/ r.config \in {Zero, Default}
         \/ r.config = disk.param /\ disk.param.version = "v2"
  BY PresentIn, LoadStored
<1> HIDE DEF r
<1>2. ServerIds(r.config) \subseteq known
  <2>1. r.config \in {Zero, Default} => ServerIds(r.config) = {}
    BY FixedConfigs, NoServers DEF Wholes
  <2> QED
    BY <1>1, <2>1
<1>3. /\ WithLifetime(r.config, life) \in Wholes
      /\ ServerIds(WithLifetime(r.config, life)) \subseteq ServerIds(r.config) \cup {0}
  BY <1>1, WithLifetimeWhole
<1> QED
  BY <1>1, <1>2, <1>3 DEF r

LEMMA SetLifetimeKeeps ==
  ASSUME StorageInv, NEW life \in Nat, SetLifetime(life)
  PROVE  StepKeeps
<1> DEFINE r == Load(disk, FALSE)
           known == ServerIds(disk.param)
           stored == WithLifetime(r.config, life)
           present == WithLifetime(mem.config, life)
           m == IF On THEN [mem EXCEPT !.config = present] ELSE mem
           steps == StoreConfig(r.steps, stored)
<1>1. IF r.ok THEN Do(steps, m) ELSE Do(r.steps, mem)
  BY DEF SetLifetime
<1>2. /\ r.ok \in BOOLEAN /\ r.config \in Wholes /\ stored \in Wholes
      /\ ServerIds(stored) \subseteq known \cup {0}
      /\ r.ok => r.steps = <<disk>>
      /\ r.steps \in Seq(Nexts(known)) /\ r.steps # <<>>
  BY LifetimeLoaded
<1>3. mem.session \in {"none", "dm"} /\ mem.config.version = "v2" =>
        r.config = mem.config /\ r.ok = TRUE
  BY LoadWhole
<1>4. mem \in Mems /\ mem.config \in Wholes /\ mem.session \in Sessions /\ Agree(disk, mem)
      /\ TypeInv
  BY MemFields DEF StorageInv, TypeInv, Agree
<1> HIDE DEF r
<1>5. CASE ~r.ok
  <2>1. Do(r.steps, mem)
    BY <1>1, <1>5
  <2>2. ~(mem.session \in {"none", "dm"} /\ mem.config.version = "v2")
    BY <1>3, <1>5
  <2> DEFINE last == Last(r.steps)
  <2> HIDE DEF last
  <2>3. Agree(last, mem)
    BY <1>4, <2>2 DEF Agree
  <2> QED
    BY <1>2, <1>4, <2>1, <2>3, StoringKeeps DEF last, known
<1>6. CASE r.ok
  <2> HIDE DEF stored
  <2>1. /\ steps \in Seq(Nexts(known)) /\ steps # <<>>
        /\ Last(steps).param = stored /\ Last(steps).size = Length(stored)
    <3>1. steps = StoreConfig(<<disk>>, stored)
      BY <1>2, <1>6
    <3> HIDE DEF steps
    <3> QED
      BY <1>2, <3>1, StoringPresent
  <2>2. Do(steps, m)
    BY <1>1, <1>6 DEF stored
  <2> HIDE DEF steps
  <2>3. CASE ~On
    <3>1. mem = NoMemory /\ m = mem
      BY <1>4, <2>3 DEF On, Agree
    <3> DEFINE last == Last(steps)
    <3> HIDE DEF last, m
    <3>2. Agree(last, m) /\ m \in Mems
      BY <3>1, NoMemoryType
    <3> QED
      BY <1>4, <2>1, <2>2, <3>2, StoringKeeps DEF last, known
  <2>4. CASE On
    <3>1. present \in Wholes /\ present.version = mem.config.version /\ present.srv # <<>>
      BY <1>4, WithLifetimeWhole
    <3>2. mem.session \in {"none", "dm"} /\ mem.config.version = "v2" => present = stored
      BY <1>3 DEF stored
    <3> HIDE DEF present
    <3>3. m \in Mems /\ m.config = present /\ m.session = mem.session
      <4>1. present \in Configs
        BY <3>1 DEF Wholes
      <4> QED
        BY <2>4, <4>1, <1>4, MemFields
    <3> HIDE DEF m
    <3>4. Agree(Last(steps), m)
      BY <1>4, <2>1, <2>4, <3>1, <3>2, <3>3 DEF Agree, On
    <3> QED
      BY <1>4, <2>1, <2>2, <3>3, <3>4, StoringKeeps DEF known
  <2> QED
    BY <2>3, <2>4
<1> QED
  BY <1>2, <1>5, <1>6

LEMMA WriteLifetimeKeeps ==
  ASSUME StorageInv, NEW id \in Nat, NEW life \in Nat, WriteLifetime(id, life)
  PROVE  StepKeeps
<1> DEFINE r == Load(disk, FALSE)
           known == ServerIds(disk.param)
           changed == LifetimeStored # life
           c == mem.config
           start == <<disk>>
           live == WithLifetime(c, life)
           steps == IF changed THEN StoreConfig(start, live) ELSE start
           base == IF changed THEN live ELSE c
           config == Written1(base, id, life)
           m == [mem EXCEPT !.config = config]
           all == StoreConfig(steps, config)
<1>1. mem.session = "dm" /\ c.version = "v2"
  BY InBootstrap DEF WriteLifetime, InSession
<1>2. r.config = c /\ r.steps = start
  BY <1>1, LoadWhole
<1>3. Do(all, m)
  BY <1>2 DEF WriteLifetime, Written1
<1>4. c \in Wholes /\ disk.param = c /\ mem \in Mems /\ c.srv # <<>>
  BY <1>1, PresentConfig
<1> HIDE DEF r, changed, c
<1>5. /\ live \in Wholes /\ live.version = "v2" /\ live.srv # <<>>
      /\ ServerIds(live) \subseteq known \cup {0}
  BY <1>1, <1>4, WithLifetimeWhole
<1> HIDE DEF live
<1>6. /\ base \in Wholes /\ base.version = "v2" /\ base.srv # <<>>
      /\ ServerIds(base) \subseteq known \cup {0}
  BY <1>1, <1>4, <1>5
<1>7. steps \in Seq(Nexts(known)) /\ steps # <<>>
  <2>1. start \in Seq(Nexts(known)) /\ start # <<>>
    BY PresentIn
  <2>2. StoreConfig(start, live) \in Seq(Nexts(known)) /\ StoreConfig(start, live) # <<>>
    BY <1>5, StoringPresent
  <2> QED
    BY <2>1, <2>2
<1> HIDE DEF steps, base
<1>8. /\ config \in Wholes /\ config.version = "v2" /\ config.srv # <<>>
      /\ ServerIds(config) \subseteq known \cup {0}
  BY <1>6, Written1Whole
<1> HIDE DEF config
<1>9. /\ all \in Seq(Nexts(known)) /\ all # <<>>
      /\ Last(all).param = config /\ Last(all).size = Length(config)
  <2>1. config.version = "v2" => ServerIds(config) \ (known \cup {0}) \subseteq Last(steps).keys
    BY <1>8
  <2> HIDE DEF known
  <2> QED
    BY <2>1, <1>7, <1>8, StoreWholeIn
<1> HIDE DEF all
<1>10. m \in Mems /\ m.config = config /\ m.session = "dm"
  <2>1. config \in Configs
    BY <1>8 DEF Wholes
  <2> QED
    BY <1>1, <1>4, <2>1, MemFields
<1> HIDE DEF m
<1>11. Agree(Last(all), m)
  BY <1>8, <1>9, <1>10 DEF Agree
<1> QED
  BY <1>3, <1>9, <1>10, <1>11, StoringKeeps DEF known, StorageInv

----------------------------------------------------------------------------
(* The access rights.                                                       *)

LEMMA WithEntryIn ==
  ASSUME NEW a \in Acls, NEW id \in Nat
  PROVE  /\ WithEntry(a, id) \in Acls /\ Has(WithEntry(a, id).list, id)
         /\ a.n = Len(a.list) => WithEntry(a, id).n = Len(WithEntry(a, id).list)
<1>1. a.n \in Nat /\ a.list \in Seq(AclEntries) /\ Len(a.list) \in Nat
      /\ DOMAIN a.list = 1..Len(a.list) /\ Len(a.list) <= a.n
  BY AclFields
<1>2. CASE Has(a.list, id)
  BY <1>2 DEF WithEntry
<1>3. CASE ~Has(a.list, id)
  <2> DEFINE e == AclEntry(id, {})
             list == Append(a.list, e)
             w == [n |-> a.n + 1, list |-> list]
  <2>1. e \in AclEntries /\ e.id = id
    BY EntryTypes DEF AclEntry
  <2> HIDE DEF e
  <2>2. /\ list \in Seq(AclEntries) /\ Len(list) = Len(a.list) + 1
        /\ DOMAIN list = 1..(Len(a.list) + 1) /\ list[Len(a.list) + 1] = e
    BY <1>1, <2>1, AppendFields
  <2>3. Len(a.list) + 1 \in 1..(Len(a.list) + 1)
    BY <1>1
  <2>4. Has(list, id)
    BY <2>1, <2>2, <2>3 DEF Has
  <2> HIDE DEF list
  <2>5. a.n + 1 \in Nat /\ Len(list) <= a.n + 1 /\ (a.n = Len(a.list) => a.n + 1 = Len(list))
    BY <1>1, <2>2
  <2>6. w \in Acls
    BY <2>2, <2>5, AclWith
  <2>7. w.n = a.n + 1 /\ w.list = list
    OBVIOUS
  <2>8. WithEntry(a, id) = w
    BY <1>3 DEF WithEntry, list, e
  <2> HIDE DEF w
  <2> QED
    BY <2>4, <2>5, <2>6, <2>7, <2>8
<1> QED
  BY <1>2, <1>3

LEMMA WithRightIn ==
  ASSUME NEW a \in Acls, NEW id \in Nat, Has(a.list, id)
  PROVE  /\ WithRight(a, id) \in Acls
         /\ a.n = Len(a.list) => WithRight(a, id).n = Len(WithRight(a, id).list)
<1>1. a.n \in Nat /\ a.list \in Seq(AclEntries) /\ Len(a.list) \in Nat
      /\ DOMAIN a.list = 1..Len(a.list) /\ Len(a.list) <= a.n
  BY AclFields
<1> DEFINE k == Find(a.list, id)
           entry == [a.list[k] EXCEPT !.rights = a.list[k].rights \cup {1}]
           list == [a.list EXCEPT ![k] = entry]
           w == [a EXCEPT !.list = list]
<1>2. WithRight(a, id) = w
  BY DEF WithRight
<1>3. k \in DOMAIN a.list
  BY DEF Has, Find
<1> HIDE DEF k
<1>4. entry \in AclEntries
  <2>1. a.list[k] \in AclEntries
    BY <1>1, <1>3
  <2> QED
    BY <2>1 DEF AclEntries
<1> HIDE DEF entry
<1>5. list \in [1..Len(a.list) -> AclEntries]
  BY <1>1, <1>3, <1>4
<1>6. ASSUME NEW n \in Nat, NEW f \in [1..n -> AclEntries]
      PROVE  f \in Seq(AclEntries) /\ Len(f) = n
  OBVIOUS
<1> HIDE DEF list
<1>7. list \in Seq(AclEntries) /\ Len(list) = Len(a.list)
  BY <1>1, <1>5, <1>6
<1>8. w \in Acls /\ w.n = a.n /\ w.list = list
  BY <1>1, <1>7, AclWith
<1> HIDE DEF w
<1> QED
  BY <1>2, <1>7, <1>8

LEMMA WithoutEntryIn ==
  ASSUME NEW a \in Acls, NEW id \in Nat
  PROVE  /\ WithoutEntry(a, id) \in Acls
         /\ a.n = Len(a.list) => WithoutEntry(a, id).n = Len(WithoutEntry(a, id).list)
<1>1. a.n \in Nat /\ a.list \in Seq(AclEntries) /\ Len(a.list) \in Nat
      /\ DOMAIN a.list = 1..Len(a.list) /\ Len(a.list) <= a.n
  BY AclFields
<1> DEFINE P == {i \in DOMAIN a.list : a.list[i].id # id}
           list == Selected(a.list, P)
           w == [n |-> a.n - (Len(a.list) - Len(list)), list |-> list]
<1>2. P \in SUBSET DOMAIN a.list
  OBVIOUS
<1>3. Cardinality(P) \in Nat /\ Cardinality(P) <= Len(a.list)
  <2>1. \A n \in Nat : IsFiniteSet(1..n) /\ Cardinality(1..n) = n
    BY FS_Interval
  <2>2. P \in SUBSET (1..Len(a.list))
    BY <1>1
  <2> HIDE DEF P
  <2>3. IsFiniteSet(1..Len(a.list)) /\ Cardinality(1..Len(a.list)) = Len(a.list)
    BY <1>1, <2>1
  <2>4. IsFiniteSet(P) /\ Cardinality(P) <= Cardinality(1..Len(a.list))
    BY <2>2, <2>3, FS_Subset
  <2> QED
    BY <2>3, <2>4, FS_CardinalityType
<1> HIDE DEF P
<1>4. list \in Seq(AclEntries) /\ Len(list) = Cardinality(P)
  BY <1>1, <1>2, SelectedProperties
<1>5. WithoutEntry(a, id) = w
  BY DEF WithoutEntry, P
<1> HIDE DEF list
<1>6. a.n - (Len(a.list) - Len(list)) \in Nat
  BY <1>1, <1>3, <1>4
<1>7. Len(list) <= a.n - (Len(a.list) - Len(list))
  BY <1>1, <1>3, <1>4
<1>8. w \in Acls
  BY <1>4, <1>6, <1>7, AclWith
<1>9. w.n = a.n - (Len(a.list) - Len(list)) /\ w.list = list
  OBVIOUS
<1>10. a.n = Len(a.list) => a.n - (Len(a.list) - Len(list)) = Len(list)
  BY <1>1, <1>3, <1>4
<1> HIDE DEF w
<1> QED
  BY <1>5, <1>8, <1>9, <1>10

\* A handler that stores no more than the access rights.
LEMMA AclStoringKeeps ==
  ASSUME StorageInv, On, NEW steps \in Seq(Nexts(ServerIds(disk.param))), steps # <<>>,
         Last(steps).param = disk.param, Last(steps).size = disk.size,
         NEW m \in Mems, m.config = mem.config, m.session = mem.session, Do(steps, m)
  PROVE  StepKeeps
<1>1. Agree(Last(steps), m)
  BY DEF StorageInv, Agree, On
<1> QED
  BY <1>1, StoringKeeps DEF StorageInv

LEMMA WriteAclKeeps ==
  ASSUME StorageInv, NEW id \in Nat, NEW good \in BOOLEAN, WriteAcl(id, good)
  PROVE  StepKeeps
<1> DEFINE known == ServerIds(disk.param)
           start == <<disk>>
           entered == WithEntry(mem.acl, id)
           rights == IF good THEN WithRight(entered, id) ELSE entered
           once == StoreAcl(start, entered)
           steps == IF InSession("bootstrap") THEN start
                    ELSE IF good THEN StoreAcl(once, rights) ELSE once
           listed == ListedAfter("acl", id, good)
           m == [mem EXCEPT !.listed = listed]
           n == [m EXCEPT !.acl = rights]
<1>1. On /\ mem \in Mems /\ mem.acl \in Acls
  BY MemFields DEF StorageInv, TypeInv, WriteAcl, On
<1>2. Do(steps, n) \/ Do(start, m)
  BY DEF WriteAcl
<1>3. listed \in [Objects -> SUBSET Nat]
  BY ListedAfterType DEF StorageInv, Objects
<1>4. entered \in Acls /\ Has(entered.list, id)
  BY <1>1, WithEntryIn
<1> HIDE DEF entered, listed
<1>5. rights \in Acls
  BY <1>4, WithRightIn
<1>6. start \in Seq(Nexts(known)) /\ start # <<>> /\ Last(start) = disk
  BY PresentIn
<1> HIDE DEF known, start, rights
<1>7. /\ once \in Seq(Nexts(known)) /\ once # <<>>
      /\ Last(once).param = disk.param /\ Last(once).size = disk.size
  BY <1>4, <1>6, StoreAclApart
<1> HIDE DEF once
<1>8. /\ StoreAcl(once, rights) \in Seq(Nexts(known)) /\ StoreAcl(once, rights) # <<>>
      /\ Last(StoreAcl(once, rights)).param = disk.param
      /\ Last(StoreAcl(once, rights)).size = disk.size
  BY <1>5, <1>7, StoreAclApart
<1>9. /\ steps \in Seq(Nexts(known)) /\ steps # <<>>
      /\ Last(steps).param = disk.param /\ Last(steps).size = disk.size
  BY <1>6, <1>7, <1>8
<1> HIDE DEF steps
<1>10. m \in Mems /\ m.config = mem.config /\ m.session = mem.session
  BY <1>1, <1>3, MemFields
<1> HIDE DEF m
<1>11. n \in Mems /\ n.config = mem.config /\ n.session = mem.session
  BY <1>5, <1>10, MemFields
<1> HIDE DEF n
<1>12. CASE Do(steps, n)
  BY <1>1, <1>9, <1>11, <1>12, AclStoringKeeps DEF known
<1>13. CASE Do(start, m)
  BY <1>1, <1>6, <1>10, <1>13, AclStoringKeeps DEF known
<1> QED
  BY <1>2, <1>12, <1>13

LEMMA DeleteAclKeeps ==
  ASSUME StorageInv, NEW id \in Nat, DeleteAcl(id)
  PROVE  StepKeeps
<1> DEFINE known == ServerIds(disk.param)
           start == <<disk>>
           acl == WithoutEntry(mem.acl, id)
           steps == StoreAcl(start, acl)
           listed == [mem.listed EXCEPT !["acl"] = mem.listed["acl"] \ {id}]
           m == [mem EXCEPT !.acl = acl, !.listed = listed]
<1>1. On /\ mem \in Mems /\ mem.acl \in Acls
  BY MemFields DEF StorageInv, TypeInv, DeleteAcl, InSession, On
<1>2. Do(steps, m)
  BY DEF DeleteAcl
<1>3. listed \in [Objects -> SUBSET Nat]
  BY <1>1, MemFields DEF Objects
<1>4. acl \in Acls
  BY <1>1, WithoutEntryIn
<1>5. start \in Seq(Nexts(known)) /\ start # <<>> /\ Last(start) = disk
  BY PresentIn
<1> HIDE DEF known, start, acl, listed
<1>6. /\ steps \in Seq(Nexts(known)) /\ steps # <<>>
      /\ Last(steps).param = disk.param /\ Last(steps).size = disk.size
  BY <1>4, <1>5, StoreAclApart
<1> HIDE DEF steps
<1>7. m \in Mems /\ m.config = mem.config /\ m.session = mem.session
  BY <1>1, <1>3, <1>4 DEF Mems
<1> HIDE DEF m
<1> QED
  BY <1>1, <1>2, <1>6, <1>7, AclStoringKeeps DEF known

----------------------------------------------------------------------------
(* The storage theorems.                                                    *)

LEMMA WishedType ==
  ASSUME TypeInv, Next
  PROVE  wished' \in Nat
<1>0. wished \in Nat /\ \A life \in Lifetimes : life \in Nat
  BY ConstantTypes DEF TypeInv
<1>1. CASE ObjectRegister
  BY <1>0, <1>1 DEF ObjectRegister
<1>2. CASE Free \/ PowerLoss \/ StartBootstrap \/ EndSession
  BY <1>0, <1>2 DEF Free, PowerLoss, StartBootstrap, EndSession
<1>3. CASE FromBootstrapServer
  BY <1>0, <1>3 DEF FromBootstrapServer, WriteSecurity, WriteServer, DeleteSecurity
<1>4. CASE BootstrapDone
  BY <1>0, <1>4 DEF BootstrapDone
<1>5. CASE \E i \in DmServers : Register(i)
  BY <1>0, <1>5 DEF Register
<1>6. CASE DeleteRegistrationID \/ DeleteDmCredentials
  BY <1>0, <1>6 DEF DeleteRegistrationID, DeleteDmCredentials
<1>7. CASE \E s \in DmServers, life \in Lifetimes : WriteLifetime(s - 1, life)
  <2>1. PICK s \in DmServers, life \in Lifetimes : WriteLifetime(s - 1, life)
    BY <1>7
  <2> QED
    BY <1>0, <2>1 DEF WriteLifetime
<1>8. CASE \E id \in AclIds, good \in Outcomes : WriteAcl(id, good)
  BY <1>0, <1>8 DEF WriteAcl
<1>9. CASE (\E id \in AclIds : DeleteAcl(id)) \/ (\E s \in DmServers : DeleteServer(s - 1))
  BY <1>0, <1>9 DEF DeleteAcl, DeleteServer
<1>10. CASE \E life \in Lifetimes : SetLifetime(life)
  <2>1. PICK life \in Lifetimes : SetLifetime(life)
    BY <1>10
  <2>2. wished' = (IF On /\ Crashed THEN 0 ELSE life) \/ wished' = wished
    BY <2>1, Zenon DEF SetLifetime
  <2> QED
    BY <1>0, <2>2
<1> QED
  BY <1>1, <1>2, <1>3, <1>4, <1>5, <1>6, <1>7, <1>8, <1>9, <1>10 DEF Next, FromServer

LEMMA NextKeeps ==
  ASSUME NoSecondAccount, StorageInv, [Next]_vars
  PROVE  StepKeeps
<1>1. CASE ObjectRegister
  BY <1>1, ObjectRegisterKeeps
<1>2. CASE Free \/ PowerLoss
  BY <1>2, EndKeeps
<1>3. CASE StartBootstrap
  BY <1>3, StartBootstrapKeeps
<1>4. CASE FromBootstrapServer
  <2>1. CASE \E s \in DmServers, boot \in BOOLEAN, good \in Outcomes : WriteSecurity(s, boot, good)
    BY <2>1, WriteSecurityKeeps
  <2>2. CASE \E s \in DmServers, life \in Bootstrapped, good \in Outcomes :
               WriteServer(s, life, good)
    BY <2>2, WriteServerKeeps
  <2>3. CASE \E s \in DmServers : DeleteSecurity(s)
    BY <2>3, ForgetKeeps
  <2> QED
    BY <1>4, <2>1, <2>2, <2>3 DEF FromBootstrapServer
<1>5. CASE BootstrapDone
  BY <1>5, BootstrapDoneKeeps
<1>6. CASE \E i \in DmServers : Register(i)
  BY <1>6, RegisterStores, RegistrationKeeps
<1>7. CASE FromServer
  <2>1. CASE \E s \in DmServers, life \in Lifetimes : WriteLifetime(s - 1, life)
    BY <2>1, ConstantTypes, WriteLifetimeKeeps
  <2>2. CASE \E id \in AclIds, good \in Outcomes : WriteAcl(id, good)
    BY <2>2, ConstantTypes, OutcomeType, WriteAclKeeps
  <2>3. CASE \E id \in AclIds : DeleteAcl(id)
    BY <2>3, ConstantTypes, DeleteAclKeeps
  <2>4. CASE \E s \in DmServers : DeleteServer(s - 1)
    BY <2>4, ForgetKeeps
  <2> QED
    BY <1>7, <2>1, <2>2, <2>3, <2>4 DEF FromServer
<1>8. CASE DeleteRegistrationID
  BY <1>8, DeleteRegistrationIDStores, RegistrationKeeps
<1>9. CASE DeleteDmCredentials
  BY <1>9, DeleteDmCredentialsKeeps
<1>10. CASE EndSession
  BY <1>10, EndSessionKeeps
<1>11. CASE \E life \in Lifetimes : SetLifetime(life)
  BY <1>11, ConstantTypes, SetLifetimeKeeps
<1>12. CASE UNCHANGED vars
  <2>1. disk' = disk /\ mem' = mem
    BY <1>12 DEF vars
  <2>2. mem' \in Mems /\ Agree(disk, mem')
    BY <2>1 DEF StorageInv, TypeInv
  <2> QED
    BY <2>1, <2>2, NotStoringKeeps
<1> QED
  BY <1>1, <1>2, <1>3, <1>4, <1>5, <1>6, <1>7, <1>8, <1>9, <1>10, <1>11, <1>12 DEF Next

LEMMA StorageInvInit == Init => StorageInv
<1> SUFFICES ASSUME Init
             PROVE  StorageInv
  OBVIOUS
<1>1. mem = NoMemory /\ wished = 0
  BY DEF Init
<1>2. mem \in Mems /\ Agree(disk, mem) /\ wished \in Nat
  BY <1>1, NoMemoryType
<1>3. NoAcl \in Acls /\ Absent \in Configs /\ NoSize \in Int /\ Absent.version = "none"
  BY NoAclType, FixedConfigs DEF NoSize
<1>4. CASE disk = [size |-> NoSize, param |-> Absent, aclSize |-> NoSize, acl |-> NoAcl,
                   keys |-> {}]
  <2>1. disk \in Disks /\ disk.size = NoSize /\ disk.param = Absent
    BY <1>3, <1>4 DEF Disks
  <2> QED
    BY <1>2, <1>3, <2>1 DEF StorageInv, TypeInv, Sound
<1>5. CASE \E life \in Bootstrapped, keys \in {{}, {1}} :
             disk = [size |-> NoSize, param |-> Version1(life), aclSize |-> NoSize,
                     acl |-> NoAcl, keys |-> keys]
  <2>1. PICK life \in Bootstrapped, keys \in {{}, {1}} :
               disk = [size |-> NoSize, param |-> Version1(life), aclSize |-> NoSize,
                       acl |-> NoAcl, keys |-> keys]
    BY <1>5
  <2> DEFINE c == Version1(life)
             sec == <<Security(0, TRUE, 1), Security(1, FALSE, 1)>>
             srv == <<Server(0, 1, life)>>
             e == [c EXCEPT !.version = "v2"]
  <2>2. life \in Nat /\ 0 \in Nat /\ 1 \in Nat /\ 2 \in Nat
    BY ConstantTypes
  <2>3. Security(0, TRUE, 1) \in SecurityEntries /\ Security(1, FALSE, 1) \in SecurityEntries
        /\ Server(0, 1, life) \in ServerEntries
    BY <2>2, EntryTypes
  <2>4. sec \in Seq(SecurityEntries) /\ Len(sec) = 2 /\ DOMAIN sec = 1..2
        /\ sec[1] = Security(0, TRUE, 1) /\ sec[2] = Security(1, FALSE, 1) /\ sec # <<>>
    <3> DEFINE a == Security(0, TRUE, 1)
               b == Security(1, FALSE, 1)
    <3>1. a \in SecurityEntries /\ b \in SecurityEntries /\ sec = <<a, b>>
      BY <2>3
    <3> HIDE DEF a, b, sec
    <3>2. /\ <<a, b>> \in Seq(SecurityEntries) /\ Len(<<a, b>>) = 2 /\ DOMAIN <<a, b>> = 1..2
          /\ <<a, b>>[1] = a /\ <<a, b>>[2] = b /\ <<a, b>> # <<>>
      BY <3>1
    <3> QED
      BY <3>1, <3>2 DEF a, b
  <2>5. srv \in Seq(ServerEntries) /\ Len(srv) = 1 /\ DOMAIN srv = 1..1
    BY <2>3
  <2>6. sec[1].id = 0 /\ sec[2].id = 1 /\ ~sec[2].boot
    BY <2>4 DEF Security
  <2>7. c = [version |-> "v1", nsec |-> 2, nsrv |-> 1, sec |-> sec, srv |-> srv]
    BY DEF Version1
  <2> HIDE DEF sec, srv, c
  <2>8. c \in Configs /\ c.version = "v1"
    BY <2>2, <2>4, <2>5, <2>7 DEF Configs
  <2>9. e = [version |-> "v2", nsec |-> 2, nsrv |-> 1, sec |-> sec, srv |-> srv]
    BY <2>7
  <2> HIDE DEF e
  <2>10. e \in Configs /\ e.version = "v2" /\ e.nsec = 2 /\ e.nsrv = 1 /\ e.sec = sec /\ e.srv = srv
    BY <2>2, <2>4, <2>5, <2>9 DEF Configs
  <2>11. Distinctly(sec) /\ Distinctly(srv)
    <3>1. \A i, j \in 1..2 : i = j \/ (i = 1 /\ j = 2) \/ (i = 2 /\ j = 1)
      OBVIOUS
    <3>2. \A i, j \in 1..1 : i = j
      OBVIOUS
    <3>3. Distinctly(sec)
      <4>1. ASSUME NEW i \in 1..2, NEW j \in 1..2, sec[i].id = sec[j].id
            PROVE  i = j
        <5>1. 0 # 1
          OBVIOUS
        <5> QED
          BY <2>6, <3>1, <4>1, <5>1
      <4>2. DOMAIN sec = 1..2
        BY <2>4
      <4> QED
        BY <4>1, <4>2 DEF Distinctly
    <3>4. Distinctly(srv)
      BY <2>4, <2>5, <2>6, <3>2 DEF Distinctly
    <3> QED
      BY <3>3, <3>4
  <2>12. \A i \in 2..Len(sec) : ~sec[i].boot
    <3>1. \A i \in 2..2 : i = 2
      OBVIOUS
    <3> QED
      BY <2>4, <2>6, <3>1
  <2>13. e \in Wholes
    BY <2>4, <2>5, <2>10, <2>11, <2>12 DEF Wholes, Whole
  <2>14. disk \in Disks /\ disk.size = NoSize /\ disk.param = c
    <3>1. keys \in SUBSET Nat
      BY <2>2
    <3> QED
      BY <1>3, <2>1, <2>8, <3>1 DEF Disks, c
  <2>15. Sound(disk)
    BY <2>8, <2>13, <2>14 DEF Sound, e
  <2> QED
    BY <1>2, <2>14, <2>15 DEF StorageInv, TypeInv
<1> QED
  BY <1>4, <1>5 DEF Init

LEMMA StorageInvNext ==
  ASSUME NoSecondAccount, StorageInv, [Next]_vars
  PROVE  StorageInv'
<1>1. StepKeeps
  BY NextKeeps
<1>2. wished' \in Nat
  <2>1. CASE Next
    BY <2>1, WishedType DEF StorageInv
  <2>2. CASE UNCHANGED vars
    BY <2>2 DEF vars, StorageInv, TypeInv
  <2> QED
    BY <2>1, <2>2
<1> QED
  BY <1>1, <1>2 DEF StepKeeps, StorageInv, TypeInv

LEMMA StorageInvAlways ==
  ASSUME NoSecondAccount
  PROVE  Spec => []StorageInv
<1>1. Init => StorageInv
  BY StorageInvInit
<1>2. StorageInv /\ [Next]_vars => StorageInv'
  BY StorageInvNext
<1> QED
  BY <1>1, <1>2, PTL DEF Spec

\* Outside a bootstrap a restart would find the configuration that the client works
\* with, for any number of servers and power losses, unless the bootstrap server adds
\* a second account for itself (handlers.c 1008, 1191, 806; lwm2mcoreSession.c 2263,
\* 2316).
THEOREM StoredCorrect ==
  ASSUME NoSecondAccount
  PROVE  Spec => []StoredAgrees
<1>1. StorageInv => StoredAgrees
  <2> SUFFICES ASSUME StorageInv
               PROVE  StoredAgrees
    OBVIOUS
  <2>1. mem.session \in {"none", "dm"} /\ mem.config.version = "v2" =>
          Load(disk, FALSE).config = mem.config /\ Load(disk, FALSE).ok = TRUE
    BY LoadWhole
  <2> QED
    BY <2>1 DEF StoredAgrees
<1> QED
  BY <1>1, StorageInvAlways, PTL

\* A server that gets stored has its keys in the platform by then, whenever the power
\* is lost (handlers.c 763-806).
THEOREM KeysCorrect ==
  ASSUME NoSecondAccount
  PROVE  Spec => NewServersHaveKeys
<1>1. StorageInv /\ [Next]_vars =>
        [disk'.param.version = "v2" =>
           ServerIds(disk'.param) \ (ServerIds(disk.param) \cup {0}) \subseteq disk'.keys]_vars
  BY NextKeeps DEF StepKeeps, Keyed
<1> QED
  BY <1>1, StorageInvAlways, PTL DEF Spec, NewServersHaveKeys

LEMMA StartsWithWhole ==
  ASSUME StorageInv, ObjectRegister, mem' # NoMemory
  PROVE  mem'.config \in {[disk.param EXCEPT !.version = "v2"], Default, Zero}
<1> DEFINE loaded == Load(disk, TRUE)
           config == IF loaded.ok THEN loaded.config ELSE WithoutDm(loaded.config)
           steps == IF loaded.ok THEN loaded.steps ELSE DeleteDm(loaded.steps, loaded.config)
           rights == LoadAcl(steps)
           listed == [security |-> FirstIds(config.nsec), server |-> FirstIds(config.nsrv),
                      acl |-> FirstIds(rights.acl.n)]
           m == [config |-> config, acl |-> rights.acl, session |-> "none", listed |-> listed]
<1>1. Do(rights.steps, m)
  BY DEF ObjectRegister
<1>2. /\ loaded.ok \in BOOLEAN
      /\ loaded.config \in {Zero, Default, [disk.param EXCEPT !.version = "v2"]}
      /\ ~loaded.ok => loaded.config \in {Zero, Default}
  BY PresentIn, LoadAtStart
<1> HIDE DEF loaded
<1>3. config \in {Zero, Default, [disk.param EXCEPT !.version = "v2"]}
  BY <1>2, WithoutDmFixed
<1> HIDE DEF config, rights, listed
<1>4. m.config = config
  OBVIOUS
<1> HIDE DEF m
<1>5. mem' = m
  BY <1>1 DEF Do
<1> QED
  BY <1>3, <1>4, <1>5

\* A client starts with the configuration that was stored last as a whole, or with
\* none but the bootstrap server, however the power was lost
\* (bootstrapConfiguration.c 553-732).
THEOREM StartsWholeCorrect ==
  ASSUME NoSecondAccount
  PROVE  Spec => StartsWhole
<1>1. StorageInv /\ [Next]_vars =>
        [~On /\ On' =>
           mem'.config \in {[disk.param EXCEPT !.version = "v2"], Default, Zero}]_vars
  <2> SUFFICES ASSUME StorageInv, Next, ~On, On'
               PROVE  mem'.config \in {[disk.param EXCEPT !.version = "v2"], Default, Zero}
    BY DEF vars
  <2>1. NoMemory.session = "off"
    BY DEF NoMemory
  <2>2. mem' # NoMemory /\ mem' # mem
    BY <2>1 DEF On
  <2>3. ASSUME ~ObjectRegister
        PROVE  FALSE
    <3>1. mem.session = "off"
      BY DEF On
    <3>2. CASE \E life \in Lifetimes : SetLifetime(life)
      <4>1. PICK life \in Lifetimes : SetLifetime(life)
        BY <3>2
      <4> DEFINE steps == Load(disk, FALSE).steps
                 more == StoreConfig(steps, WithLifetime(Load(disk, FALSE).config, life))
      <4>2. Do(steps, mem) \/ Do(more, mem)
        BY <4>1 DEF SetLifetime
      <4> HIDE DEF steps, more
      <4> QED
        BY <2>2, <4>2 DEF Do
    <3>3. CASE Free \/ PowerLoss \/ StartBootstrap \/ EndSession
      BY <3>1, <3>3 DEF Free, PowerLoss, StartBootstrap, EndSession, InSession, On
    <3>4. CASE FromBootstrapServer
      BY <3>1, <3>4 DEF FromBootstrapServer, WriteSecurity, WriteServer, DeleteSecurity, InSession
    <3>5. CASE FromServer
      BY <3>1, <3>5 DEF FromServer, WriteLifetime, WriteAcl, DeleteAcl, DeleteServer, InSession
    <3>6. CASE BootstrapDone \/ DeleteRegistrationID \/ DeleteDmCredentials
      BY <3>1, <3>6 DEF BootstrapDone, DeleteRegistrationID, DeleteDmCredentials, InSession
    <3>7. CASE \E i \in DmServers : Register(i)
      BY <3>1, <3>7 DEF Register, InSession
    <3> QED
      BY <2>3, <3>2, <3>3, <3>4, <3>5, <3>6, <3>7 DEF Next
  <2> QED
    BY <2>2, <2>3, StartsWithWhole
<1> QED
  BY <1>1, StorageInvAlways, PTL DEF Spec, StartsWhole

----------------------------------------------------------------------------
(* The lifetime that was accepted.                                          *)

NoBareLifetime == "factoryLifetime" \notin Deviations

\* A stored configuration that the next start loads, with this lifetime.
Lives(life) ==
  {d \in Disks : d.param.version = "v2" /\ d.size = Length(d.param) /\ AllLive(d.param, life)}
LifeInv == wished # 0 => disk \in Lives(wished)

LEMMA LivesClosed == \A life : AclClosed(Lives(life))
BY DEF AclClosed, Lives

LEMMA DiskIn ==
  ASSUME NEW X, NEW steps \in Seq(X), steps # <<>>, NEW m, Do(steps, m)
  PROVE  disk' \in X
BY DoIn, LastIn

\* A configuration of the same length is stored over the present one.
LEMMA StoreLive ==
  ASSUME NEW life, NEW d \in Lives(life), NEW c \in Wholes, c.version = "v2",
         AllLive(c, life), d.size = Length(c)
  PROVE  StoreConfig(<<d>>, c) \in Seq(Lives(life)) /\ StoreConfig(<<d>>, c) # <<>>
<1> DEFINE steps == <<d>>
           a == [d EXCEPT !.size = Length(c)]
           b == [a EXCEPT !.param = c]
<1>1. steps \in Seq(Lives(life)) /\ Last(steps) = d
  BY OneStep
<1>2. d \in Disks /\ d.param.version = "v2" /\ d.size = Length(d.param) /\ AllLive(d.param, life)
  BY DEF Lives
<1>3. c \in Configs /\ Stored(c) = c /\ Length(c) \in Int
  BY StoredWhole, LengthType DEF Wholes, Whole
<1>4. a \in Disks /\ a.size = Length(c) /\ a.param = d.param
  BY <1>2, <1>3, DiskFields
<1> HIDE DEF a, steps
<1>5. b \in Disks /\ b.size = Length(c) /\ b.param = c
  BY <1>3, <1>4, DiskFields
<1> HIDE DEF b
<1>6. a \in Lives(life)
  BY <1>2, <1>4 DEF Lives
<1>7. b \in Lives(life)
  BY <1>5 DEF Lives
<1>8. StoreConfig(steps, c) = steps \o <<a, b>>
  BY <1>1, <1>3 DEF StoreConfig, a, b
<1>9. StoreConfig(steps, c) \in Seq(Lives(life)) /\ StoreConfig(steps, c) # <<>>
  BY <1>1, <1>6, <1>7, <1>8, TwoMore
<1> QED
  BY <1>9 DEF steps

LEMMA ObjectRegisterLives ==
  ASSUME StorageInv, LifeInv, ObjectRegister, wished' # 0
  PROVE  disk' \in Lives(wished')
<1> DEFINE loaded == Load(disk, TRUE)
           config == IF loaded.ok THEN loaded.config ELSE WithoutDm(loaded.config)
           steps == IF loaded.ok THEN loaded.steps ELSE DeleteDm(loaded.steps, loaded.config)
           rights == LoadAcl(steps)
           listed == [security |-> FirstIds(config.nsec), server |-> FirstIds(config.nsrv),
                      acl |-> FirstIds(rights.acl.n)]
           m == [config |-> config, acl |-> rights.acl, session |-> "none", listed |-> listed]
<1>1. Do(rights.steps, m)
  BY DEF ObjectRegister
<1>2. wished' = wished
  BY DEF ObjectRegister
<1>3. disk \in Lives(wished)
  BY <1>2 DEF LifeInv
<1>4. loaded.ok = TRUE /\ loaded.steps = <<disk>>
  BY <1>3, LoadV2 DEF StorageInv, Lives
<1> DEFINE start == <<disk>>
           X == Lives(wished)
<1>5. steps = start
  BY <1>4
<1>6. start \in Seq(X) /\ start # <<>>
  BY <1>3, OneStep
<1>7. AclClosed(X)
  BY LivesClosed
<1> HIDE DEF steps, start, X
<1>8. rights.steps \in Seq(X) /\ rights.steps # <<>>
  BY <1>5, <1>6, <1>7, LoadAclIn
<1> HIDE DEF rights, m
<1>9. disk' \in X
  BY <1>1, <1>8, DiskIn
<1> QED
  BY <1>2, <1>9 DEF X

LEMMA RegistrationLives ==
  ASSUME StorageInv, LifeInv, wished' = wished, wished # 0,
         \E c, m : RegistrationStored(c, m)
  PROVE  disk' \in Lives(wished)
<1>1. PICK c, m : RegistrationStored(c, m)
  OBVIOUS
<1>2. /\ c \in Wholes /\ c.version = "v2" /\ disk.size = Length(c) /\ disk.param = mem.config
      /\ AllLive(disk.param, wished) => AllLive(c, wished)
      /\ Do(StoreConfig(<<disk>>, c), m)
  BY <1>1 DEF RegistrationStored, StorageInv, TypeInv
<1>3. disk \in Lives(wished) /\ AllLive(disk.param, wished)
  BY DEF LifeInv, Lives
<1>4. StoreConfig(<<disk>>, c) \in Seq(Lives(wished)) /\ StoreConfig(<<disk>>, c) # <<>>
  BY <1>2, <1>3, StoreLive
<1> DEFINE steps == StoreConfig(<<disk>>, c)
<1>5. Do(steps, m)
  BY <1>2
<1> HIDE DEF steps
<1> QED
  BY <1>4, <1>5, DiskIn DEF steps

LEMMA SetLifetimeLives ==
  ASSUME NoBareLifetime, StorageInv, LifeInv, NEW life \in Nat, SetLifetime(life),
         wished' # 0, disk' \in Disks
  PROVE  disk' \in Lives(wished')
<1> DEFINE r == Load(disk, FALSE)
           stored == WithLifetime(r.config, life)
           m == IF On THEN [mem EXCEPT !.config = WithLifetime(mem.config, life)] ELSE mem
           start == <<disk>>
           steps == StoreConfig(start, stored)
<1>1. mem.config.srv # <<>> /\ r.config.srv # <<>>
  BY DEF SetLifetime, NoBareLifetime
<1>2. On
  BY <1>1, FixedConfigs DEF StorageInv, Agree, On, NoMemory
<1>3. /\ r.ok \in BOOLEAN /\ r.config \in Wholes /\ stored \in Wholes
      /\ r.ok => r.steps = start
  BY LifetimeLoaded
<1>4. r.ok
  <2>1. CASE wished # 0
    BY <2>1, LoadV2 DEF StorageInv, LifeInv, Lives
  <2>2. CASE wished = 0
    <3>1. wished' # wished
      BY <2>2
    <3> QED
      BY <3>1 DEF SetLifetime
  <2> QED
    BY <2>1, <2>2
<1>5. Do(steps, m)
  BY <1>3, <1>4 DEF SetLifetime
<1>6. wished' = life /\ ~Crashed
  BY <1>2, <1>4 DEF SetLifetime
<1>7. r.config.version = "v2"
  <2>1. \/ r.config \in {Zero, Default}
        \/ r.config = disk.param /\ disk.param.version = "v2"
    BY PresentIn, LoadStored
  <2> HIDE DEF r
  <2> QED
    BY <2>1, <1>1, FixedConfigs
<1> HIDE DEF r, m
<1>8. stored.version = "v2" /\ AllLive(stored, life)
  BY <1>1, <1>3, <1>7, WithLifetimeWhole, WithLifetimeLive
<1> HIDE DEF stored, start
<1>9. steps \in Seq(Nexts(ServerIds(disk.param))) /\ steps # <<>>
      /\ Last(steps).param = stored /\ Last(steps).size = Length(stored)
  <2>1. stored.version = "v2" => ServerIds(stored) \subseteq ServerIds(disk.param) \cup {0}
    BY LifetimeLoaded DEF stored, r
  <2> QED
    BY <1>3, <2>1, StoringPresent DEF start
<1> HIDE DEF steps
<1>10. disk' = Last(steps)
  BY <1>5, <1>6 DEF Do, Crashed
<1> QED
  BY <1>6, <1>8, <1>9, <1>10 DEF Lives

LEMMA WriteLifetimeLives ==
  ASSUME StorageInv, LifeInv, NEW id \in Nat, NEW life \in Nat, WriteLifetime(id, life),
         wished' # 0, disk' \in Disks
  PROVE  disk' \in Lives(wished')
<1> DEFINE r == Load(disk, FALSE)
           known == ServerIds(disk.param)
           changed == LifetimeStored # life
           c == mem.config
           start == <<disk>>
           live == WithLifetime(c, life)
           steps == IF changed THEN StoreConfig(start, live) ELSE start
           base == IF changed THEN live ELSE c
           config == Written1(base, id, life)
           m == [mem EXCEPT !.config = config]
           all == StoreConfig(steps, config)
<1>1. mem.session = "dm" /\ c.version = "v2"
  BY InBootstrap DEF WriteLifetime, InSession
<1>2. r.config = c /\ r.steps = start /\ r.ok = TRUE
  BY <1>1, LoadWhole
<1>3. Do(all, m)
  BY <1>2 DEF WriteLifetime, Written1
<1>4. /\ ~Crashed
      /\ changed => wished' = life
      /\ ~changed => wished' = wished
  BY DEF WriteLifetime
<1>5. c \in Wholes /\ disk.param = c /\ c.srv # <<>>
  BY <1>1, PresentConfig
<1>6. wished' = life /\ AllLive(base, life)
  <2>1. CASE changed
    BY <1>4, <1>5, <2>1, WithLifetimeLive
  <2>2. CASE ~changed
    <3>1. disk \in Lives(wished)
      BY <1>4, <2>2 DEF LifeInv
    <3>2. AllLive(c, wished)
      BY <1>5, <3>1 DEF Lives
    <3>3. LifetimeStored = c.srv[1].life
      BY <1>2, <1>5 DEF LifetimeStored
    <3>4. 1 \in DOMAIN c.srv
      <4>1. c.srv \in Seq(ServerEntries)
        BY <1>5, ConfigFields DEF Wholes
      <4> QED
        BY <1>5, <4>1
    <3>5. life = wished
      BY <2>2, <3>2, <3>3, <3>4 DEF AllLive
    <3> QED
      BY <1>4, <2>2, <3>2, <3>5
  <2> QED
    BY <2>1, <2>2
<1> HIDE DEF r, changed, c
<1>7. live \in Wholes /\ live.version = "v2" /\ ServerIds(live) \subseteq known \cup {0}
  BY <1>1, <1>5, WithLifetimeWhole
<1> HIDE DEF live
<1>8. base \in Wholes /\ base.version = "v2" /\ ServerIds(base) \subseteq known \cup {0}
  BY <1>1, <1>5, <1>7
<1>9. steps \in Seq(Nexts(known)) /\ steps # <<>>
  <2>1. start \in Seq(Nexts(known)) /\ start # <<>>
    BY PresentIn
  <2>2. StoreConfig(start, live) \in Seq(Nexts(known)) /\ StoreConfig(start, live) # <<>>
    BY <1>7, StoringPresent
  <2> QED
    BY <2>1, <2>2
<1> HIDE DEF steps, base
<1>10. /\ config \in Wholes /\ config.version = "v2" /\ AllLive(config, life)
       /\ ServerIds(config) \subseteq known \cup {0}
  BY <1>6, <1>8, Written1Whole
<1> HIDE DEF config
<1>11. all # <<>> /\ Last(all).param = config /\ Last(all).size = Length(config)
  <2>1. config.version = "v2" => ServerIds(config) \ (known \cup {0}) \subseteq Last(steps).keys
    BY <1>10
  <2> HIDE DEF known
  <2> QED
    BY <2>1, <1>9, <1>10, StoreWholeIn
<1> HIDE DEF all
<1>12. disk' = Last(all)
  BY <1>3, <1>4 DEF Do, Crashed
<1> QED
  BY <1>6, <1>10, <1>11, <1>12 DEF Lives

LEMMA AclWritesIn ==
  ASSUME StorageInv, NEW id \in Nat,
         (\E good \in BOOLEAN : WriteAcl(id, good)) \/ DeleteAcl(id),
         NEW X, AclClosed(X), disk \in X
  PROVE  disk' \in X
<1> DEFINE start == <<disk>>
<1>1. start \in Seq(X) /\ start # <<>>
  BY OneStep
<1>2. mem.acl \in Acls
  BY MemFields DEF StorageInv, TypeInv
<1>3. ASSUME NEW good \in BOOLEAN, WriteAcl(id, good)
      PROVE  disk' \in X
  <2> DEFINE entered == WithEntry(mem.acl, id)
             rights == IF good THEN WithRight(entered, id) ELSE entered
             once == StoreAcl(start, entered)
             steps == IF InSession("bootstrap") THEN start
                      ELSE IF good THEN StoreAcl(once, rights) ELSE once
  <2>1. \E m : Do(steps, m) \/ Do(start, m)
    BY <1>3 DEF WriteAcl
  <2>2. entered \in Acls /\ Has(entered.list, id)
    BY <1>2, WithEntryIn
  <2> HIDE DEF entered
  <2>3. rights \in Acls
    BY <2>2, WithRightIn
  <2> HIDE DEF start, rights
  <2>4. once \in Seq(X) /\ once # <<>>
    BY <1>1, <2>2, StoreAclIn
  <2> HIDE DEF once
  <2>5. StoreAcl(once, rights) \in Seq(X) /\ StoreAcl(once, rights) # <<>>
    BY <2>3, <2>4, StoreAclIn
  <2>6. steps \in Seq(X) /\ steps # <<>>
    BY <1>1, <2>4, <2>5
  <2> HIDE DEF steps
  <2> QED
    BY <1>1, <2>1, <2>6, DiskIn
<1>4. ASSUME DeleteAcl(id)
      PROVE  disk' \in X
  <2> DEFINE acl == WithoutEntry(mem.acl, id)
             steps == StoreAcl(start, acl)
  <2>1. PICK m : Do(steps, m)
    BY <1>4 DEF DeleteAcl
  <2>2. acl \in Acls
    BY <1>2, WithoutEntryIn
  <2> HIDE DEF start, acl
  <2>3. steps \in Seq(X) /\ steps # <<>>
    BY <1>1, <2>2, StoreAclIn
  <2> HIDE DEF steps
  <2> QED
    BY <2>1, <2>3, DiskIn
<1> QED
  BY <1>3, <1>4

LEMMA LifeInvNext ==
  ASSUME NoBareLifetime, StorageInv, LifeInv, [Next]_vars, disk' \in Disks
  PROVE  LifeInv'
<1> SUFFICES ASSUME wished' # 0
             PROVE  disk' \in Lives(wished')
  BY DEF LifeInv
<1>0. wished' = wished => disk \in Lives(wished)
  BY DEF LifeInv
<1>1. CASE ObjectRegister
  BY <1>1, ObjectRegisterLives
<1>2. CASE Free \/ PowerLoss \/ StartBootstrap \/ EndSession
  BY <1>0, <1>2 DEF Free, PowerLoss, StartBootstrap, EndSession
<1>3. CASE FromBootstrapServer
  BY <1>0, <1>3 DEF FromBootstrapServer, WriteSecurity, WriteServer, DeleteSecurity
<1>4. CASE BootstrapDone \/ DeleteDmCredentials
  BY <1>4 DEF BootstrapDone, DeleteDmCredentials
<1>5. CASE \E i \in DmServers : Register(i)
  <2>1. wished' = wished
    BY <1>5 DEF Register
  <2> QED
    BY <1>5, <2>1, RegisterStores, RegistrationLives
<1>6. CASE DeleteRegistrationID
  <2>1. wished' = wished
    BY <1>6 DEF DeleteRegistrationID
  <2> QED
    BY <1>6, <2>1, DeleteRegistrationIDStores, RegistrationLives
<1>7. CASE \E s \in DmServers, life \in Lifetimes : WriteLifetime(s - 1, life)
  BY <1>7, ConstantTypes, WriteLifetimeLives
<1>8. CASE \/ \E id \in AclIds, good \in Outcomes : WriteAcl(id, good)
           \/ \E id \in AclIds : DeleteAcl(id)
  <2>1. wished' = wished
    BY <1>8 DEF WriteAcl, DeleteAcl
  <2>2. PICK id \in AclIds : (\E good \in BOOLEAN : WriteAcl(id, good)) \/ DeleteAcl(id)
    BY <1>8, OutcomeType
  <2>3. id \in Nat
    BY ConstantTypes
  <2> QED
    BY <1>0, <2>1, <2>2, <2>3, LivesClosed, AclWritesIn
<1>9. CASE \E s \in DmServers : DeleteServer(s - 1)
  BY <1>0, <1>9 DEF DeleteServer
<1>10. CASE \E life \in Lifetimes : SetLifetime(life)
  BY <1>10, ConstantTypes, SetLifetimeLives
<1>11. CASE UNCHANGED vars
  BY <1>0, <1>11 DEF vars
<1> QED
  BY <1>1, <1>2, <1>3, <1>4, <1>5, <1>6, <1>7, <1>8, <1>9, <1>10, <1>11 DEF Next, FromServer

\* A lifetime that was accepted is the one of every server in the storage and after any
\* restart, for any number of servers, lifetimes and power losses, unless it is set while
\* no server is configured or the bootstrap server adds a second account for itself
\* (lwm2mcore.h 1147-1157).
THEOREM LifetimeCorrect ==
  ASSUME NoSecondAccount, NoBareLifetime
  PROVE  Spec => []LifetimeIsStored
<1>1. Init => LifeInv
  BY DEF Init, LifeInv
<1>2. StorageInv /\ LifeInv /\ [Next]_vars => LifeInv'
  BY NextKeeps, LifeInvNext DEF StepKeeps
<1>3. LifeInv => LifetimeIsStored
  BY DEF LifeInv, Lives, AllLive, LifetimeIsStored
<1> QED
  BY <1>1, <1>2, <1>3, StorageInvAlways, PTL DEF Spec

----------------------------------------------------------------------------
(* The access rights that are stored.                                       *)

NoTornAcl == "aclTorn" \notin Deviations

\* A set of storages that depends on the access rights only.
ConfigClosed(X) ==
  /\ X \subseteq Disks
  /\ \A d \in X, e \in Disks : e.acl = d.acl /\ e.aclSize = d.aclSize => e \in X

LEMMA StoreConfigApart ==
  ASSUME NEW X, ConfigClosed(X), NEW steps \in Seq(X), steps # <<>>, NEW c \in Configs
  PROVE  LET r == StoreConfig(steps, c)
         IN  /\ r \in Seq(X) /\ r # <<>>
             /\ Last(r).acl = Last(steps).acl /\ Last(r).aclSize = Last(steps).aclSize
<1> DEFINE d == Last(steps)
           a == [d EXCEPT !.size = Length(c)]
           b == [a EXCEPT !.param = Stored(c)]
<1>1. d \in X /\ d \in Disks
  BY LastIn DEF ConfigClosed
<1>2. Length(c) \in Int /\ Stored(c) \in Configs
  BY LengthType, StoredType
<1> HIDE DEF d
<1>3. a \in Disks /\ a.acl = d.acl /\ a.aclSize = d.aclSize
  BY <1>1, <1>2, DiskFields
<1> HIDE DEF a
<1>4. b \in Disks /\ b.acl = d.acl /\ b.aclSize = d.aclSize
  BY <1>2, <1>3, DiskFields
<1> HIDE DEF b
<1>5. a \in X /\ b \in X
  BY <1>1, <1>3, <1>4 DEF ConfigClosed
<1>6. StoreConfig(steps, c) = steps \o <<a, b>>
  BY DEF StoreConfig, a, b, d
<1>7. /\ StoreConfig(steps, c) \in Seq(X) /\ StoreConfig(steps, c) # <<>>
      /\ Last(StoreConfig(steps, c)) = b
  BY <1>5, <1>6, TwoMore
<1> QED
  BY <1>4, <1>7 DEF d

LEMMA DeleteApart ==
  ASSUME NEW X, ConfigClosed(X)
  PROVE  /\ \A d \in X : LET r == DeleteStored(d)
                         IN  /\ r \in Seq(X) /\ r # <<>>
                             /\ Last(r).acl = d.acl /\ Last(r).aclSize = d.aclSize
         /\ \A steps \in Seq(X), c \in Wholes :
              LET r == DeleteDm(steps, c)
              IN  steps # <<>> =>
                    /\ r \in Seq(X) /\ r # <<>>
                    /\ Last(r).acl = Last(steps).acl /\ Last(r).aclSize = Last(steps).aclSize
<1>1. ASSUME NEW d \in X
      PROVE  LET r == DeleteStored(d)
             IN  r \in Seq(X) /\ r # <<>> /\ Last(r).acl = d.acl /\ Last(r).aclSize = d.aclSize
  <2> DEFINE a == [d EXCEPT !.param = Absent]
             b == [a EXCEPT !.size = NoSize]
             r == DeleteStored(d)
  <2>1. d \in Disks /\ Absent \in Configs /\ NoSize \in Int
    BY FixedConfigs DEF ConfigClosed, NoSize
  <2>2. a \in Disks /\ a.acl = d.acl /\ a.aclSize = d.aclSize
    BY <2>1, DiskFields
  <2> HIDE DEF a
  <2>3. b \in Disks /\ b.acl = d.acl /\ b.aclSize = d.aclSize
    BY <2>1, <2>2, DiskFields
  <2> HIDE DEF b
  <2>4. a \in X /\ b \in X
    BY <2>2, <2>3 DEF ConfigClosed
  <2>5. r = <<d, a, b>>
    BY DEF DeleteStored, a, b
  <2>6. r \in Seq(X) /\ r # <<>> /\ Last(r) = b
    BY <2>4, <2>5 DEF Last
  <2> HIDE DEF r
  <2> QED
    BY <2>3, <2>6 DEF r
<1>2. ASSUME NEW steps \in Seq(X), NEW c \in Wholes, steps # <<>>
      PROVE  LET r == DeleteDm(steps, c)
             IN  /\ r \in Seq(X) /\ r # <<>>
                 /\ Last(r).acl = Last(steps).acl /\ Last(r).aclSize = Last(steps).aclSize
  <2> DEFINE d == Last(steps)
             e == [d EXCEPT !.keys = @ \ ServerIds(c)]
             less == Append(steps, e)
  <2>1. d \in X /\ d \in Disks
    BY <1>2, LastIn DEF ConfigClosed
  <2> HIDE DEF d
  <2>2. e \in Disks /\ e.acl = d.acl /\ e.aclSize = d.aclSize
    <3>1. d.keys \ ServerIds(c) \in SUBSET Nat
      BY <2>1, DiskFields
    <3> QED
      BY <2>1, <3>1, DiskFields
  <2> HIDE DEF e
  <2>3. e \in X
    BY <2>1, <2>2 DEF ConfigClosed
  <2>4. less \in Seq(X) /\ less # <<>> /\ Last(less) = e
    BY <2>3 DEF Last
  <2>5. WithoutDm(c) \in Configs
    BY WithoutDmWhole DEF Wholes
  <2> HIDE DEF less
  <2>6. LET r == StoreConfig(less, WithoutDm(c))
        IN  /\ r \in Seq(X) /\ r # <<>>
            /\ Last(r).acl = e.acl /\ Last(r).aclSize = e.aclSize
    BY <2>4, <2>5, StoreConfigApart
  <2> QED
    BY <2>2, <2>6 DEF DeleteDm, less, e, d
<1> QED
  BY <1>1, <1>2

LEMMA LoadApart ==
  ASSUME NEW X, ConfigClosed(X), NEW d \in X, Sound(d), NEW storage \in BOOLEAN
  PROVE  LET r == Load(d, storage)
         IN  /\ r.steps \in Seq(X) /\ r.steps # <<>>
             /\ Last(r.steps).acl = d.acl /\ Last(r.steps).aclSize = d.aclSize
<1> DEFINE r == Load(d, storage)
           After(steps, c) == IF storage THEN StoreConfig(steps, c) ELSE steps
           Fine(steps) == /\ steps \in Seq(X) /\ steps # <<>>
                          /\ Last(steps).acl = d.acl /\ Last(steps).aclSize = d.aclSize
<1>1. d \in Disks
  BY DEF ConfigClosed
<1>2. PICK ok, c : \/ c \in Configs /\ r = Loaded(c, ok, After(<<d>>, c))
                   \/ r = Loaded(c, ok, <<d>>)
                   \/ c \in Configs /\ r = Loaded(c, ok, After(DeleteStored(d), c))
  <2>1. d.param.version = "v1" => Adapted(d) \in Configs
    BY <1>1, AdaptedWhole DEF Wholes
  <2>2. Zero \in Configs /\ Default \in Configs
    BY FixedConfigs DEF Wholes
  <2> DEFINE v1 == IF storage THEN Adapted(d) ELSE Zero
  <2>3. \/ d.param.version = "v1" /\ r = Loaded(v1, TRUE, After(<<d>>, v1))
        \/ r = Loaded(Default, TRUE, After(<<d>>, Default))
        \/ r = Loaded(Default, FALSE, After(<<d>>, Default))
        \/ r = Loaded(Zero, FALSE, <<d>>)
        \/ r = Loaded(Default, FALSE, After(DeleteStored(d), Default))
        \/ r = Loaded(d.param, TRUE, <<d>>)
    BY <1>1, LoadCases
  <2>4. d.param.version = "v1" => v1 \in Configs
    BY <2>1, <2>2
  <2> HIDE DEF v1, After, r
  <2> QED
    BY <2>2, <2>3, <2>4
<1>3. Fine(<<d>>)
  BY OneStep
<1>4. Fine(DeleteStored(d))
  BY DeleteApart
<1>5. ASSUME NEW steps, Fine(steps), c \in Configs
      PROVE  Fine(After(steps, c))
  BY <1>5, StoreConfigApart
<1> HIDE DEF r, After
<1>6. ASSUME NEW steps, Fine(steps), r = Loaded(c, ok, steps)
      PROVE  Fine(r.steps)
  <2>1. r.steps = steps
    BY <1>6 DEF Loaded
  <2> QED
    BY <1>6, <2>1
<1> HIDE DEF Fine
<1>7. Fine(r.steps)
  BY <1>2, <1>3, <1>4, <1>5, <1>6
<1> QED
  BY <1>7 DEF Fine, r

----------------------------------------------------------------------------
(* The invariant.                                                           *)

Filled(a) == a.n = Len(a.list)
AclSafe(d) ==
  /\ Filled(d.acl)
  /\ d.aclSize = NoSize => d.acl = NoAcl
AclKnown(d, m) ==
  /\ AclSafe(d)
  /\ d.aclSize # NoSize => ~AclTorn(d)
  /\ Filled(m.acl)
  /\ m.session # "off" => d.aclSize # NoSize /\ d.aclSize = AclLength(d.acl)
  /\ m.session \in {"none", "dm"} => d.acl = m.acl
AclInv == AclKnown(disk, mem)

\* The storages with the present access rights, and those with others.
Alike == {d \in Disks : d.acl = disk.acl /\ d.aclSize = disk.aclSize}
Safes == {d \in Disks : AclSafe(d)}

LEMMA AlikeClosed ==
  ASSUME disk \in Disks
  PROVE  /\ ConfigClosed(Alike) /\ disk \in Alike
         /\ <<disk>> \in Seq(Alike) /\ <<disk>> # <<>> /\ Last(<<disk>>) = disk
<1>1. ConfigClosed(Alike) /\ disk \in Alike
  BY DEF ConfigClosed, Alike
<1> QED
  BY <1>1, OneStep

LEMMA NoMemoryAcl == NoMemory.acl = NoAcl /\ NoMemory.session = "off" /\ Filled(NoAcl)
<1>1. NoMemory.acl = NoAcl /\ NoMemory.session = "off"
  BY DEF NoMemory
<1>2. Len(<<>>) = 0
  OBVIOUS
<1> QED
  BY <1>1, <1>2, NoAclType DEF Filled

LEMMA AclTornType ==
  ASSUME NEW d \in Disks
  PROVE  /\ AclTorn(d) \in BOOLEAN /\ AclLength(d.acl) \in Nat /\ AclLength(d.acl) # NoSize
         /\ d.aclSize = AclLength(d.acl) => ~AclTorn(d)
<1>1. d.aclSize \in Int /\ AclLength(d.acl) \in Nat
  BY DiskFields, AclLengthType
<1> QED
  BY <1>1 DEF AclTorn, NoSize

\* A handler that leaves the stored access rights alone.
LEMMA AclKept ==
  ASSUME AclInv, disk \in Disks, NEW steps \in Seq(Alike), steps # <<>>, NEW m,
         m.acl = mem.acl, m.session # "off" => mem.session # "off",
         m.session \in {"none", "dm"} => mem.session \in {"none", "dm"},
         Do(steps, m)
  PROVE  AclInv'
<1>1. disk' \in Alike /\ (mem' = m \/ mem' = NoMemory)
  BY DoIn, LastIn
<1>2. disk'.acl = disk.acl /\ disk'.aclSize = disk.aclSize
  BY <1>1 DEF Alike
<1>3. AclKnown(disk, m) /\ AclKnown(disk, NoMemory)
  BY NoMemoryAcl DEF AclInv, AclKnown
<1>4. \A n : AclKnown(disk, n) => AclKnown(disk', n)
  BY <1>2 DEF AclKnown, AclSafe, AclTorn
<1> QED
  BY <1>1, <1>3, <1>4 DEF AclInv

LEMMA AclSame ==
  ASSUME AclInv, disk' = disk,
         \/ mem' = NoMemory
         \/ /\ mem'.acl = mem.acl
            /\ mem'.session # "off" => mem.session # "off"
            /\ mem'.session \in {"none", "dm"} => mem.session \in {"none", "dm"}
  PROVE  AclInv'
BY NoMemoryAcl DEF AclInv, AclKnown

LEMMA StoreAclSafe ==
  ASSUME NEW steps \in Seq(Safes), steps # <<>>, NEW a \in Acls, Filled(a)
  PROVE  LET r == StoreAcl(steps, a)
         IN  /\ r \in Seq(Safes) /\ r # <<>>
             /\ Last(r).acl = a /\ Last(r).aclSize = AclLength(a)
<1> DEFINE d == Last(steps)
           s == [d EXCEPT !.aclSize = AclLength(a)]
           t == [s EXCEPT !.acl = a]
<1>1. d \in Disks /\ AclSafe(d)
  BY LastIn DEF Safes
<1>2. AclLength(a) \in Nat /\ AclLength(a) \in Int /\ AclLength(a) # NoSize /\ PaddedAcl(a) = a
  <2>1. AclLength(a) \in Nat
    BY AclLengthType
  <2> QED
    BY <2>1, PaddedAclType DEF NoSize, Filled
<1> HIDE DEF d
<1>3. s \in Disks /\ s.acl = d.acl /\ s.aclSize = AclLength(a)
  BY <1>1, <1>2, DiskFields
<1> HIDE DEF s
<1>4. t \in Disks /\ t.acl = a /\ t.aclSize = AclLength(a)
  BY <1>2, <1>3, DiskFields
<1> HIDE DEF t
<1>5. s \in Safes /\ t \in Safes
  BY <1>1, <1>2, <1>3, <1>4 DEF Safes, AclSafe
<1>6. StoreAcl(steps, a) = steps \o <<s, t>>
  BY <1>2 DEF StoreAcl, PaddedAcl, s, t, d
<1>7. /\ StoreAcl(steps, a) \in Seq(Safes) /\ StoreAcl(steps, a) # <<>>
      /\ Last(StoreAcl(steps, a)) = t
  BY <1>5, <1>6, TwoMore
<1> QED
  BY <1>4, <1>7

\* One that stores those in memory.
LEMMA AclStored ==
  ASSUME NoTornAcl, ~AclTorn(disk), NEW steps \in Seq(Safes), steps # <<>>,
         NEW m \in Mems, Filled(m.acl),
         Last(steps).acl = m.acl, Last(steps).aclSize = AclLength(m.acl),
         Do(steps, m)
  PROVE  AclInv'
<1>1. CASE disk' = Last(steps) /\ mem' = m
  <2> DEFINE last == Last(steps)
  <2>1. last \in Disks /\ AclSafe(last) /\ last.acl = m.acl /\ last.aclSize = AclLength(last.acl)
    BY LastIn DEF Safes
  <2>2. disk' = last
    BY <1>1
  <2> HIDE DEF last
  <2>3. AclKnown(last, m)
    BY <2>1, AclTornType DEF AclKnown
  <2> QED
    BY <1>1, <2>2, <2>3 DEF AclInv
<1>2. CASE /\ disk' \in Safes /\ mem' = NoMemory
           /\ AclTorn(disk') => AclTorn(disk) \/ "aclTorn" \in Deviations
  <2>1. AclSafe(disk') /\ ~AclTorn(disk')
    BY <1>2 DEF Safes, NoTornAcl
  <2> QED
    BY <1>2, <2>1, NoMemoryAcl DEF AclInv, AclKnown
<1> QED
  BY <1>1, <1>2, DoIn

----------------------------------------------------------------------------
(* What each handler does to it.                                            *)

LEMMA ObjectRegisterAcl ==
  ASSUME NoTornAcl, StorageInv, AclInv, ObjectRegister, mem' \in Mems
  PROVE  AclInv'
<1> DEFINE loaded == Load(disk, TRUE)
           config == IF loaded.ok THEN loaded.config ELSE WithoutDm(loaded.config)
           steps == IF loaded.ok THEN loaded.steps ELSE DeleteDm(loaded.steps, loaded.config)
           rights == LoadAcl(steps)
           listed == [security |-> FirstIds(config.nsec), server |-> FirstIds(config.nsrv),
                      acl |-> FirstIds(rights.acl.n)]
           m == [config |-> config, acl |-> rights.acl, session |-> "none", listed |-> listed]
<1>1. Do(rights.steps, m)
  BY DEF ObjectRegister
<1>2. loaded.config \in Wholes /\ disk \in Disks /\ Sound(disk)
  BY PresentIn, LoadAtStart DEF StorageInv
<1>3. /\ loaded.steps \in Seq(Alike) /\ loaded.steps # <<>>
      /\ Last(loaded.steps).acl = disk.acl /\ Last(loaded.steps).aclSize = disk.aclSize
  BY <1>2, AlikeClosed, LoadApart
<1> HIDE DEF loaded
<1>4. /\ steps \in Seq(Alike) /\ steps # <<>>
      /\ Last(steps).acl = disk.acl /\ Last(steps).aclSize = disk.aclSize
  BY <1>2, <1>3, AlikeClosed, DeleteApart
<1> HIDE DEF steps, config
<1>5. m.acl = rights.acl /\ m.session = "none"
  OBVIOUS
<1> HIDE DEF listed
<1>6. \A x \in Alike : x \in Safes
  BY DEF Alike, Safes, AclInv, AclKnown, AclSafe
<1>7. steps \in Seq(Safes)
  BY <1>4, <1>6
<1>8. NoAcl \in Acls /\ Filled(NoAcl)
  BY NoAclType, NoMemoryAcl
<1>9. AclLength(disk.acl) \in Nat /\ disk.aclSize \in Int
  BY <1>2, DiskFields, AclLengthType
<1>10. ~On
  BY DEF ObjectRegister
<1> HIDE DEF m
<1>11. CASE disk.aclSize > AclLength(disk.acl) \/ disk.aclSize = NoSize
  <2>1. rights = [acl |-> NoAcl, steps |-> StoreAcl(steps, NoAcl)]
    BY <1>4, <1>9, <1>11 DEF LoadAcl
  <2> DEFINE all == StoreAcl(steps, NoAcl)
  <2>2. /\ all \in Seq(Safes) /\ all # <<>>
        /\ Last(all).acl = NoAcl /\ Last(all).aclSize = AclLength(NoAcl)
    BY <1>4, <1>7, <1>8, StoreAclSafe
  <2>3. m.acl = NoAcl /\ Do(all, m)
    BY <1>1, <1>5, <2>1
  <2>4. CASE disk.aclSize # NoSize
    <3>1. ~AclTorn(disk)
      BY <2>4 DEF AclInv, AclKnown
    <3> HIDE DEF all, rights
    <3>2. CASE mem' = m
      <4>1. m \in Mems
        BY <3>2
      <4> QED
        BY <4>1, <1>8, <2>2, <2>3, <3>1, AclStored
    <3>3. CASE mem' # m
      <4>1. /\ disk' \in Safes /\ mem' = NoMemory
            /\ AclTorn(disk') => AclTorn(disk) \/ "aclTorn" \in Deviations
        BY <2>2, <2>3, <3>3, DoIn
      <4> QED
        BY <3>1, <4>1, NoMemoryAcl DEF AclInv, AclKnown, Safes, NoTornAcl
    <3> QED
      BY <3>2, <3>3
  <2>5. CASE disk.aclSize = NoSize
    <3> DEFINE Empty == {d \in Disks : d.acl = NoAcl /\ d.aclSize \in {NoSize, AclLength(NoAcl)}}
               d == Last(steps)
               s == [d EXCEPT !.aclSize = AclLength(NoAcl)]
               t == [s EXCEPT !.acl = NoAcl]
    <3>1. disk.acl = NoAcl
      BY <2>5 DEF AclInv, AclKnown, AclSafe
    <3>2. \A x \in Alike : x \in Empty
      BY <2>5, <3>1 DEF Alike
    <3>3. steps \in Seq(Empty) /\ d \in Empty
      BY <1>4, <3>2, LastIn
    <3>4. AclLength(NoAcl) \in Int /\ PaddedAcl(NoAcl) = NoAcl
      BY <1>8, AclLengthType, PaddedAclType DEF Filled
    <3> HIDE DEF d
    <3>5. s \in Disks /\ s.acl = NoAcl /\ s.aclSize = AclLength(NoAcl)
      BY <3>3, <3>4, DiskFields
    <3> HIDE DEF s
    <3>6. t \in Disks /\ t.acl = NoAcl /\ t.aclSize = AclLength(NoAcl)
      BY <1>8, <3>5, DiskFields
    <3> HIDE DEF t
    <3>7. s \in Empty /\ t \in Empty
      BY <3>5, <3>6
    <3>8. all = steps \o <<s, t>>
      BY <3>4 DEF StoreAcl, PaddedAcl, s, t, d
    <3> HIDE DEF all, Empty
    <3>9. all \in Seq(Empty) /\ all # <<>> /\ Last(all) = t
      BY <3>3, <3>7, <3>8, TwoMore
    <3>10. \/ disk' = t /\ mem' = m
           \/ disk' \in Empty /\ mem' = NoMemory
      BY <2>3, <3>9, DoIn
    <3>11. CASE disk' = t /\ mem' = m
      <4>1. AclKnown(t, m)
        BY <1>8, <2>3, <3>6, AclTornType DEF AclKnown, AclSafe
      <4> QED
        BY <3>11, <4>1 DEF AclInv
    <3>12. CASE disk' \in Empty /\ mem' = NoMemory
      <4>1. ASSUME NEW e \in Empty
            PROVE  AclKnown(e, NoMemory)
        <5>1. e \in Disks /\ e.acl = NoAcl /\ e.aclSize \in {NoSize, AclLength(NoAcl)}
          BY DEF Empty
        <5>2. e.aclSize # NoSize => ~AclTorn(e)
          BY <5>1, AclTornType
        <5> QED
          BY <1>8, <5>1, <5>2, NoMemoryAcl DEF AclKnown, AclSafe
      <4> QED
        BY <3>12, <4>1 DEF AclInv
    <3> QED
      BY <3>10, <3>11, <3>12
  <2> QED
    BY <2>4, <2>5
<1>12. CASE disk.aclSize # NoSize /\ disk.aclSize < AclLength(disk.acl)
  BY <1>12 DEF AclInv, AclKnown, AclTorn
<1>13. CASE disk.aclSize # NoSize /\ disk.aclSize = AclLength(disk.acl)
  <2>1. rights = [acl |-> disk.acl, steps |-> steps]
    BY <1>4, <1>9, <1>13 DEF LoadAcl
  <2>2. m.acl = disk.acl /\ Do(steps, m)
    BY <1>1, <1>5, <2>1
  <2> HIDE DEF rights
  <2>3. disk' \in Alike /\ (mem' = m \/ mem' = NoMemory)
    BY <1>4, <2>2, DoIn, LastIn
  <2>4. ASSUME NEW e \in Alike
        PROVE  AclKnown(e, m) /\ AclKnown(e, NoMemory)
    <3>1. e \in Disks /\ e.acl = disk.acl /\ e.aclSize = disk.aclSize
      BY DEF Alike
    <3>2. ~AclTorn(e)
      BY <1>13, <3>1, AclTornType
    <3>3. AclSafe(disk)
      BY DEF AclInv, AclKnown
    <3> QED
      BY <1>5, <1>13, <2>2, <3>1, <3>2, <3>3, NoMemoryAcl DEF AclKnown, AclSafe
  <2> QED
    BY <2>3, <2>4 DEF AclInv
<1> QED
  BY <1>9, <1>11, <1>12, <1>13

LEMMA RegistrationAcl ==
  ASSUME StorageInv, AclInv, mem.session \in {"none", "dm"}, \E c, m : RegistrationStored(c, m)
  PROVE  AclInv'
<1>1. PICK c, m : RegistrationStored(c, m)
  OBVIOUS
<1> DEFINE steps == StoreConfig(<<disk>>, c)
<1>2. c \in Configs /\ m.acl = mem.acl /\ Do(steps, m) /\ disk \in Disks
  BY <1>1 DEF RegistrationStored, Wholes, StorageInv, TypeInv
<1>3. steps \in Seq(Alike) /\ steps # <<>>
  BY <1>2, AlikeClosed, StoreConfigApart
<1> HIDE DEF steps
<1> QED
  BY <1>2, <1>3, AclKept

LEMMA SetLifetimeAcl ==
  ASSUME StorageInv, AclInv, NEW life \in Nat, SetLifetime(life)
  PROVE  AclInv'
<1> DEFINE r == Load(disk, FALSE)
           stored == WithLifetime(r.config, life)
           m == IF On THEN [mem EXCEPT !.config = WithLifetime(mem.config, life)] ELSE mem
           steps == StoreConfig(r.steps, stored)
<1>1. Do(steps, m) \/ Do(r.steps, mem)
  BY DEF SetLifetime
<1>2. disk \in Disks /\ Sound(disk) /\ mem \in Mems /\ mem.config \in Wholes
  BY DEF StorageInv, TypeInv, Agree
<1>3. stored \in Configs
  BY LifetimeLoaded DEF Wholes
<1>4. r.steps \in Seq(Alike) /\ r.steps # <<>>
  BY <1>2, AlikeClosed, LoadApart
<1> HIDE DEF r, stored
<1>5. steps \in Seq(Alike) /\ steps # <<>>
  BY <1>2, <1>3, <1>4, AlikeClosed, StoreConfigApart
<1>6. m.acl = mem.acl /\ m.session = mem.session
  <2>1. WithLifetime(mem.config, life) \in Configs
    BY <1>2, WithLifetimeWhole DEF Wholes
  <2> QED
    BY <1>2, <2>1, MemFields
<1> HIDE DEF steps, m
<1>7. CASE Do(steps, m)
  BY <1>2, <1>5, <1>6, <1>7, AclKept
<1>8. CASE Do(r.steps, mem)
  BY <1>2, <1>4, <1>8, AclKept
<1> QED
  BY <1>1, <1>7, <1>8

LEMMA WriteLifetimeAcl ==
  ASSUME StorageInv, AclInv, NEW id \in Nat, NEW life \in Nat, WriteLifetime(id, life)
  PROVE  AclInv'
<1> DEFINE r == Load(disk, FALSE)
           changed == LifetimeStored # life
           c == mem.config
           start == <<disk>>
           live == WithLifetime(c, life)
           steps == IF changed THEN StoreConfig(start, live) ELSE start
           base == IF changed THEN live ELSE c
           config == Written1(base, id, life)
           m == [mem EXCEPT !.config = config]
           all == StoreConfig(steps, config)
<1>1. mem.session = "dm" /\ c.version = "v2"
  BY InBootstrap DEF WriteLifetime, InSession
<1>2. r.config = c /\ r.steps = start
  BY <1>1, LoadWhole
<1>3. Do(all, m)
  BY <1>2 DEF WriteLifetime, Written1
<1>4. disk \in Disks /\ mem \in Mems /\ c \in Wholes
  BY <1>1, PresentConfig DEF StorageInv, TypeInv
<1> HIDE DEF r, changed, c
<1>5. live \in Wholes
  BY <1>4, WithLifetimeWhole
<1> HIDE DEF live
<1>6. base \in Wholes
  BY <1>4, <1>5
<1>7. steps \in Seq(Alike) /\ steps # <<>>
  BY <1>4, <1>5, AlikeClosed, StoreConfigApart DEF Wholes
<1> HIDE DEF steps, base
<1>8. config \in Configs
  BY <1>6, Written1Whole DEF Wholes
<1> HIDE DEF config
<1>9. all \in Seq(Alike) /\ all # <<>>
  BY <1>4, <1>7, <1>8, AlikeClosed, StoreConfigApart
<1> HIDE DEF all
<1>10. m.acl = mem.acl /\ m.session = mem.session
  BY <1>4, <1>8, MemFields
<1> HIDE DEF m
<1> QED
  BY <1>3, <1>4, <1>9, <1>10, AclKept

LEMMA DeleteDmCredentialsAcl ==
  ASSUME StorageInv, AclInv, DeleteDmCredentials
  PROVE  AclInv'
<1> DEFINE start == <<disk>>
           c == mem.config
           steps == DeleteDm(start, c)
           listed == [mem.listed EXCEPT !["server"] = {}, !["security"] = @ \ DmInstances(c)]
           m == [mem EXCEPT !.config = WithoutDm(c), !.session = "none", !.listed = listed]
<1>1. mem.session \in {"none", "dm"} /\ Do(steps, m)
  BY DEF DeleteDmCredentials
<1>2. mem \in Mems /\ c \in Wholes /\ disk \in Disks
  BY DEF StorageInv, TypeInv, Agree
<1>3. m.acl = mem.acl
  BY <1>2 DEF Mems
<1>4. start \in Seq(Alike) /\ start # <<>> /\ ConfigClosed(Alike)
  BY <1>2, AlikeClosed
<1> HIDE DEF start, c, m
<1>5. steps \in Seq(Alike) /\ steps # <<>>
  BY <1>2, <1>4, DeleteApart
<1> HIDE DEF steps
<1> QED
  BY <1>1, <1>2, <1>3, <1>5, AclKept

LEMMA BootstrapDoneAcl ==
  ASSUME NoTornAcl, StorageInv, AclInv, BootstrapDone
  PROVE  AclInv'
<1> DEFINE servers == {mem.config.sec[i].server : i \in {j \in DOMAIN mem.config.sec :
                                                           ~mem.config.sec[j].boot}}
           keyed == [disk EXCEPT !.keys = @ \cup servers]
           config == mem.config
           start == <<disk, keyed>>
           stored == StoreConfig(start, config)
           steps == StoreAcl(stored, mem.acl)
           m == [mem EXCEPT !.session = "none"]
<1>1. InSession("bootstrap") /\ servers = ServerIds(config) /\ Do(steps, m)
  BY DEF BootstrapDone
<1>2. config \in Configs /\ disk \in Disks /\ mem \in Mems /\ mem.acl \in Acls
  BY MemFields DEF StorageInv, TypeInv
<1>3. servers \in SUBSET Nat
  <2>1. \A i \in DOMAIN config.srv : config.srv[i] \in ServerEntries
    BY <1>2, ConfigFields
  <2>2. ServerIds(config) \in SUBSET Nat
    BY <2>1 DEF ServerIds, ServerEntries
  <2> QED
    BY <1>1, <2>2
<1> HIDE DEF servers
<1>4. keyed \in Disks /\ keyed.acl = disk.acl /\ keyed.aclSize = disk.aclSize
  BY <1>2, <1>3, DiskFields
<1> HIDE DEF keyed
<1>5. disk \in Safes /\ keyed \in Safes /\ ConfigClosed(Safes)
  BY <1>2, <1>4 DEF Safes, AclSafe, AclInv, AclKnown, ConfigClosed
<1>6. start \in Seq(Safes) /\ start # <<>>
  BY <1>5, TwoSteps
<1> HIDE DEF start, config
<1>7. stored \in Seq(Safes) /\ stored # <<>>
  BY <1>2, <1>5, <1>6, StoreConfigApart
<1> HIDE DEF stored
<1>8. Filled(mem.acl) /\ ~AclTorn(disk)
  BY <1>1 DEF AclInv, AclKnown, InSession
<1>9. /\ steps \in Seq(Safes) /\ steps # <<>>
      /\ Last(steps).acl = mem.acl /\ Last(steps).aclSize = AclLength(mem.acl)
  BY <1>2, <1>7, <1>8, StoreAclSafe
<1> HIDE DEF steps
<1>10. m \in Mems /\ m.acl = mem.acl
  BY <1>2 DEF Mems, Sessions
<1> HIDE DEF m
<1> QED
  BY <1>1, <1>8, <1>9, <1>10, AclStored

LEMMA WriteAclAcl ==
  ASSUME NoTornAcl, StorageInv, AclInv, NEW id \in Nat, NEW good \in BOOLEAN, WriteAcl(id, good)
  PROVE  AclInv'
<1> DEFINE start == <<disk>>
           entered == WithEntry(mem.acl, id)
           rights == IF good THEN WithRight(entered, id) ELSE entered
           once == StoreAcl(start, entered)
           steps == IF InSession("bootstrap") THEN start
                    ELSE IF good THEN StoreAcl(once, rights) ELSE once
           listed == ListedAfter("acl", id, good)
           m == [mem EXCEPT !.listed = listed]
           n == [m EXCEPT !.acl = rights]
<1>1. /\ mem.session \in {"bootstrap", "dm"} /\ disk \in Disks /\ mem \in Mems /\ mem.acl \in Acls
  BY MemFields DEF StorageInv, TypeInv, WriteAcl
<1>2. Do(steps, n) \/ Do(start, m)
  BY DEF WriteAcl
<1>3. listed \in [Objects -> SUBSET Nat]
  BY ListedAfterType DEF StorageInv, Objects
<1>4. Filled(mem.acl) /\ ~AclTorn(disk) /\ AclSafe(disk)
  BY <1>1 DEF AclInv, AclKnown
<1>5. entered \in Acls /\ Has(entered.list, id) /\ Filled(entered)
  BY <1>1, <1>4, WithEntryIn DEF Filled
<1> HIDE DEF entered, listed
<1>6. rights \in Acls /\ Filled(rights)
  BY <1>5, WithRightIn DEF Filled
<1>7. ~good => rights = entered
  OBVIOUS
<1>8. start \in Seq(Alike) /\ start # <<>> /\ start \in Seq(Safes)
  <2>1. disk \in Safes
    BY <1>1, <1>4 DEF Safes
  <2> QED
    BY <1>1, <2>1, AlikeClosed, OneStep
<1> HIDE DEF rights
<1>9. m \in Mems /\ m.acl = mem.acl /\ m.session = mem.session
  BY <1>1, <1>3, MemFields
<1> HIDE DEF m
<1>10. n \in Mems /\ n.acl = rights /\ n.session = mem.session
  BY <1>6, <1>9, MemFields
<1> HIDE DEF n
<1>11. CASE Do(start, m)
  <2> HIDE DEF start
  <2> QED
    BY <1>1, <1>8, <1>9, <1>11, AclKept
<1>12. CASE Do(steps, n)
  <2>1. CASE InSession("bootstrap")
    <3>1. Do(start, n) /\ n.session = "bootstrap"
      BY <1>10, <1>12, <2>1 DEF InSession
    <3> HIDE DEF start
    <3>2. disk' \in Alike /\ (mem' = n \/ mem' = NoMemory)
      BY <1>8, <3>1, DoIn, LastIn
    <3>3. ASSUME NEW e \in Alike
          PROVE  AclKnown(e, n) /\ AclKnown(e, NoMemory)
      BY <1>1, <1>6, <1>10, <3>1, NoMemoryAcl DEF Alike, AclInv, AclKnown, AclSafe, AclTorn
    <3> QED
      BY <3>2, <3>3 DEF AclInv
  <2>2. CASE ~InSession("bootstrap")
    <3> HIDE DEF start
    <3>1. /\ once \in Seq(Safes) /\ once # <<>>
          /\ Last(once).acl = entered /\ Last(once).aclSize = AclLength(entered)
      BY <1>5, <1>8, StoreAclSafe
    <3> HIDE DEF once
    <3>2. /\ StoreAcl(once, rights) \in Seq(Safes) /\ StoreAcl(once, rights) # <<>>
          /\ Last(StoreAcl(once, rights)).acl = rights
          /\ Last(StoreAcl(once, rights)).aclSize = AclLength(rights)
      BY <1>6, <3>1, StoreAclSafe
    <3>3. /\ steps \in Seq(Safes) /\ steps # <<>>
          /\ Last(steps).acl = rights /\ Last(steps).aclSize = AclLength(rights)
      BY <1>7, <2>2, <3>1, <3>2
    <3> HIDE DEF steps
    <3> QED
      BY <1>4, <1>6, <1>10, <1>12, <3>3, AclStored
  <2> QED
    BY <2>1, <2>2
<1> QED
  BY <1>2, <1>11, <1>12

LEMMA DeleteAclAcl ==
  ASSUME NoTornAcl, StorageInv, AclInv, NEW id \in Nat, DeleteAcl(id)
  PROVE  AclInv'
<1> DEFINE start == <<disk>>
           acl == WithoutEntry(mem.acl, id)
           steps == StoreAcl(start, acl)
           listed == [mem.listed EXCEPT !["acl"] = mem.listed["acl"] \ {id}]
           m == [mem EXCEPT !.acl = acl, !.listed = listed]
<1>1. mem.session = "dm" /\ disk \in Disks /\ mem \in Mems /\ mem.acl \in Acls
  BY MemFields DEF StorageInv, TypeInv, DeleteAcl, InSession
<1>2. Do(steps, m)
  BY DEF DeleteAcl
<1>3. listed \in [Objects -> SUBSET Nat]
  BY <1>1, MemFields DEF Objects
<1>4. Filled(mem.acl) /\ ~AclTorn(disk) /\ AclSafe(disk)
  BY <1>1 DEF AclInv, AclKnown
<1>5. acl \in Acls /\ Filled(acl)
  BY <1>1, <1>4, WithoutEntryIn DEF Filled
<1>6. start \in Seq(Safes) /\ start # <<>>
  BY <1>1, <1>4, OneStep DEF Safes
<1> HIDE DEF start, acl, listed
<1>7. /\ steps \in Seq(Safes) /\ steps # <<>>
      /\ Last(steps).acl = acl /\ Last(steps).aclSize = AclLength(acl)
  BY <1>5, <1>6, StoreAclSafe
<1> HIDE DEF steps
<1>8. m \in Mems /\ m.acl = acl
  BY <1>1, <1>3, <1>5 DEF Mems
<1> HIDE DEF m
<1> QED
  BY <1>2, <1>4, <1>5, <1>7, <1>8, AclStored

LEMMA AclInvNext ==
  ASSUME NoSecondAccount, NoTornAcl, StorageInv, AclInv, [Next]_vars
  PROVE  AclInv'
<1>1. mem' \in Mems
  BY NextKeeps DEF StepKeeps
<1>2. mem \in Mems
  BY DEF StorageInv, TypeInv
<1>3. \A c, l, s : /\ [mem EXCEPT !.listed = l, !.config = c].acl = mem.acl
                   /\ [mem EXCEPT !.listed = l, !.config = c].session = mem.session
                   /\ [mem EXCEPT !.listed = l].acl = mem.acl
                   /\ [mem EXCEPT !.listed = l].session = mem.session
                   /\ [mem EXCEPT !.session = s].acl = mem.acl
                   /\ [mem EXCEPT !.session = s].session = s
  BY <1>2 DEF Mems
<1>4. CASE ObjectRegister
  BY <1>1, <1>4, ObjectRegisterAcl
<1>5. CASE Free \/ PowerLoss
  BY <1>5, AclSame DEF Free, PowerLoss
<1>6. CASE StartBootstrap
  <2>1. disk' = disk /\ mem.session = "none" /\ mem' = [mem EXCEPT !.session = "bootstrap"]
    BY <1>6 DEF StartBootstrap, InSession
  <2>2. mem'.acl = mem.acl /\ mem'.session = "bootstrap"
    BY <1>3, <2>1
  <2> QED
    BY <2>1, <2>2, AclSame
<1>7. CASE EndSession
  <2>1. disk' = disk /\ mem.session = "dm" /\ mem' = [mem EXCEPT !.session = "none"]
    BY <1>7 DEF EndSession, InSession
  <2>2. mem'.acl = mem.acl /\ mem'.session = "none"
    BY <1>3, <2>1
  <2> QED
    BY <2>1, <2>2, AclSame
<1>8. CASE FromBootstrapServer \/ \E s \in DmServers : DeleteServer(s - 1)
  <2>1. disk' = disk
    BY <1>8 DEF FromBootstrapServer, WriteSecurity, WriteServer, DeleteSecurity, DeleteServer
  <2>2. \/ \E l, c : mem' = [mem EXCEPT !.listed = l, !.config = c]
        \/ \E l : mem' = [mem EXCEPT !.listed = l]
    <3>1. CASE \E s \in DmServers, boot \in BOOLEAN, good \in Outcomes :
                 WriteSecurity(s, boot, good)
      BY <3>1 DEF WriteSecurity
    <3>2. CASE \E s \in DmServers, life \in Bootstrapped, good \in Outcomes :
                 WriteServer(s, life, good)
      BY <3>2 DEF WriteServer
    <3>3. CASE \E id : DeleteSecurity(id) \/ DeleteServer(id)
      BY <3>3 DEF DeleteSecurity, DeleteServer
    <3> QED
      BY <1>8, <3>1, <3>2, <3>3 DEF FromBootstrapServer
  <2>3. mem'.acl = mem.acl /\ mem'.session = mem.session
    <3>1. CASE \E l, c : mem' = [mem EXCEPT !.listed = l, !.config = c]
      <4>1. PICK l, c : mem' = [mem EXCEPT !.listed = l, !.config = c]
        BY <3>1
      <4> QED
        BY <4>1, <1>3
    <3>2. CASE \E l : mem' = [mem EXCEPT !.listed = l]
      <4>1. PICK l : mem' = [mem EXCEPT !.listed = l]
        BY <3>2
      <4> QED
        BY <4>1, <1>3
    <3> QED
      BY <2>2, <3>1, <3>2
  <2> QED
    BY <2>1, <2>3, AclSame
<1>9. CASE BootstrapDone
  BY <1>9, BootstrapDoneAcl
<1>10. CASE \E i \in DmServers : Register(i)
  <2>1. mem.session \in {"none", "dm"}
    BY <1>10 DEF Register, InSession
  <2> QED
    BY <1>10, <2>1, RegisterStores, RegistrationAcl
<1>11. CASE DeleteRegistrationID
  <2>1. mem.session \in {"none", "dm"}
    BY <1>11 DEF DeleteRegistrationID, InSession
  <2> QED
    BY <1>11, <2>1, DeleteRegistrationIDStores, RegistrationAcl
<1>12. CASE DeleteDmCredentials
  BY <1>12, DeleteDmCredentialsAcl
<1>13. CASE \E s \in DmServers, life \in Lifetimes : WriteLifetime(s - 1, life)
  BY <1>13, ConstantTypes, WriteLifetimeAcl
<1>14. CASE \E id \in AclIds, good \in Outcomes : WriteAcl(id, good)
  BY <1>14, ConstantTypes, OutcomeType, WriteAclAcl
<1>15. CASE \E id \in AclIds : DeleteAcl(id)
  BY <1>15, ConstantTypes, DeleteAclAcl
<1>16. CASE \E life \in Lifetimes : SetLifetime(life)
  BY <1>16, ConstantTypes, SetLifetimeAcl
<1>17. CASE UNCHANGED vars
  BY <1>17, AclSame DEF vars
<1> QED
  BY <1>4, <1>5, <1>6, <1>7, <1>8, <1>9, <1>10, <1>11, <1>12, <1>13, <1>14, <1>15, <1>16, <1>17
     DEF Next, FromServer

LEMMA AclInvAlways ==
  ASSUME NoSecondAccount, NoTornAcl
  PROVE  Spec => []AclInv
<1>1. Init => AclInv
  <2> SUFFICES ASSUME Init
               PROVE  AclInv
    OBVIOUS
  <2>1. disk.aclSize = NoSize /\ disk.acl = NoAcl /\ mem = NoMemory
    BY DEF Init
  <2> QED
    BY <2>1, NoMemoryAcl DEF AclInv, AclKnown, AclSafe
<1>2. StorageInv /\ AclInv /\ [Next]_vars => AclInv'
  BY AclInvNext
<1> QED
  BY <1>1, <1>2, StorageInvAlways, PTL DEF Spec

\* Outside a bootstrap a restart would find the access rights that the client works with,
\* for any instances and power losses but one between the size and the content of the
\* access rights, and without a second account (aclConfiguration.c 100-330).
THEOREM AclCorrect ==
  ASSUME NoSecondAccount, NoTornAcl
  PROVE  Spec => []AclStoredAgrees
<1>1. StorageInv /\ AclInv => AclStoredAgrees
  <2> SUFFICES ASSUME StorageInv, AclInv, mem.session \in {"none", "dm"}
               PROVE  LoadAcl(<<disk>>).acl = mem.acl
    BY DEF AclStoredAgrees
  <2>1. disk.aclSize = AclLength(disk.acl) /\ disk.aclSize # NoSize /\ disk.acl = mem.acl
    BY DEF AclInv, AclKnown
  <2>2. AclLength(disk.acl) \in Nat /\ Last(<<disk>>) = disk
    BY AclLengthType, DiskFields, PresentIn DEF StorageInv, TypeInv
  <2>3. LoadAcl(<<disk>>) = [acl |-> disk.acl, steps |-> <<disk>>]
    BY <2>1, <2>2 DEF LoadAcl
  <2> QED
    BY <2>1, <2>3
<1> QED
  BY <1>1, StorageInvAlways, AclInvAlways, PTL

----------------------------------------------------------------------------
(* The instances that are listed.                                           *)

NoGaps == "anyInstance" \notin Deviations

\* The identifiers of a list are those that are listed at the start, as long as
\* no two are the same.
Gapless(list) == \E n \in Nat : IdsOf(list) = FirstIds(n)
Numbers(c) == c.version \in {"v1", "v2"} => Gapless(c.sec) /\ Gapless(c.srv)
Tidy(a) == Gapless(a.list) /\ Distinctly(a.list)
Neat == {d \in Disks : Numbers(d.param) /\ Tidy(d.acl)}

ListedKnown(m) ==
  /\ Numbers(m.config) /\ Tidy(m.acl)
  /\ m.config.version = "v2" => /\ m.listed["security"] \subseteq IdsOf(m.config.sec)
                                /\ m.listed["server"] \subseteq IdsOf(m.config.srv)
  /\ m.listed["acl"] \subseteq IdsOf(m.acl.list)
  /\ \E k \in Nat : m.listed["acl"] = FirstIds(k)
ListedInv == disk \in Neat /\ ListedKnown(mem)

LEMMA FirstIdsProperties ==
  /\ FirstIds(0) = {}
  /\ \A n \in Nat : /\ Cardinality(FirstIds(n)) = n
                    /\ FirstIds(n) \in SUBSET Nat
                    /\ \A i \in Nat : i \in FirstIds(n) <=> i < n
                    /\ FirstIds(n + 1) = FirstIds(n) \cup {n}
                    /\ FirstIds(n + 1) \ {n} = FirstIds(n)
<1>1. \A n \in Nat : /\ FirstIds(n) \in SUBSET Nat
                     /\ \A i \in Nat : i \in FirstIds(n) <=> i < n
  BY DEF FirstIds
<1>2. \A n \in Nat : /\ FirstIds(n + 1) = FirstIds(n) \cup {n}
                     /\ FirstIds(n + 1) \ {n} = FirstIds(n)
  BY DEF FirstIds
<1>3. ASSUME NEW n \in Nat
      PROVE  Cardinality(FirstIds(n)) = n
  <2>1. 0 \in Int /\ n - 1 \in Int /\ (0 > n - 1 => n = 0) /\ (n - 1) - 0 + 1 = n
    OBVIOUS
  <2>2. Cardinality(0..(n - 1)) = IF 0 > n - 1 THEN 0 ELSE (n - 1) - 0 + 1
    BY <2>1, FS_Interval
  <2> QED
    BY <2>1, <2>2 DEF FirstIds
<1>4. FirstIds(0) = {}
  BY DEF FirstIds
<1> QED
  BY <1>1, <1>2, <1>3, <1>4

\* No two entries have the same identifier: there are as many of both.
LEMMA DistinctIds ==
  ASSUME NEW S, NEW list \in Seq(S), Distinctly(list)
  PROVE  Cardinality(IdsOf(list)) = Len(list)
<1> DEFINE n == Len(list)
           ids == IdsOf(list)
           f == [i \in 1..n |-> list[i].id]
<1>1. n \in Nat /\ DOMAIN list = 1..n
  OBVIOUS
<1>2. \A i, j \in 1..n : list[i].id = list[j].id => i = j
  BY <1>1 DEF Distinctly
<1>3. ids = {list[i].id : i \in 1..n}
  BY <1>1 DEF IdsOf
<1> HIDE DEF n, ids
<1>4. f \in Bijection(1..n, ids)
  <2>1. f \in [1..n -> ids]
    BY <1>3
  <2>2. \A i, j \in 1..n : f[i] = f[j] => i = j
    BY <1>2
  <2>3. \A x \in ids : \E i \in 1..n : f[i] = x
    BY <1>3
  <2> HIDE DEF f
  <2> QED
    BY <2>1, <2>2, <2>3 DEF Bijection, Injection, Surjection, IsInjective
<1>5. IsFiniteSet(1..n) /\ Cardinality(1..n) = n
  <2>1. 1 \in Int /\ n \in Int /\ (1 > n => n = 0) /\ n - 1 + 1 = n
    BY <1>1
  <2> QED
    BY <2>1, FS_Interval
<1>6. ExistsBijection(1..n, ids)
  BY <1>4 DEF ExistsBijection
<1>7. Cardinality(ids) = Cardinality(1..n)
  BY <1>5, <1>6, FS_Bijection
<1> QED
  BY <1>5, <1>7 DEF n, ids

LEMMA GaplessFirst ==
  ASSUME NEW S, NEW list \in Seq(S), Distinctly(list), Gapless(list)
  PROVE  IdsOf(list) = FirstIds(Len(list))
<1>1. PICK n \in Nat : IdsOf(list) = FirstIds(n)
  BY DEF Gapless
<1>2. Cardinality(IdsOf(list)) = Len(list)
  BY DistinctIds
<1>3. Cardinality(FirstIds(n)) = n
  BY FirstIdsProperties
<1> QED
  BY <1>1, <1>2, <1>3

\* One more instance, without a gap.
LEMMA RegularAdds ==
  ASSUME NoGaps, NEW n \in Nat, NEW id, Regular(FirstIds(n), id)
  PROVE  /\ \/ id \in FirstIds(n) /\ FirstIds(n) \cup {id} = FirstIds(n)
            \/ id = n /\ FirstIds(n) \cup {id} = FirstIds(n + 1)
         /\ \E k \in Nat : FirstIds(n) \cup {id} = FirstIds(k)
         /\ id # 0 => 0 \in FirstIds(n)
<1>1. id \in FirstIds(n) \/ id = n
  BY FirstIdsProperties DEF Regular, NoGaps
<1>2. FirstIds(n) \cup {n} = FirstIds(n + 1) /\ n + 1 \in Nat
  BY FirstIdsProperties
<1>3. n # 0 => 0 \in FirstIds(n)
  BY DEF FirstIds
<1>4. n = 0 => FirstIds(n) = {}
  BY FirstIdsProperties
<1> DEFINE first == FirstIds(n)
           more == FirstIds(n + 1)
<1>5. id \in first => first \cup {id} = first
  OBVIOUS
<1> QED
  BY <1>1, <1>2, <1>3, <1>4, <1>5

----------------------------------------------------------------------------
(* What is configured.                                                      *)

LEMMA OneId ==
  ASSUME NEW x, x.id = 0
  PROVE  IdsOf(<<x>>) = {0} /\ Gapless(<<x>>)
<1>1. DOMAIN <<x>> = {1} /\ <<x>>[1] = x
  OBVIOUS
<1>2. IdsOf(<<x>>) = {0}
  BY <1>1 DEF IdsOf
<1>3. FirstIds(1) = {0}
  BY DEF FirstIds
<1> QED
  BY <1>2, <1>3 DEF Gapless

LEMMA FixedNumbers ==
  /\ Numbers(Zero) /\ Numbers(Default) /\ Numbers(Absent) /\ Tidy(NoAcl)
  /\ \A S : \A list \in Seq(S) : list = <<>> => IdsOf(list) = {} /\ Gapless(list)
<1>1. ASSUME NEW S, NEW list \in Seq(S), list = <<>>
      PROVE  IdsOf(list) = {} /\ Gapless(list)
  <2>1. DOMAIN list = {}
    BY <1>1
  <2>2. IdsOf(list) = {}
    BY <2>1 DEF IdsOf
  <2> QED
    BY <2>2, FirstIdsProperties DEF Gapless
<1>2. Numbers(Zero) /\ Numbers(Absent)
  BY FixedConfigs DEF Numbers
<1>3. Gapless(Default.srv)
  BY <1>1, FixedConfigs, ConfigFields DEF Wholes
<1>4. Gapless(Default.sec)
  <2>1. Default.sec = <<Security(0, TRUE, 1)>>
    BY DEF Default
  <2> QED
    BY <2>1, OneId DEF Security
<1>5. Tidy(NoAcl)
  <2>1. NoAcl.list = <<>> /\ NoAcl.list \in Seq(AclEntries)
    BY NoAclType, AclFields
  <2>2. Distinctly(NoAcl.list)
    BY <2>1 DEF Distinctly
  <2> QED
    BY <1>1, <2>1, <2>2 DEF Tidy
<1> QED
  BY <1>1, <1>2, <1>3, <1>4, <1>5 DEF Numbers

LEMMA WithoutDmNumbers ==
  ASSUME NEW c \in Wholes
  PROVE  /\ Numbers(WithoutDm(c))
         /\ c.version = "v2" => IdsOf(WithoutDm(c).sec) = {0} /\ c.sec[1].id = 0
<1>1. /\ WithoutDm(c) \in Wholes /\ WithoutDm(c).version = c.version
      /\ WithoutDm(c).srv = <<>>
      /\ c.version = "v2" => WithoutDm(c).sec = <<c.sec[1]>>
  BY WithoutDmWhole
<1>2. c.version \in {"v2", "zero"} /\ (c.version = "v2" => c.sec[1].id = 0)
  BY DEF Wholes, Whole, Security
<1>3. Gapless(WithoutDm(c).srv)
  BY <1>1, FixedNumbers, ConfigFields DEF Wholes
<1>4. c.version = "v2" => IdsOf(WithoutDm(c).sec) = {0} /\ Gapless(WithoutDm(c).sec)
  BY <1>1, <1>2, OneId
<1> QED
  BY <1>1, <1>2, <1>3, <1>4 DEF Numbers

LEMMA WithLifetimeNumbers ==
  ASSUME NEW c \in Wholes, NEW life \in Nat, Numbers(c)
  PROVE  /\ Numbers(WithLifetime(c, life))
         /\ IdsOf(c.srv) \subseteq IdsOf(WithLifetime(c, life).srv)
<1> DEFINE w == WithLifetime(c, life)
<1>1. /\ w.version = c.version /\ w.sec = c.sec
      /\ c.srv # <<>> => IdsOf(w.srv) = IdsOf(c.srv)
      /\ c.srv = <<>> => IdsOf(w.srv) = {0}
  BY WithLifetimeWhole
<1>2. c.srv = <<>> => IdsOf(c.srv) = {}
  BY NoServers DEF Wholes
<1> HIDE DEF w
<1>3. FirstIds(1) = {0}
  BY DEF FirstIds
<1>4. Gapless(c.srv) => Gapless(w.srv)
  BY <1>1, <1>3 DEF Gapless
<1>5. Numbers(w)
  BY <1>1, <1>4 DEF Numbers
<1>6. IdsOf(c.srv) \subseteq IdsOf(w.srv)
  BY <1>1, <1>2
<1> QED
  BY <1>5, <1>6 DEF w

\* The server instance that is written is one of those that are listed.
LEMMA Written1Numbers ==
  ASSUME NEW c \in Wholes, NEW id \in IdsOf(c.srv), NEW life \in Nat, Numbers(c)
  PROVE  /\ Numbers(Written1(c, id, life))
         /\ IdsOf(Written1(c, id, life).srv) = IdsOf(c.srv)
         /\ Written1(c, id, life).sec = c.sec /\ Written1(c, id, life).version = c.version
<1>1. c \in Configs /\ Len(c.srv) \in Nat /\ DOMAIN c.srv = 1..Len(c.srv)
      /\ c.srv \in Seq(ServerEntries)
  BY ConfigFields DEF Wholes
<1>2. Has(c.srv, id)
  BY DEF Has, IdsOf
<1> DEFINE k == Find(c.srv, id)
           entry == [c.srv[k] EXCEPT !.life = life]
           srv == [c.srv EXCEPT ![k] = entry]
           w == [c EXCEPT !.srv = srv]
<1>3. Written1(c, id, life) = w
  BY <1>2 DEF Written1
<1>4. k \in DOMAIN c.srv
  BY <1>2 DEF Has, Find
<1> HIDE DEF k
<1>5. entry \in ServerEntries /\ entry.id = c.srv[k].id /\ entry.server = c.srv[k].server
  <2>1. c.srv[k] \in ServerEntries
    BY <1>1, <1>4
  <2> QED
    BY <2>1 DEF ServerEntries
<1> HIDE DEF entry
<1>6. srv \in [1..Len(c.srv) -> ServerEntries]
  BY <1>1, <1>4, <1>5
<1>7. \A i \in 1..Len(c.srv) : srv[i].id = c.srv[i].id /\ srv[i].server = c.srv[i].server
  BY <1>1, <1>4, <1>5
<1> HIDE DEF srv
<1>8. w.version = c.version /\ w.sec = c.sec /\ IdsOf(w.srv) = IdsOf(c.srv)
  BY <1>6, <1>7, EditedServers
<1> HIDE DEF w
<1> QED
  BY <1>3, <1>8 DEF Numbers, Gapless

----------------------------------------------------------------------------
(* The storage.                                                             *)

LEMMA NeatFields ==
  ASSUME NEW d \in Neat
  PROVE  /\ d \in Disks /\ Numbers(d.param) /\ Tidy(d.acl)
         /\ \A n \in Int : /\ [d EXCEPT !.size = n] \in Neat
                           /\ [d EXCEPT !.aclSize = n] \in Neat
         /\ \A k \in SUBSET Nat : [d EXCEPT !.keys = k] \in Neat
         /\ \A c \in Configs : Numbers(c) => [d EXCEPT !.param = c] \in Neat
         /\ \A a \in Acls : Tidy(a) => [d EXCEPT !.acl = a] \in Neat
<1>1. d \in Disks /\ Numbers(d.param) /\ Tidy(d.acl)
  BY DEF Neat
<1>2. ASSUME NEW e \in Disks, Numbers(e.param), Tidy(e.acl)
      PROVE  e \in Neat
  BY <1>2 DEF Neat
<1>3. ASSUME NEW n \in Int
      PROVE  [d EXCEPT !.size = n] \in Neat /\ [d EXCEPT !.aclSize = n] \in Neat
  <2> DEFINE e == [d EXCEPT !.size = n]
             f == [d EXCEPT !.aclSize = n]
  <2>1. e \in Disks /\ e.param = d.param /\ e.acl = d.acl
    BY <1>1, DiskFields
  <2>2. f \in Disks /\ f.param = d.param /\ f.acl = d.acl
    BY <1>1, DiskFields
  <2> HIDE DEF e, f
  <2> QED
    BY <1>1, <1>2, <2>1, <2>2 DEF e, f
<1>4. ASSUME NEW k \in SUBSET Nat
      PROVE  [d EXCEPT !.keys = k] \in Neat
  <2> DEFINE e == [d EXCEPT !.keys = k]
  <2>1. e \in Disks /\ e.param = d.param /\ e.acl = d.acl
    BY <1>1, DiskFields
  <2> HIDE DEF e
  <2> QED
    BY <1>1, <1>2, <2>1 DEF e
<1>5. ASSUME NEW c \in Configs, Numbers(c)
      PROVE  [d EXCEPT !.param = c] \in Neat
  <2> DEFINE e == [d EXCEPT !.param = c]
  <2>1. e \in Disks /\ e.param = c /\ e.acl = d.acl
    BY <1>1, DiskFields
  <2> HIDE DEF e
  <2> QED
    BY <1>1, <1>2, <1>5, <2>1 DEF e
<1>6. ASSUME NEW a \in Acls, Tidy(a)
      PROVE  [d EXCEPT !.acl = a] \in Neat
  <2> DEFINE e == [d EXCEPT !.acl = a]
  <2>1. e \in Disks /\ e.param = d.param /\ e.acl = a
    BY <1>1, DiskFields
  <2> HIDE DEF e
  <2> QED
    BY <1>1, <1>2, <1>6, <2>1 DEF e
<1> QED
  BY <1>1, <1>3, <1>4, <1>5, <1>6

\* What is stored is numbered, and so is what a power loss leaves on the way.
LEMMA StoreConfigNeat ==
  ASSUME NEW steps \in Seq(Neat), steps # <<>>, NEW c \in Wholes, Numbers(c)
  PROVE  StoreConfig(steps, c) \in Seq(Neat) /\ StoreConfig(steps, c) # <<>>
<1> DEFINE d == Last(steps)
           s == [d EXCEPT !.size = Length(c)]
           t == [s EXCEPT !.param = c]
<1>1. d \in Neat
  BY LastIn
<1>2. c \in Configs /\ Stored(c) = c /\ Length(c) \in Int
  BY StoredWhole, LengthType DEF Wholes, Whole
<1>3. StoreConfig(steps, c) = steps \o <<s, t>>
  BY <1>2 DEF StoreConfig
<1> HIDE DEF d
<1>4. s \in Neat
  BY <1>1, <1>2, NeatFields
<1> HIDE DEF s
<1>5. t \in Neat
  BY <1>2, <1>4, NeatFields
<1> HIDE DEF t
<1> QED
  BY <1>3, <1>4, <1>5, TwoMore

LEMMA StoreAclNeat ==
  ASSUME NEW steps \in Seq(Neat), steps # <<>>, NEW a \in Acls, Filled(a), Tidy(a)
  PROVE  StoreAcl(steps, a) \in Seq(Neat) /\ StoreAcl(steps, a) # <<>>
<1> DEFINE d == Last(steps)
           s == [d EXCEPT !.aclSize = AclLength(a)]
           t == [s EXCEPT !.acl = a]
<1>1. d \in Neat
  BY LastIn
<1>2. AclLength(a) \in Int /\ PaddedAcl(a) = a
  BY AclLengthType, PaddedAclType DEF Filled
<1>3. StoreAcl(steps, a) = steps \o <<s, t>>
  BY <1>2 DEF StoreAcl, PaddedAcl
<1> HIDE DEF d
<1>4. s \in Neat
  BY <1>1, <1>2, NeatFields
<1> HIDE DEF s
<1>5. t \in Neat
  BY <1>4, NeatFields
<1> HIDE DEF t
<1> QED
  BY <1>3, <1>4, <1>5, TwoMore

LEMMA DeleteNeat ==
  /\ \A d \in Neat : DeleteStored(d) \in Seq(Neat) /\ DeleteStored(d) # <<>>
  /\ \A steps \in Seq(Neat), c \in Wholes :
       steps # <<>> => DeleteDm(steps, c) \in Seq(Neat) /\ DeleteDm(steps, c) # <<>>
<1>1. ASSUME NEW d \in Neat
      PROVE  DeleteStored(d) \in Seq(Neat) /\ DeleteStored(d) # <<>>
  <2> DEFINE a == [d EXCEPT !.param = Absent]
             b == [a EXCEPT !.size = NoSize]
  <2>1. a \in Neat
    BY FixedConfigs, FixedNumbers, NeatFields
  <2> HIDE DEF a
  <2>2. b \in Neat
    <3>1. NoSize \in Int
      BY DEF NoSize
    <3> QED
      BY <2>1, <3>1, NeatFields
  <2> HIDE DEF b
  <2>3. DeleteStored(d) = <<d, a, b>>
    BY DEF DeleteStored, a, b
  <2> QED
    BY <2>1, <2>2, <2>3
<1>2. ASSUME NEW steps \in Seq(Neat), NEW c \in Wholes, steps # <<>>
      PROVE  DeleteDm(steps, c) \in Seq(Neat) /\ DeleteDm(steps, c) # <<>>
  <2> DEFINE d == Last(steps)
             k == d.keys \ ServerIds(c)
             e == [d EXCEPT !.keys = k]
             less == Append(steps, e)
  <2>1. d \in Neat
    BY <1>2, LastIn
  <2>2. DeleteDm(steps, c) = StoreConfig(less, WithoutDm(c))
    BY DEF DeleteDm
  <2> HIDE DEF d
  <2>3. k \in SUBSET Nat
    BY <2>1, NeatFields, DiskFields
  <2> HIDE DEF k
  <2>4. e \in Neat
    BY <2>1, <2>3, NeatFields
  <2> HIDE DEF e
  <2>5. less \in Seq(Neat) /\ less # <<>>
    BY <1>2, <2>4
  <2> HIDE DEF less
  <2> QED
    BY <2>2, <2>5, WithoutDmWhole, WithoutDmNumbers, StoreConfigNeat
<1> QED
  BY <1>1, <1>2

LEMMA LoadNeat ==
  ASSUME NEW d \in Neat, Sound(d), NEW storage \in BOOLEAN
  PROVE  LET r == Load(d, storage)
         IN  r.steps \in Seq(Neat) /\ r.steps # <<>> /\ Numbers(r.config)
<1> DEFINE After(steps, c) == IF storage THEN StoreConfig(steps, c) ELSE steps
           Fine(steps) == steps \in Seq(Neat) /\ steps # <<>>
           v1 == IF storage THEN Adapted(d) ELSE Zero
           r == Load(d, storage)
<1>1. d \in Disks /\ Numbers(d.param)
  BY NeatFields
<1>2. Zero \in Wholes /\ Default \in Wholes /\ Numbers(Zero) /\ Numbers(Default)
  BY FixedConfigs, FixedNumbers
<1>3. d.param.version = "v1" => v1 \in Wholes /\ Numbers(v1)
  <2> SUFFICES ASSUME d.param.version = "v1"
               PROVE  v1 \in Wholes /\ Numbers(v1)
    OBVIOUS
  <2> DEFINE c == [d.param EXCEPT !.version = "v2"]
  <2>1. Adapted(d) \in Wholes /\ Adapted(d) \in {Zero, c}
    BY <1>1, AdaptedWhole
  <2>2. c.sec = d.param.sec /\ c.srv = d.param.srv
    BY <1>1, DiskFields DEF Configs
  <2>3. Numbers(c)
    BY <1>1, <2>2 DEF Numbers
  <2> QED
    BY <1>2, <2>1, <2>3
<1>4. Fine(<<d>>) /\ Fine(DeleteStored(d))
  BY OneStep, DeleteNeat
<1>5. ASSUME NEW steps, Fine(steps), NEW c \in Wholes, Numbers(c)
      PROVE  Fine(After(steps, c))
  BY <1>5, StoreConfigNeat
<1>6. \/ d.param.version = "v1" /\ r = Loaded(v1, TRUE, After(<<d>>, v1))
      \/ r = Loaded(Default, TRUE, After(<<d>>, Default))
      \/ r = Loaded(Default, FALSE, After(<<d>>, Default))
      \/ r = Loaded(Zero, FALSE, <<d>>)
      \/ r = Loaded(Default, FALSE, After(DeleteStored(d), Default))
      \/ d.param \in Wholes /\ r = Loaded(d.param, TRUE, <<d>>)
  <2> HIDE DEF r
  <2> QED
    BY <1>1, LoadCases DEF r
<1> HIDE DEF r, After, Fine, v1
<1>7. PICK c, ok, steps : r = Loaded(c, ok, steps) /\ Fine(steps) /\ Numbers(c)
  BY <1>1, <1>2, <1>3, <1>4, <1>5, <1>6
<1>8. r.steps = steps /\ r.config = c
  BY <1>7, LoadedFields
<1> QED
  BY <1>7, <1>8 DEF r, Fine

----------------------------------------------------------------------------
(* The handlers.                                                            *)

LEMMA NoMemoryListed == ListedKnown(NoMemory)
<1>1. /\ NoMemory.config = Zero /\ NoMemory.acl = NoAcl
      /\ NoMemory.listed["acl"] = {} /\ Zero.version = "zero"
  BY DEF NoMemory, Objects, Zero
<1>2. FirstIds(0) = {}
  BY FirstIdsProperties
<1> QED
  BY <1>1, <1>2, FixedNumbers DEF ListedKnown

LEMMA ListedStored ==
  ASSUME NEW steps \in Seq(Neat), steps # <<>>, NEW m, ListedKnown(m), Do(steps, m)
  PROVE  ListedInv'
<1>1. Last(steps) \in Neat
  BY LastIn
<1>2. disk' \in Neat /\ (mem' = m \/ mem' = NoMemory)
  BY <1>1, DoIn
<1> QED
  BY <1>2, NoMemoryListed DEF ListedInv

\* A handler that leaves the storage alone.
LEMMA ListedKept ==
  ASSUME ListedInv, disk' = disk, ListedKnown(mem')
  PROVE  ListedInv'
BY DEF ListedInv

LEMMA ListedConfig ==
  ASSUME ListedKnown(mem), NEW m, m.acl = mem.acl, m.listed = mem.listed,
         Numbers(m.config), m.config.version = mem.config.version,
         IdsOf(mem.config.sec) \subseteq IdsOf(m.config.sec),
         IdsOf(mem.config.srv) \subseteq IdsOf(m.config.srv)
  PROVE  ListedKnown(m)
BY DEF ListedKnown

LEMMA PresentNeat ==
  ASSUME ListedInv
  PROVE  /\ disk \in Neat /\ <<disk>> \in Seq(Neat) /\ <<disk>> # <<>>
         /\ ListedKnown(mem) /\ Numbers(mem.config) /\ Tidy(mem.acl)
<1>1. disk \in Neat /\ ListedKnown(mem)
  BY DEF ListedInv
<1> QED
  BY <1>1, OneStep DEF ListedKnown

\* The instances that are listed at the start are those of the configuration.
LEMMA StartListed ==
  ASSUME NEW c \in Wholes, Numbers(c), NEW a \in Acls, Filled(a), Tidy(a),
         NEW m, m.config = c, m.acl = a,
         m.listed = [security |-> FirstIds(c.nsec), server |-> FirstIds(c.nsrv),
                     acl |-> FirstIds(a.n)]
  PROVE  ListedKnown(m)
<1>1. /\ m.listed["security"] = FirstIds(c.nsec) /\ m.listed["server"] = FirstIds(c.nsrv)
      /\ m.listed["acl"] = FirstIds(a.n)
  OBVIOUS
<1>2. IdsOf(a.list) = FirstIds(a.n) /\ a.n \in Nat
  BY AclFields, GaplessFirst DEF Filled, Tidy
<1>3. CASE c.version = "v2"
  <2>1. /\ c.sec \in Seq(SecurityEntries) /\ c.srv \in Seq(ServerEntries)
        /\ c.nsec = Len(c.sec) /\ c.nsrv = Len(c.srv) /\ Distinctly(c.sec) /\ Distinctly(c.srv)
    BY ConfigFields DEF Wholes, Whole
  <2>2. Gapless(c.sec) /\ Gapless(c.srv)
    BY <1>3 DEF Numbers
  <2>3. IdsOf(c.sec) = FirstIds(c.nsec)
    BY <2>1, <2>2, GaplessFirst
  <2>4. IdsOf(c.srv) = FirstIds(c.nsrv)
    BY <2>1, <2>2, GaplessFirst
  <2> QED
    BY <1>1, <1>2, <2>3, <2>4 DEF ListedKnown
<1> QED
  BY <1>1, <1>2, <1>3 DEF ListedKnown

LEMMA ObjectRegisterListed ==
  ASSUME StorageInv, AclInv, ListedInv, ObjectRegister
  PROVE  ListedInv'
<1> DEFINE loaded == Load(disk, TRUE)
           config == IF loaded.ok THEN loaded.config ELSE WithoutDm(loaded.config)
           steps == IF loaded.ok THEN loaded.steps ELSE DeleteDm(loaded.steps, loaded.config)
           rights == LoadAcl(steps)
           m == [config |-> config, acl |-> rights.acl, session |-> "none",
                 listed |-> [security |-> FirstIds(config.nsec),
                             server |-> FirstIds(config.nsrv),
                             acl |-> FirstIds(rights.acl.n)]]
<1>1. Do(rights.steps, m)
  BY DEF ObjectRegister
<1>2. loaded.config \in Wholes /\ disk \in Disks /\ Sound(disk)
  BY PresentIn, LoadAtStart DEF StorageInv
<1>3. /\ loaded.steps \in Seq(Alike) /\ loaded.steps # <<>>
      /\ Last(loaded.steps).acl = disk.acl /\ Last(loaded.steps).aclSize = disk.aclSize
  BY <1>2, AlikeClosed, LoadApart
<1>4. loaded.steps \in Seq(Neat) /\ Numbers(loaded.config)
  BY <1>2, PresentNeat, LoadNeat
<1> HIDE DEF loaded
<1>5. /\ Last(steps).acl = disk.acl /\ Last(steps).aclSize = disk.aclSize
  BY <1>2, <1>3, AlikeClosed, DeleteApart
<1>6. steps \in Seq(Neat) /\ steps # <<>>
  BY <1>2, <1>3, <1>4, DeleteNeat
<1>7. config \in Wholes /\ Numbers(config)
  BY <1>2, <1>4, WithoutDmWhole, WithoutDmNumbers
<1> HIDE DEF config, steps
<1>8. AclLength(disk.acl) \in Nat /\ disk.aclSize \in Int /\ disk.acl \in Acls
      /\ NoAcl \in Acls /\ Filled(NoAcl) /\ Tidy(NoAcl)
  BY <1>2, DiskFields, AclLengthType, NoAclType, NoMemoryAcl, FixedNumbers
<1>9. Filled(disk.acl) /\ Tidy(disk.acl)
  BY PresentNeat, NeatFields DEF AclInv, AclKnown, AclSafe
<1>10. ~(disk.aclSize # NoSize /\ disk.aclSize < AclLength(disk.acl))
  BY DEF AclInv, AclKnown, AclTorn
<1>11. \/ rights = [acl |-> NoAcl, steps |-> StoreAcl(steps, NoAcl)]
       \/ rights = [acl |-> disk.acl, steps |-> steps]
  BY <1>5, <1>8, <1>10 DEF LoadAcl
<1> HIDE DEF rights
<1>12. /\ rights.steps \in Seq(Neat) /\ rights.steps # <<>>
       /\ rights.acl \in Acls /\ Filled(rights.acl) /\ Tidy(rights.acl)
  <2>1. CASE rights = [acl |-> NoAcl, steps |-> StoreAcl(steps, NoAcl)]
    <3>1. rights.acl = NoAcl /\ rights.steps = StoreAcl(steps, NoAcl)
      BY <2>1
    <3> QED
      BY <1>6, <1>8, <3>1, StoreAclNeat
  <2>2. CASE rights = [acl |-> disk.acl, steps |-> steps]
    <3>1. rights.acl = disk.acl /\ rights.steps = steps
      BY <2>2
    <3> QED
      BY <1>6, <1>8, <1>9, <3>1
  <2> QED
    BY <1>11, <2>1, <2>2
<1>13. /\ m.config = config /\ m.acl = rights.acl
       /\ m.listed = [security |-> FirstIds(config.nsec), server |-> FirstIds(config.nsrv),
                      acl |-> FirstIds(rights.acl.n)]
  OBVIOUS
<1> HIDE DEF m
<1>14. ListedKnown(m)
  BY <1>7, <1>12, <1>13, StartListed
<1> QED
  BY <1>1, <1>12, <1>14, ListedStored

LEMMA RegistrationListed ==
  ASSUME ListedInv, \E c, m : RegistrationStored(c, m)
  PROVE  ListedInv'
<1>1. PICK c, m : RegistrationStored(c, m)
  OBVIOUS
<1> DEFINE steps == StoreConfig(<<disk>>, c)
<1>2. /\ c \in Wholes /\ c.version = "v2" /\ mem.config.version = "v2"
      /\ c.sec = mem.config.sec /\ IdsOf(c.srv) = IdsOf(mem.config.srv)
      /\ m.config = c /\ m.acl = mem.acl /\ m.listed = mem.listed /\ Do(steps, m)
  BY <1>1 DEF RegistrationStored
<1>3. Numbers(c)
  BY <1>2, PresentNeat DEF Numbers, Gapless
<1>4. steps \in Seq(Neat) /\ steps # <<>>
  BY <1>2, <1>3, PresentNeat, StoreConfigNeat
<1> HIDE DEF steps
<1>5. ListedKnown(m)
  BY <1>2, <1>3, PresentNeat, ListedConfig
<1> QED
  BY <1>2, <1>4, <1>5, ListedStored

LEMMA SetLifetimeListed ==
  ASSUME StorageInv, ListedInv, NEW life \in Nat, SetLifetime(life)
  PROVE  ListedInv'
<1> DEFINE r == Load(disk, FALSE)
           stored == WithLifetime(r.config, life)
           present == WithLifetime(mem.config, life)
           m == IF On THEN [mem EXCEPT !.config = present] ELSE mem
           steps == StoreConfig(r.steps, stored)
<1>1. Do(steps, m) \/ Do(r.steps, mem)
  BY DEF SetLifetime
<1>2. Sound(disk) /\ mem \in Mems /\ mem.config \in Wholes
  BY DEF StorageInv, TypeInv, Agree
<1>3. r.steps \in Seq(Neat) /\ r.steps # <<>> /\ Numbers(r.config)
  BY <1>2, PresentNeat, LoadNeat
<1>4. r.config \in Wholes /\ stored \in Wholes
  BY LifetimeLoaded
<1> HIDE DEF r
<1>5. Numbers(stored)
  BY <1>3, <1>4, WithLifetimeNumbers
<1> HIDE DEF stored
<1>6. steps \in Seq(Neat) /\ steps # <<>>
  BY <1>3, <1>4, <1>5, StoreConfigNeat
<1> HIDE DEF steps
<1>7. /\ present \in Configs /\ present.version = mem.config.version
      /\ present.sec = mem.config.sec
  BY <1>2, WithLifetimeWhole DEF Wholes
<1>8. Numbers(present) /\ IdsOf(mem.config.srv) \subseteq IdsOf(present.srv)
  BY <1>2, PresentNeat, WithLifetimeNumbers
<1> HIDE DEF present
<1>9. ListedKnown(m)
  <2>1. CASE On
    <3>1. m.config = present /\ m.acl = mem.acl /\ m.listed = mem.listed
      BY <1>2, <1>7, <2>1, MemFields
    <3> HIDE DEF m
    <3> QED
      BY <1>7, <1>8, <3>1, PresentNeat, ListedConfig
  <2>2. CASE ~On
    BY <2>2, PresentNeat
  <2> QED
    BY <2>1, <2>2
<1> HIDE DEF m
<1> QED
  BY <1>1, <1>3, <1>6, <1>9, PresentNeat, ListedStored

LEMMA WriteLifetimeListed ==
  ASSUME StorageInv, ListedInv, NEW id \in Nat, NEW life \in Nat, WriteLifetime(id, life)
  PROVE  ListedInv'
<1> DEFINE r == Load(disk, FALSE)
           changed == LifetimeStored # life
           c == mem.config
           start == <<disk>>
           live == WithLifetime(c, life)
           steps == IF changed THEN StoreConfig(start, live) ELSE start
           base == IF changed THEN live ELSE c
           config == Written1(base, id, life)
           m == [mem EXCEPT !.config = config]
           all == StoreConfig(steps, config)
<1>1. mem.session = "dm" /\ c.version = "v2" /\ id \in mem.listed["server"]
  BY InBootstrap DEF WriteLifetime, InSession
<1>2. r.config = c /\ r.steps = start
  BY <1>1, LoadWhole
<1>3. Do(all, m)
  BY <1>2 DEF WriteLifetime, Written1
<1>4. mem \in Mems /\ c \in Wholes /\ Numbers(c) /\ start \in Seq(Neat) /\ start # <<>>
      /\ id \in IdsOf(c.srv)
  BY <1>1, PresentConfig, PresentNeat DEF ListedKnown
<1> HIDE DEF r, changed, c, start
<1>5. /\ live \in Wholes /\ live.version = c.version /\ live.sec = c.sec
      /\ Numbers(live) /\ IdsOf(c.srv) \subseteq IdsOf(live.srv)
  BY <1>4, WithLifetimeWhole, WithLifetimeNumbers
<1> HIDE DEF live
<1>6. /\ base \in Wholes /\ base.version = c.version /\ base.sec = c.sec
      /\ Numbers(base) /\ IdsOf(c.srv) \subseteq IdsOf(base.srv)
  BY <1>4, <1>5
<1>7. steps \in Seq(Neat) /\ steps # <<>>
  BY <1>4, <1>5, StoreConfigNeat
<1> HIDE DEF steps, base
<1>8. /\ config \in Wholes /\ Numbers(config) /\ config.version = c.version
      /\ config.sec = c.sec /\ IdsOf(config.srv) = IdsOf(base.srv)
  BY <1>4, <1>6, Written1Whole, Written1Numbers
<1> HIDE DEF config
<1>9. all \in Seq(Neat) /\ all # <<>>
  BY <1>7, <1>8, StoreConfigNeat
<1> HIDE DEF all
<1>10. m.config = config /\ m.acl = mem.acl /\ m.listed = mem.listed
  BY <1>4, <1>8, MemFields DEF Wholes
<1> HIDE DEF m
<1>11. ListedKnown(m)
  BY <1>6, <1>8, <1>10, PresentNeat, ListedConfig DEF c
<1> QED
  BY <1>3, <1>9, <1>11, ListedStored

\* The credentials are deleted: of the security instances the one of the bootstrap
\* server stays, in the list and in the configuration.
LEMMA DeleteDmCredentialsListed ==
  ASSUME StorageInv, ListedInv, DeleteDmCredentials
  PROVE  ListedInv'
<1> DEFINE start == <<disk>>
           c == mem.config
           w == WithoutDm(c)
           steps == DeleteDm(start, c)
           listed == [mem.listed EXCEPT !["server"] = {}, !["security"] = @ \ DmInstances(c)]
           m == [mem EXCEPT !.config = w, !.session = "none", !.listed = listed]
<1>1. Do(steps, m)
  BY DEF DeleteDmCredentials
<1>2. mem \in Mems /\ c \in Wholes /\ start \in Seq(Neat) /\ start # <<>> /\ ListedKnown(mem)
  BY PresentNeat DEF StorageInv, TypeInv, Agree
<1>3. w.version = c.version /\ Numbers(w)
      /\ (c.version = "v2" => IdsOf(w.sec) = {0} /\ c.sec[1].id = 0)
  BY <1>2, WithoutDmWhole, WithoutDmNumbers
<1>4. /\ listed["server"] = {} /\ listed["acl"] = mem.listed["acl"]
      /\ listed["security"] = mem.listed["security"] \ DmInstances(c)
  BY <1>2, MemFields DEF Objects
<1>5. m.config = w /\ m.acl = mem.acl /\ m.listed = listed
  BY <1>2 DEF Mems
<1>6. steps \in Seq(Neat) /\ steps # <<>>
  BY <1>2, DeleteNeat
<1> HIDE DEF start, steps, w, m, listed
<1>7. c.version = "v2" => listed["security"] \subseteq {0}
  <2> SUFFICES ASSUME c.version = "v2", NEW x \in listed["security"]
               PROVE  x = 0
    OBVIOUS
  <2>1. x \in IdsOf(c.sec) /\ x \notin DmInstances(c)
    BY <1>2, <1>4 DEF ListedKnown
  <2>2. PICK i \in DOMAIN c.sec : x = c.sec[i].id
    BY <2>1 DEF IdsOf
  <2>3. c.sec[i].boot
    BY <2>1, <2>2 DEF DmInstances
  <2>4. DOMAIN c.sec = 1..Len(c.sec) /\ Len(c.sec) \in Nat
        /\ \A j \in 2..Len(c.sec) : ~c.sec[j].boot
    BY <1>2, ConfigFields DEF Wholes, Whole
  <2>5. i = 1
    BY <2>2, <2>3, <2>4
  <2> QED
    BY <1>3, <2>2, <2>5
<1>8. ListedKnown(m)
  BY <1>2, <1>3, <1>4, <1>5, <1>7 DEF ListedKnown
<1> QED
  BY <1>1, <1>6, <1>8, ListedStored

LEMMA BootstrapDoneListed ==
  ASSUME StorageInv, AclInv, ListedInv, BootstrapDone
  PROVE  ListedInv'
<1> DEFINE servers == {mem.config.sec[i].server : i \in {j \in DOMAIN mem.config.sec :
                                                           ~mem.config.sec[j].boot}}
           more == disk.keys \cup servers
           keyed == [disk EXCEPT !.keys = more]
           config == mem.config
           start == <<disk, keyed>>
           stored == StoreConfig(start, config)
           steps == StoreAcl(stored, mem.acl)
           m == [mem EXCEPT !.session = "none"]
<1>1. InSession("bootstrap") /\ servers = ServerIds(config) /\ Do(steps, m)
  BY DEF BootstrapDone
<1>2. /\ config \in Wholes /\ config \in Configs /\ disk \in Disks /\ mem \in Mems
      /\ mem.acl \in Acls
  BY <1>1, InBootstrap, MemFields DEF StorageInv, TypeInv, InSession
<1>3. more \in SUBSET Nat
  <2>1. \A i \in DOMAIN config.srv : config.srv[i] \in ServerEntries
    BY <1>2, ConfigFields
  <2>2. ServerIds(config) \in SUBSET Nat
    BY <2>1 DEF ServerIds, ServerEntries
  <2> HIDE DEF servers
  <2> QED
    BY <1>1, <1>2, <2>2, DiskFields
<1> HIDE DEF more
<1>4. disk \in Neat /\ keyed \in Neat
  BY <1>3, PresentNeat, NeatFields
<1> HIDE DEF keyed
<1>5. start \in Seq(Neat) /\ start # <<>>
  BY <1>4, TwoSteps
<1> HIDE DEF start
<1>6. stored \in Seq(Neat) /\ stored # <<>>
  BY <1>2, <1>5, PresentNeat, StoreConfigNeat
<1> HIDE DEF stored
<1>7. steps \in Seq(Neat) /\ steps # <<>>
  BY <1>2, <1>6, PresentNeat, StoreAclNeat DEF AclInv, AclKnown
<1> HIDE DEF steps
<1>8. m.config = mem.config /\ m.acl = mem.acl /\ m.listed = mem.listed
  BY <1>2 DEF Mems
<1> HIDE DEF m
<1>9. ListedKnown(m)
  BY <1>8, PresentNeat, ListedConfig
<1> QED
  BY <1>1, <1>7, <1>9, ListedStored

----------------------------------------------------------------------------
(* The handlers that change what is listed.                                 *)

\* What is listed after a creation or a write is configured then.
LEMMA ListingIn ==
  ASSUME NoGaps, NEW object, NEW n \in Nat, mem.listed[object] \subseteq FirstIds(n),
         NEW id, Regular(FirstIds(n), id)
  PROVE  Listing(object, id) \subseteq
           (IF Written(object, id) THEN FirstIds(n) \cup {id} ELSE FirstIds(n))
<1> DEFINE first == FirstIds(n)
<1>1. id # 0 => 0 \in first
  BY RegularAdds
<1>2. mem.listed[object] \subseteq first
  OBVIOUS
<1> HIDE DEF first
<1> SUFFICES Listing(object, id) \subseteq
               (IF Written(object, id) THEN first \cup {id} ELSE first)
  BY DEF first
<1>3. CASE mem.listed[object] = {}
  <2>1. Listing(object, id) = {0}
    BY <1>3 DEF Listing
  <2> QED
    BY <1>1, <2>1 DEF Written
<1>4. CASE mem.listed[object] # {}
  <2>1. Listing(object, id) = mem.listed[object] \cup {id}
    BY <1>4 DEF Listing
  <2> QED
    BY <1>2, <2>1 DEF Written
<1> QED
  BY <1>3, <1>4

LEMMA ListedAfterIn ==
  ASSUME TypeInv, NEW object \in Objects, NEW id \in Nat, NEW good \in BOOLEAN
  PROVE  LET listed == ListedAfter(object, id, good)
         IN  /\ listed[object] \subseteq Listing(object, id)
             /\ \A o \in Objects \ {object} : listed[o] = mem.listed[o]
<1>1. mem.listed \in [Objects -> SUBSET Nat]
  BY MemFields DEF TypeInv
<1>2. \A s : /\ [mem.listed EXCEPT ![object] = s][object] = s
             /\ \A o \in Objects \ {object} :
                  [mem.listed EXCEPT ![object] = s][o] = mem.listed[o]
  BY <1>1
<1> QED
  BY <1>2 DEF ListedAfter

LEMMA WriteSecurityListed ==
  ASSUME NoGaps, NoSecondAccount, StorageInv, ListedInv, NEW s \in DmServers,
         NEW boot \in BOOLEAN, NEW good \in Outcomes, WriteSecurity(s, boot, good)
  PROVE  ListedInv'
<1> DEFINE e == Security(s, boot, IF good THEN s ELSE 0)
           c == mem.config
           listed == ListedAfter("security", s, good)
           config == IF Written("security", s) THEN WithSecurity(c, e) ELSE c
<1>1. /\ InSession("bootstrap") /\ ~boot /\ disk' = disk /\ Regular(IdsOf(c.sec), s)
      /\ mem' = [mem EXCEPT !.listed = listed, !.config = config]
  BY DEF WriteSecurity, NoSecondAccount
<1>2. s \in Nat /\ s # 0 /\ good \in BOOLEAN
  BY ConstantTypes, OutcomeType
<1>3. e \in SecurityEntries /\ e.id = s /\ e.boot = boot
  BY <1>2, EntryTypes DEF Security
<1>4. c \in Wholes /\ c.version = "v2" /\ TypeInv /\ mem \in Mems
  BY <1>1, InBootstrap DEF InSession, StorageInv, TypeInv
<1>5. /\ listed["security"] \subseteq Listing("security", s)
      /\ listed["server"] = mem.listed["server"] /\ listed["acl"] = mem.listed["acl"]
  BY <1>2, <1>4, ListedAfterIn DEF Objects
<1>6. ListedKnown(mem) /\ Gapless(c.sec) /\ Gapless(c.srv)
  BY <1>4, PresentNeat DEF Numbers
<1>7. PICK n \in Nat : IdsOf(c.sec) = FirstIds(n)
  BY <1>6 DEF Gapless
<1>8. mem.listed["security"] \subseteq FirstIds(n)
  BY <1>4, <1>6, <1>7 DEF ListedKnown
<1>9. Listing("security", s) \subseteq
        (IF Written("security", s) THEN IdsOf(c.sec) \cup {s} ELSE IdsOf(c.sec))
  BY <1>1, <1>7, <1>8, ListingIn
<1>10. \E k \in Nat : IdsOf(c.sec) \cup {s} = FirstIds(k)
  BY <1>1, <1>7, RegularAdds
<1>11. mem'.config = config /\ mem'.acl = mem.acl /\ mem'.listed = listed
  BY <1>1, <1>4 DEF Mems
<1> HIDE DEF e, listed
<1>12. /\ WithSecurity(c, e).version = "v2" /\ WithSecurity(c, e).srv = c.srv
       /\ IdsOf(WithSecurity(c, e).sec) = IdsOf(c.sec) \cup {s}
  BY <1>1, <1>2, <1>3, <1>4, WithSecurityWhole
<1>13. /\ config.version = "v2" /\ config.srv = c.srv /\ Gapless(config.sec)
       /\ listed["security"] \subseteq IdsOf(config.sec)
  <2>1. CASE Written("security", s)
    <3>1. config = WithSecurity(c, e)
      BY <2>1
    <3>2. Gapless(config.sec)
      BY <1>10, <1>12, <3>1 DEF Gapless
    <3> QED
      BY <1>5, <1>9, <1>12, <2>1, <3>1, <3>2
  <2>2. CASE ~Written("security", s)
    BY <1>4, <1>5, <1>6, <1>9, <2>2
  <2> QED
    BY <2>1, <2>2
<1> HIDE DEF config
<1>14. ListedKnown(mem')
  BY <1>4, <1>5, <1>6, <1>11, <1>13 DEF ListedKnown, Numbers
<1> QED
  BY <1>1, <1>14, ListedKept

LEMMA WriteServerListed ==
  ASSUME NoGaps, StorageInv, ListedInv, NEW s \in DmServers, NEW life \in Bootstrapped,
         NEW good \in Outcomes, WriteServer(s, life, good)
  PROVE  ListedInv'
<1> DEFINE id == s - 1
           e == Server(id, IF good THEN s ELSE 0, life)
           c == mem.config
           listed == ListedAfter("server", id, good)
           config == IF Written("server", id) THEN WithServer(c, e) ELSE c
<1>1. /\ InSession("bootstrap") /\ disk' = disk /\ Regular(IdsOf(c.srv), id)
      /\ mem' = [mem EXCEPT !.listed = listed, !.config = config]
  BY DEF WriteServer
<1>2. s \in Nat /\ id \in Nat /\ life \in Nat /\ good \in BOOLEAN
  BY ConstantTypes, OutcomeType
<1> HIDE DEF id
<1>3. e \in ServerEntries /\ e.id = id
  BY <1>2, EntryTypes DEF Server
<1>4. c \in Wholes /\ c.version = "v2" /\ TypeInv /\ mem \in Mems
  BY <1>1, InBootstrap DEF InSession, StorageInv, TypeInv
<1>5. /\ listed["server"] \subseteq Listing("server", id)
      /\ listed["security"] = mem.listed["security"] /\ listed["acl"] = mem.listed["acl"]
  BY <1>2, <1>4, ListedAfterIn DEF Objects
<1>6. ListedKnown(mem) /\ Gapless(c.sec) /\ Gapless(c.srv)
  BY <1>4, PresentNeat DEF Numbers
<1>7. PICK n \in Nat : IdsOf(c.srv) = FirstIds(n)
  BY <1>6 DEF Gapless
<1>8. mem.listed["server"] \subseteq FirstIds(n)
  BY <1>4, <1>6, <1>7 DEF ListedKnown
<1>9. Listing("server", id) \subseteq
        (IF Written("server", id) THEN IdsOf(c.srv) \cup {id} ELSE IdsOf(c.srv))
  BY <1>1, <1>7, <1>8, ListingIn
<1>10. \E k \in Nat : IdsOf(c.srv) \cup {id} = FirstIds(k)
  BY <1>1, <1>7, RegularAdds
<1>11. mem'.config = config /\ mem'.acl = mem.acl /\ mem'.listed = listed
  BY <1>1, <1>4 DEF Mems
<1>12. /\ WithServer(c, e).version = "v2" /\ WithServer(c, e).sec = c.sec
       /\ IdsOf(WithServer(c, e).srv) = IdsOf(c.srv) \cup {id}
  BY <1>3, <1>4, WithServerWhole
<1> HIDE DEF e, listed
<1>13. /\ config.version = "v2" /\ config.sec = c.sec /\ Gapless(config.srv)
       /\ listed["server"] \subseteq IdsOf(config.srv)
  <2>1. CASE Written("server", id)
    <3>1. config = WithServer(c, e)
      BY <2>1
    <3>2. Gapless(config.srv)
      BY <1>10, <1>12, <3>1 DEF Gapless
    <3> QED
      BY <1>5, <1>9, <1>12, <2>1, <3>1, <3>2
  <2>2. CASE ~Written("server", id)
    BY <1>4, <1>5, <1>6, <1>9, <2>2
  <2> QED
    BY <2>1, <2>2
<1> HIDE DEF config
<1>14. ListedKnown(mem')
  BY <1>4, <1>5, <1>6, <1>11, <1>13 DEF ListedKnown, Numbers
<1> QED
  BY <1>1, <1>14, ListedKept

LEMMA ForgetListed ==
  ASSUME StorageInv, ListedInv, NEW id, DeleteSecurity(id) \/ DeleteServer(id)
  PROVE  ListedInv'
<1>1. mem \in Mems /\ mem.listed \in [Objects -> SUBSET Nat] /\ ListedKnown(mem)
  BY MemFields, PresentNeat DEF StorageInv, TypeInv
<1>2. disk' = disk
  BY DEF DeleteSecurity, DeleteServer
<1>3. PICK o \in {"security", "server"} : mem' = [mem EXCEPT !.listed[o] = @ \ {id}]
  BY DEF DeleteSecurity, DeleteServer
<1>4. mem'.config = mem.config /\ mem'.acl = mem.acl
  BY <1>1, <1>3 DEF Mems
<1>5. /\ mem'.listed["acl"] = mem.listed["acl"]
      /\ mem'.listed["security"] \subseteq mem.listed["security"]
      /\ mem'.listed["server"] \subseteq mem.listed["server"]
  BY <1>1, <1>3 DEF Mems, Objects
<1>6. ListedKnown(mem')
  BY <1>1, <1>4, <1>5 DEF ListedKnown
<1> QED
  BY <1>2, <1>6, ListedKept

----------------------------------------------------------------------------
(* The access rights that are listed.                                       *)

LEMMA WithEntryTidy ==
  ASSUME NEW a \in Acls, NEW id \in Nat, Distinctly(a.list)
  PROVE  /\ IdsOf(WithEntry(a, id).list) = IdsOf(a.list) \cup {id}
         /\ Distinctly(WithEntry(a, id).list)
<1>1. a.list \in Seq(AclEntries) /\ Len(a.list) \in Nat /\ DOMAIN a.list = 1..Len(a.list)
  BY AclFields
<1>2. CASE Has(a.list, id)
  <2>1. WithEntry(a, id) = a /\ id \in IdsOf(a.list)
    BY <1>2 DEF WithEntry, Has, IdsOf
  <2> QED
    BY <2>1
<1>3. CASE ~Has(a.list, id)
  <2> DEFINE e == AclEntry(id, {})
             list == Append(a.list, e)
  <2>1. e \in AclEntries /\ e.id = id
    BY EntryTypes DEF AclEntry
  <2>2. WithEntry(a, id).list = list
    BY <1>3 DEF WithEntry
  <2> HIDE DEF e
  <2>3. Distinctly(list)
    BY <1>1, <1>3, <2>1, AppendDistinct
  <2>4. /\ DOMAIN list = 1..(Len(a.list) + 1) /\ list[Len(a.list) + 1] = e
        /\ \A i \in 1..Len(a.list) : list[i] = a.list[i]
    BY <1>1, <2>1, AppendFields
  <2> HIDE DEF list
  <2>5. /\ \A i \in 1..(Len(a.list) + 1) : i \in 1..Len(a.list) \/ i = Len(a.list) + 1
        /\ \A i \in 1..Len(a.list) : i \in 1..(Len(a.list) + 1)
        /\ Len(a.list) + 1 \in 1..(Len(a.list) + 1)
    BY <1>1
  <2>6. IdsOf(list) = IdsOf(a.list) \cup {id}
    BY <1>1, <2>1, <2>4, <2>5 DEF IdsOf
  <2> QED
    BY <2>2, <2>3, <2>6
<1> QED
  BY <1>2, <1>3

LEMMA WithRightTidy ==
  ASSUME NEW a \in Acls, NEW id \in Nat, Has(a.list, id), Distinctly(a.list)
  PROVE  /\ IdsOf(WithRight(a, id).list) = IdsOf(a.list)
         /\ Distinctly(WithRight(a, id).list)
<1>1. a.list \in Seq(AclEntries) /\ Len(a.list) \in Nat /\ DOMAIN a.list = 1..Len(a.list)
  BY AclFields
<1> DEFINE k == Find(a.list, id)
           entry == [a.list[k] EXCEPT !.rights = a.list[k].rights \cup {1}]
           list == [a.list EXCEPT ![k] = entry]
           w == [a EXCEPT !.list = list]
<1>2. WithRight(a, id) = w
  BY DEF WithRight
<1>3. k \in DOMAIN a.list
  BY DEF Has, Find
<1> HIDE DEF k
<1>4. entry.id = a.list[k].id
  <2>1. a.list[k] \in AclEntries
    BY <1>1, <1>3
  <2> QED
    BY <2>1 DEF AclEntries
<1> HIDE DEF entry
<1>5. DOMAIN list = DOMAIN a.list /\ \A i \in DOMAIN a.list : list[i].id = a.list[i].id
  BY <1>1, <1>3, <1>4
<1>6. w.list = list
  BY DEF Acls, AclRecords
<1> HIDE DEF list, w
<1>7. IdsOf(list) = IdsOf(a.list) /\ Distinctly(list)
  BY <1>5 DEF IdsOf, Distinctly
<1> QED
  BY <1>2, <1>6, <1>7

\* Every entry but one stays, once.
LEMMA WithoutEntryTidy ==
  ASSUME NEW a \in Acls, NEW id \in Nat, Distinctly(a.list)
  PROVE  /\ IdsOf(WithoutEntry(a, id).list) = IdsOf(a.list) \ {id}
         /\ Distinctly(WithoutEntry(a, id).list)
<1> DEFINE P == {i \in DOMAIN a.list : a.list[i].id # id}
           list == Selected(a.list, P)
           n == Cardinality(P)
<1>1. a.list \in Seq(AclEntries) /\ Len(a.list) \in Nat /\ DOMAIN a.list = 1..Len(a.list)
  BY AclFields
<1>2. WithoutEntry(a, id).list = list
  BY DEF WithoutEntry
<1>3. P \in SUBSET DOMAIN a.list /\ \A i \in DOMAIN a.list : i \in P <=> a.list[i].id # id
  OBVIOUS
<1> HIDE DEF P
<1>4. /\ DOMAIN list = 1..n
      /\ \A k \in 1..n : Position(P, k) \in P /\ list[k] = a.list[Position(P, k)]
  BY <1>1, <1>3, SelectedProperties
<1>5. /\ \A k, l \in 1..n : Position(P, k) = Position(P, l) => k = l
      /\ \A i \in P : \E k \in 1..n : Position(P, k) = i
  <2> DEFINE m == Len(a.list)
  <2>1. m \in Nat /\ P \in SUBSET (1..m)
    BY <1>1, <1>3
  <2> HIDE DEF m, list
  <2> QED
    BY <2>1, PositionProperties
<1> HIDE DEF list, n
<1>6. Distinctly(list)
  BY <1>3, <1>4, <1>5 DEF Distinctly
<1>7. IdsOf(list) = IdsOf(a.list) \ {id}
  <2>1. ASSUME NEW x \in IdsOf(list)
        PROVE  x \in IdsOf(a.list) /\ x # id
    BY <1>3, <1>4 DEF IdsOf
  <2>2. ASSUME NEW x \in IdsOf(a.list), x # id
        PROVE  x \in IdsOf(list)
    <3>1. PICK i \in DOMAIN a.list : x = a.list[i].id
      BY DEF IdsOf
    <3>2. i \in P
      BY <1>3, <2>2, <3>1
    <3>3. PICK k \in 1..n : Position(P, k) = i
      BY <1>5, <3>2
    <3> QED
      BY <1>4, <3>1, <3>3 DEF IdsOf
  <2> QED
    BY <2>1, <2>2
<1> QED
  BY <1>2, <1>6, <1>7

LEMMA WriteAclListed ==
  ASSUME NoGaps, StorageInv, AclInv, ListedInv, NEW id \in Nat, NEW good \in BOOLEAN,
         WriteAcl(id, good)
  PROVE  ListedInv'
<1> DEFINE start == <<disk>>
           entered == WithEntry(mem.acl, id)
           rights == IF good THEN WithRight(entered, id) ELSE entered
           once == StoreAcl(start, entered)
           twice == StoreAcl(once, rights)
           steps == IF InSession("bootstrap") THEN start ELSE IF good THEN twice ELSE once
           ids == mem.listed["acl"]
           known == IdsOf(mem.acl.list)
           listed == ListedAfter("acl", id, good)
           m == [mem EXCEPT !.listed = listed]
           w == [m EXCEPT !.acl = rights]
<1>1. /\ mem \in Mems /\ mem.acl \in Acls /\ mem.listed \in [Objects -> SUBSET Nat] /\ TypeInv
      /\ ListedKnown(mem) /\ Tidy(mem.acl) /\ Filled(mem.acl)
      /\ start \in Seq(Neat) /\ start # <<>>
  BY MemFields, PresentNeat DEF StorageInv, TypeInv, AclInv, AclKnown
<1>2. /\ Regular(ids, id)
      /\ IF Written("acl", id) THEN Do(steps, w) ELSE Do(start, m)
  BY DEF WriteAcl
<1>3. PICK n \in Nat, k \in Nat : known = FirstIds(n) /\ ids = FirstIds(k)
  BY <1>1 DEF ListedKnown, Tidy, Gapless
<1>4. ids \subseteq known
  BY <1>1 DEF ListedKnown
<1>5. \/ id \in ids /\ ids \cup {id} = ids
      \/ id = k /\ ids \cup {id} = FirstIds(k + 1)
  BY <1>2, <1>3, RegularAdds
<1>6. k <= n
  <2>1. n \in Nat /\ n \notin FirstIds(n)
    BY FirstIdsProperties
  <2>2. n \notin FirstIds(k)
    BY <1>3, <1>4, <2>1
  <2> QED
    BY <2>2, FirstIdsProperties
<1>7. \E l \in Nat : known \cup {id} = FirstIds(l)
  <2>1. id = n \/ id \in FirstIds(n)
    <3>1. CASE id \in ids
      BY <1>3, <1>4, <3>1
    <3>2. CASE id = k
      BY <1>6, <3>2, FirstIdsProperties
    <3> QED
      BY <1>5, <3>1, <3>2
  <2>2. n + 1 \in Nat /\ FirstIds(n + 1) = FirstIds(n) \cup {n}
    BY FirstIdsProperties
  <2>3. id \in FirstIds(n) => FirstIds(n) \cup {id} = FirstIds(n)
    OBVIOUS
  <2> QED
    BY <1>3, <2>1, <2>2, <2>3
<1>8. Listing("acl", id) = ids \cup {id}
  <2>1. ids = {} => id = 0
    <3>1. ids = {} => k = 0
      <4>1. k # 0 => 0 \in FirstIds(k)
        BY FirstIdsProperties
      <4> QED
        BY <1>3, <4>1
    <3> QED
      BY <1>5, <3>1
  <2> QED
    BY <2>1 DEF Listing
<1>9. Written("acl", id)
  BY <1>8 DEF Written
<1>10. Do(steps, w)
  BY <1>2, <1>9
<1>11. /\ listed["security"] = mem.listed["security"] /\ listed["server"] = mem.listed["server"]
       /\ listed \in [Objects -> SUBSET Nat]
       /\ listed["acl"] = ids \cup {id} \/ listed["acl"] = ids
  <2>1. /\ listed["security"] = mem.listed["security"]
        /\ listed["server"] = mem.listed["server"]
    BY <1>1, ListedAfterIn DEF Objects
  <2>2. listed \in [Objects -> SUBSET Nat]
    BY <1>1, ListedAfterType DEF Objects
  <2>3. CASE good \/ id \in ids
    BY <1>1, <1>8, <2>1, <2>2, <2>3 DEF ListedAfter, Objects
  <2>4. CASE ~(good \/ id \in ids)
    <3>1. listed["acl"] = Listing("acl", id) \ {id}
      BY <1>1, <2>4 DEF ListedAfter, Objects
    <3> QED
      BY <1>8, <2>1, <2>2, <2>4, <3>1
  <2> QED
    BY <2>1, <2>2, <2>3, <2>4
<1>12. /\ entered \in Acls /\ Has(entered.list, id) /\ Filled(entered)
       /\ IdsOf(entered.list) = known \cup {id} /\ Distinctly(entered.list)
  BY <1>1, WithEntryIn, WithEntryTidy DEF Filled, Tidy
<1> HIDE DEF entered, listed, start, known
<1>13. /\ rights \in Acls /\ Filled(rights)
       /\ IdsOf(rights.list) = known \cup {id} /\ Distinctly(rights.list)
  BY <1>12, WithRightIn, WithRightTidy DEF Filled
<1> HIDE DEF rights
<1>14. Tidy(entered) /\ Tidy(rights)
  BY <1>7, <1>12, <1>13 DEF Tidy, Gapless
<1>15. once \in Seq(Neat) /\ once # <<>>
  BY <1>1, <1>12, <1>14, StoreAclNeat
<1> HIDE DEF once
<1>16. twice \in Seq(Neat) /\ twice # <<>>
  BY <1>13, <1>14, <1>15, StoreAclNeat
<1> HIDE DEF twice
<1>17. steps \in Seq(Neat) /\ steps # <<>>
  BY <1>1, <1>15, <1>16
<1> HIDE DEF steps
<1>18. m \in Mems /\ m.config = mem.config /\ m.listed = listed
  BY <1>1, <1>11, MemFields
<1> HIDE DEF m
<1>19. w.config = mem.config /\ w.acl = rights /\ w.listed = listed
  BY <1>13, <1>18, MemFields
<1> HIDE DEF w
<1>20. \E l \in Nat : listed["acl"] = FirstIds(l)
  <2>1. k + 1 \in Nat
    OBVIOUS
  <2> QED
    BY <1>3, <1>5, <1>11, <2>1
<1>21. listed["acl"] \subseteq known \cup {id}
  BY <1>4, <1>11
<1>22. ListedKnown(w)
  BY <1>1, <1>11, <1>13, <1>14, <1>19, <1>20, <1>21 DEF ListedKnown
<1> QED
  BY <1>10, <1>17, <1>22, ListedStored

\* The instance that is deleted is the last one.
LEMMA DeleteAclListed ==
  ASSUME NoGaps, StorageInv, AclInv, ListedInv, NEW id \in Nat, DeleteAcl(id)
  PROVE  ListedInv'
<1> DEFINE start == <<disk>>
           acl == WithoutEntry(mem.acl, id)
           steps == StoreAcl(start, acl)
           ids == mem.listed["acl"]
           known == IdsOf(mem.acl.list)
           listed == [mem.listed EXCEPT !["acl"] = ids \ {id}]
           m == [mem EXCEPT !.acl = acl, !.listed = listed]
<1>1. /\ mem \in Mems /\ mem.acl \in Acls /\ mem.listed \in [Objects -> SUBSET Nat]
      /\ ListedKnown(mem) /\ Tidy(mem.acl) /\ Filled(mem.acl)
      /\ start \in Seq(Neat) /\ start # <<>>
  BY MemFields, PresentNeat
     DEF StorageInv, TypeInv, AclInv, AclKnown, DeleteAcl, InSession
<1>2. Do(steps, m) /\ id \in ids /\ \A other \in known : other <= id
  BY DEF DeleteAcl, NoGaps
<1>3. PICK n \in Nat, k \in Nat : known = FirstIds(n) /\ ids = FirstIds(k)
  BY <1>1 DEF ListedKnown, Tidy, Gapless
<1>4. ids \subseteq known
  BY <1>1 DEF ListedKnown
<1>5. acl \in Acls /\ Filled(acl) /\ IdsOf(acl.list) = known \ {id} /\ Distinctly(acl.list)
  BY <1>1, WithoutEntryIn, WithoutEntryTidy DEF Filled, Tidy
<1>6. /\ listed["security"] = mem.listed["security"] /\ listed["server"] = mem.listed["server"]
      /\ listed["acl"] = ids \ {id} /\ listed \in [Objects -> SUBSET Nat]
  BY <1>1 DEF Objects
<1>7. m.config = mem.config /\ m.acl = acl /\ m.listed = listed
  BY <1>1, <1>5, <1>6 DEF Mems
<1> HIDE DEF start, acl, known, listed, m
<1>8. n = id + 1 /\ k = id + 1
  <2>1. \A j \in Nat, i \in Nat : i \in FirstIds(j) <=> i < j
    BY FirstIdsProperties
  <2>2. id < k /\ id < n
    BY <1>2, <1>3, <1>4, <2>1
  <2>3. id + 1 \in Nat /\ ~(id + 1 <= id)
    OBVIOUS
  <2>4. id + 1 \notin known
    BY <1>2, <2>3
  <2>5. ~(id + 1 < n) /\ ~(id + 1 < k)
    BY <1>3, <1>4, <2>1, <2>3, <2>4
  <2> QED
    BY <2>2, <2>5
<1>9. ids \ {id} = FirstIds(id) /\ known \ {id} = FirstIds(id)
  BY <1>3, <1>8, FirstIdsProperties
<1>10. Tidy(acl)
  BY <1>5, <1>9 DEF Tidy, Gapless
<1>11. steps \in Seq(Neat) /\ steps # <<>>
  BY <1>1, <1>5, <1>10, StoreAclNeat
<1> HIDE DEF steps
<1>12. ListedKnown(m)
  BY <1>1, <1>5, <1>6, <1>7, <1>9, <1>10 DEF ListedKnown
<1> QED
  BY <1>2, <1>11, <1>12, ListedStored

----------------------------------------------------------------------------
(* Every step.                                                              *)

LEMMA ListedInvNext ==
  ASSUME NoGaps, NoSecondAccount, StorageInv, AclInv, ListedInv, [Next]_vars
  PROVE  ListedInv'
<1>1. mem \in Mems /\ ListedKnown(mem)
  BY PresentNeat DEF StorageInv, TypeInv
<1>2. CASE ObjectRegister
  BY <1>2, ObjectRegisterListed
<1>3. CASE Free \/ PowerLoss
  <2>1. disk' = disk /\ mem' = NoMemory
    BY <1>3 DEF Free, PowerLoss
  <2> QED
    BY <2>1, NoMemoryListed, ListedKept
<1>4. CASE StartBootstrap \/ EndSession
  <2>1. disk' = disk /\ \E s : mem' = [mem EXCEPT !.session = s]
    BY <1>4 DEF StartBootstrap, EndSession
  <2>2. mem'.config = mem.config /\ mem'.acl = mem.acl /\ mem'.listed = mem.listed
    BY <1>1, <2>1 DEF Mems
  <2>3. ListedKnown(mem')
    BY <1>1, <2>2 DEF ListedKnown
  <2> QED
    BY <2>1, <2>3, ListedKept
<1>5. CASE FromBootstrapServer \/ \E s \in DmServers : DeleteServer(s - 1)
  <2>1. CASE \E s \in DmServers, boot \in BOOLEAN, good \in Outcomes :
               WriteSecurity(s, boot, good)
    BY <2>1, WriteSecurityListed
  <2>2. CASE \E s \in DmServers, life \in Bootstrapped, good \in Outcomes :
               WriteServer(s, life, good)
    BY <2>2, WriteServerListed
  <2>3. CASE \E id : DeleteSecurity(id) \/ DeleteServer(id)
    BY <2>3, ForgetListed
  <2> QED
    BY <1>5, <2>1, <2>2, <2>3 DEF FromBootstrapServer
<1>6. CASE BootstrapDone
  BY <1>6, BootstrapDoneListed
<1>7. CASE (\E i \in DmServers : Register(i)) \/ DeleteRegistrationID
  BY <1>7, RegisterStores, DeleteRegistrationIDStores, RegistrationListed
<1>8. CASE DeleteDmCredentials
  BY <1>8, DeleteDmCredentialsListed
<1>9. CASE \E s \in DmServers, life \in Lifetimes : WriteLifetime(s - 1, life)
  BY <1>9, ConstantTypes, WriteLifetimeListed
<1>10. CASE \E id \in AclIds, good \in Outcomes : WriteAcl(id, good)
  BY <1>10, ConstantTypes, OutcomeType, WriteAclListed
<1>11. CASE \E id \in AclIds : DeleteAcl(id)
  BY <1>11, ConstantTypes, DeleteAclListed
<1>12. CASE \E life \in Lifetimes : SetLifetime(life)
  BY <1>12, ConstantTypes, SetLifetimeListed
<1>13. CASE UNCHANGED vars
  BY <1>13 DEF vars, ListedInv, ListedKnown
<1> QED
  BY <1>2, <1>3, <1>4, <1>5, <1>6, <1>7, <1>8, <1>9, <1>10, <1>11, <1>12, <1>13
     DEF Next, FromServer

LEMMA ListedInvInit == Init => ListedInv
<1> SUFFICES ASSUME Init
             PROVE  ListedInv
  OBVIOUS
<1>1. disk \in Disks /\ mem = NoMemory /\ disk.acl = NoAcl
  BY StorageInvInit DEF StorageInv, TypeInv, Init
<1>2. disk.param = Absent \/ \E life \in Bootstrapped : disk.param = Version1(life)
  BY DEF Init
<1>3. ASSUME NEW life
      PROVE  Numbers(Version1(life))
  <2> DEFINE sec == <<Security(0, TRUE, 1), Security(1, FALSE, 1)>>
             srv == <<Server(0, 1, life)>>
  <2>1. Version1(life).sec = sec /\ Version1(life).srv = srv
    BY DEF Version1
  <2>2. IdsOf(sec) = {0, 1}
    <3>1. \A x, y : DOMAIN <<x, y>> = {1, 2} /\ <<x, y>>[1] = x /\ <<x, y>>[2] = y
      OBVIOUS
    <3>2. \A x, y : IdsOf(<<x, y>>) = {x.id, y.id}
      BY <3>1 DEF IdsOf
    <3> QED
      BY <3>2 DEF Security
  <2>3. Gapless(srv)
    BY OneId DEF Server
  <2>4. FirstIds(2) = {0, 1}
    BY DEF FirstIds
  <2> HIDE DEF sec, srv
  <2>5. Gapless(sec)
    BY <2>2, <2>4 DEF Gapless
  <2> QED
    BY <2>1, <2>3, <2>5 DEF Numbers
<1>4. disk \in Neat
  BY <1>1, <1>2, <1>3, FixedNumbers DEF Neat
<1> QED
  BY <1>1, <1>4, NoMemoryListed DEF ListedInv

\* What wakaama lists can be read, over creations, refusals, deletions and restarts,
\* which number the instances anew: as long as they are created and deleted without a
\* gap, without a second account of the bootstrap server, and without a power loss
\* between the size and the content of the access rights (objects.c 1895-1996).
THEOREM ListedCorrect ==
  ASSUME NoGaps, NoSecondAccount, NoTornAcl
  PROVE  Spec => []ListedIsConfigured
<1>1. StorageInv /\ AclInv /\ ListedInv /\ [Next]_vars => ListedInv'
  BY ListedInvNext
<1>2. ListedInv => ListedIsConfigured
  BY DEF ListedInv, ListedKnown, ListedIsConfigured
<1> QED
  BY <1>1, <1>2, ListedInvInit, StorageInvAlways, AclInvAlways, PTL DEF Spec
=============================================================================
