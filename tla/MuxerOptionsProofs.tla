--------------------------- MODULE MuxerOptionsProofs ---------------------------
(***************************************************************************)
(* What TLAPS proves about the options of a muxer, for any strings and any *)
(* number of calls: every block is accounted for, the list implements a    *)
(* map from names to values, and the prepare thread applies the time-out   *)
(* that it found.                                                          *)
(***************************************************************************)
EXTENDS MuxerOptions, SequenceTheorems, TLAPS

Called == {"add", "free", "store"}
Name(i) == NameOf(nodes[i].key)

\* A name has one node.
Distinct == \A i, j \in DOMAIN nodes : Name(i) = Name(j) => i = j

\* What the application's thread knows about the list stays true while it is in setOpt; the
\* value that it replaces is the only one that is freed.
Setting ==
  /\ set.pc \in Called => set.value \in Values
  /\ set.pc = "add" => \A i \in DOMAIN nodes : Name(i) # NameOf(set.key)
  /\ set.pc \in {"free", "store"} => set.node > 0 /\ Name(set.node) = NameOf(set.key)
  /\ \A i \in DOMAIN nodes : nodes[i].freed <=> set.pc = "store" /\ i = set.node

\* The time-out at muxer_open, one that has replaced it since, or memory that was freed.
MayBe(asked, number) ==
  \/ number = atoi[asked]
  \/ replaced # {} /\ number \in {atoi[v] : v \in replaced} \cup {Garbage}

\* How far the walk is, and what it has still to find.
Walking ==
  LET asked == atOpen["io_timeout_ms"]
  IN  /\ prep.pc \in {"off", "open"} => timeout = 0
      /\ prep.pc = "opened" => prep.node = 0
      /\ prep.pc \in {"walk", "opened"} =>
           IF asked = NoValue
             THEN timeout = 0 /\ \A i \in 1 .. prep.node : Name(i) # "io_timeout_ms"
             ELSE \E i \in DOMAIN nodes :
                    /\ Name(i) = "io_timeout_ms"
                    /\ prep.node < i => MayBe(asked, timeout)
                    /\ prep.pc = "walk" =>
                         IF nodes[i].freed THEN set.value \in replaced
                                           ELSE nodes[i].value \in replaced \cup {asked}

IInv == BlocksAreReachable /\ Distinct /\ Setting /\ Walking

------------------------------------------------------------------------------
\* Looking up a name that has one node, or none.
LEMMA FirstOfOne ==
  ASSUME NEW S \in SUBSET Nat, NEW i \in S, \A j \in S : j = i
  PROVE  First(S) = i
<1>2. i \in Nat /\ i <= i
  OBVIOUS
<1> QED  BY <1>2 DEF First

LEMMA FirstOfNone ==
  ASSUME NEW S, S = {}
  PROVE  First(S) = 0
  BY DEF First

\* The list, and what is said of its nodes.
LEMMA Nodes ==
  ASSUME IInv
  PROVE  /\ nodes \in Seq([key : Keys, value : Values, freed : BOOLEAN])
         /\ Len(nodes) \in Nat /\ DOMAIN nodes = 1 .. Len(nodes)
         /\ \A i \in DOMAIN nodes : /\ nodes[i] \in [key : Keys, value : Values, freed : BOOLEAN]
                                    /\ Name(i) \in Names
<1>1. nodes \in Seq([key : Keys, value : Values, freed : BOOLEAN])
  BY DEF IInv, BlocksAreReachable, TypeOK
<1>2. \A i \in DOMAIN nodes : nodes[i] \in [key : Keys, value : Values, freed : BOOLEAN]
  <2>1. DOMAIN nodes = 1 .. Len(nodes)
    BY <1>1
  <2> QED  BY <1>1, <2>1, ElementOfSeq
<1>3. \A key \in Keys : NameOf(key) \in Names
  BY DEF Keys, NameOf
<1> QED  BY <1>1, <1>2, <1>3 DEF Name

\* Between calls, and at the start.
LEMMA IdleFits ==
  ASSUME NEW n \in Nat
  PROVE  /\ Idle \in [pc : {"idle", "add", "free", "store", "release", "released", "crashed"},
                     key : Keys, value : Values \cup {NoValue}, node : 0 .. n]
         /\ Idle.pc = "idle" /\ Idle.node = 0
<1>1. <<"other", "lower">> \in Keys
  BY DEF Keys, Names
<1> QED  BY <1>1 DEF Idle

LEMMA getOptFinds ==
  ASSUME IInv, NEW key \in Keys
  PROVE  \/ getOpt(key) = 0 /\ \A i \in DOMAIN nodes : Name(i) # NameOf(key)
         \/ getOpt(key) \in DOMAIN nodes /\ Name(getOpt(key)) = NameOf(key)
<1> DEFINE S == {i \in DOMAIN nodes : NameOf(nodes[i].key) = NameOf(key)}
<1>1. getOpt(key) = First(S) /\ S \subseteq DOMAIN nodes /\ S \subseteq Nat
  BY Nodes DEF getOpt
<1>2. CASE S = {}
  <2>1. getOpt(key) = 0
    BY <1>1, <1>2, FirstOfNone
  <2> QED  BY <1>2, <2>1 DEF Name
<1>3. ASSUME NEW i \in S PROVE getOpt(key) = i /\ i \in DOMAIN nodes /\ Name(i) = NameOf(key)
  <2>1. \A j \in S : j = i
    BY DEF IInv, Distinct, Name
  <2> HIDE DEF S
  <2>2. First(S) = i
    BY <1>1, <2>1, FirstOfOne
  <2> QED  BY <1>1, <2>2 DEF S, Name
<1> QED  BY <1>2, <1>3
------------------------------------------------------------------------------
LEMMA InitInv == Init => IInv
<1> SUFFICES ASSUME Init PROVE IInv
  OBVIOUS
<1>1. Len(nodes) = 0 /\ DOMAIN nodes = {} /\ nodes \in Seq([key : Keys, value : Values, freed : BOOLEAN])
  BY DEF Init
<1>2. Idle \in [pc : {"idle", "add", "free", "store", "release", "released", "crashed"},
                key : Keys, value : Values \cup {NoValue}, node : 0 .. 0]
  BY DEF Idle, Keys, Names
<1>3. TypeOK
  <2>1. nodes \in Seq([key : Keys, value : Values, freed : BOOLEAN]) /\ 0 .. Len(nodes) = 0 .. 0
    BY <1>1
  <2>2. set \in [pc : {"idle", "add", "free", "store", "release", "released", "crashed"},
                 key : Keys, value : Values \cup {NoValue}, node : 0 .. Len(nodes)] /\ set.pc = "idle"
    BY <1>2 DEF Init, Idle
  <2>3. sets \in 0 .. MaxSets /\ timeout \in Int /\ blocks \in Nat /\ replaced \subseteq Values
    BY OptionsAssumption DEF Init
  <2>4. prep \in [pc : {"off", "open", "walk", "opened", "failed", "crashed"}, node : 0 .. Len(nodes)]
    BY DEF Init
  <2>5. atOpen \in [Names -> Values \cup {NoValue}]
    BY DEF Init
  <2> QED  BY <2>1, <2>2, <2>3, <2>4, <2>5 DEF TypeOK
<1>4. BlocksAreReachable
  BY <1>3 DEF Init, BlocksAreReachable, Idle
<1>5. Distinct /\ Setting /\ Walking
  BY DEF Init, Distinct, Setting, Walking, Called, Idle
<1> QED  BY <1>4, <1>5 DEF IInv

LEMMA SetFailsKeeps ==
  ASSUME IInv, SetFails
  PROVE  IInv'
<1>1. BlocksAreReachable'
  <2>1. set' = Idle /\ set.pc = "add" /\ UNCHANGED <<nodes, sets, prep, timeout, blocks, history>>
    BY DEF SetFails, SetStep, history
  <2>2. TypeOK'
    BY <2>1, IdleFits DEF IInv, BlocksAreReachable, TypeOK, history
  <2> QED  BY <2>1, <2>2, IdleFits DEF IInv, BlocksAreReachable
<1>2. Distinct'
  BY DEF IInv, Distinct, Name, SetFails
<1>3. Setting'
  BY DEF IInv, Setting, Called, Idle, SetFails, SetStep
<1>4. Walking'
  BY DEF IInv, Walking, MayBe, Setting, Name, SetFails, SetStep
<1> QED  BY <1>1, <1>2, <1>3, <1>4 DEF IInv

LEMMA PrepareKeeps ==
  ASSUME IInv, Prepare
  PROVE  IInv'
<1>1. BlocksAreReachable'
  BY DEF IInv, BlocksAreReachable, TypeOK, Prepare, PrepStep, history
<1>2. Distinct'
  BY DEF IInv, Distinct, Name, Prepare, PrepStep
<1>3. Setting'
  BY DEF IInv, Setting, Prepare, PrepStep
<1>4. Walking'
  BY DEF IInv, Walking, Prepare, PrepStep
<1> QED  BY <1>1, <1>2, <1>3, <1>4 DEF IInv

LEMMA MuxerOpenFailsKeeps ==
  ASSUME IInv, MuxerOpenFails
  PROVE  IInv'
<1>1. BlocksAreReachable'
  BY DEF IInv, BlocksAreReachable, TypeOK, MuxerOpenFails, PrepStep, history
<1>2. Distinct'
  BY DEF IInv, Distinct, Name, MuxerOpenFails, PrepStep
<1>3. Setting'
  BY DEF IInv, Setting, Name, MuxerOpenFails, PrepStep
<1>4. Walking'
  BY DEF Walking, MuxerOpenFails, PrepStep
<1> QED  BY <1>1, <1>2, <1>3, <1>4 DEF IInv

LEMMA WalkEndsKeeps ==
  ASSUME IInv, WalkEnds
  PROVE  IInv'
<1>1. BlocksAreReachable'
  BY DEF IInv, BlocksAreReachable, TypeOK, WalkEnds, PrepStep, history
<1>2. Distinct'
  BY DEF IInv, Distinct, Name, WalkEnds, PrepStep
<1>3. Setting'
  BY DEF IInv, Setting, Name, WalkEnds, PrepStep
<1>4. Walking'
  BY DEF IInv, Walking, MayBe, Name, WalkEnds, PrepStep, history
<1> QED  BY <1>1, <1>2, <1>3, <1>4 DEF IInv

LEMMA ReadFreedValueKeeps ==
  ASSUME IInv, ReadFreedValue
  PROVE  IInv'
<1>1. BlocksAreReachable'
  BY DEF IInv, BlocksAreReachable, TypeOK, ReadFreedValue, PrepStep, history
<1>2. Distinct'
  BY DEF IInv, Distinct, Name, ReadFreedValue, PrepStep
<1>3. Setting'
  BY DEF IInv, Setting, Name, ReadFreedValue, PrepStep
<1>4. Walking'
  BY DEF Walking, ReadFreedValue, PrepStep
<1> QED  BY <1>1, <1>2, <1>3, <1>4 DEF IInv

LEMMA ReleaseKeeps ==
  ASSUME IInv, Release
  PROVE  IInv'
<1>1. BlocksAreReachable'
  <2>1. /\ set' = [Idle EXCEPT !.pc = "release", !.node = Len(nodes)] /\ set.pc = "idle"
        /\ UNCHANGED <<nodes, sets, prep, timeout, blocks, history>>
    BY DEF Release, ReleaseStep, SetStep, history
  <2>2. /\ set' \in [pc : {"idle", "add", "free", "store", "release", "released", "crashed"},
                     key : Keys, value : Values \cup {NoValue}, node : 0 .. Len(nodes)]
        /\ set'.pc = "release" /\ set'.node = Len(nodes)
    <3>1. Idle \in [pc : {"idle", "add", "free", "store", "release", "released", "crashed"},
                   key : Keys, value : Values \cup {NoValue}, node : 0 .. Len(nodes)]
      BY IdleFits
    <3>2. Len(nodes) \in 0 .. Len(nodes)
      BY Nodes
    <3> QED  BY <2>1, <3>1, <3>2
  <2>3. TypeOK'
    BY <2>1, <2>2 DEF IInv, BlocksAreReachable, TypeOK, history
  <2> QED  BY <2>1, <2>3 DEF IInv, BlocksAreReachable
<1>2. Distinct'
  BY DEF IInv, Distinct, Name, Release, ReleaseStep
<1>3. Setting'
  BY DEF IInv, Setting, Called, Release, ReleaseStep, SetStep
<1>4. Walking'
  BY DEF IInv, Walking, MayBe, Name, Release, ReleaseStep, SetStep
<1> QED  BY <1>1, <1>2, <1>3, <1>4 DEF IInv

LEMMA ReleaseNodeKeeps ==
  ASSUME IInv, ReleaseNode
  PROVE  IInv'
<1>1. BlocksAreReachable'
  <2>1. /\ set' = [set EXCEPT !.node = set.node - 1] /\ set.pc = "release" /\ set.node > 0 /\ blocks' = blocks - 3
        /\ UNCHANGED <<nodes, sets, prep, timeout, history>>
    BY DEF ReleaseNode, ReleaseStep, SetStep, history
  <2>2. blocks = 3 * set.node /\ set.node \in 0 .. Len(nodes) /\ Len(nodes) \in Nat
    BY <2>1 DEF IInv, BlocksAreReachable, TypeOK
  <2>3. set.node - 1 \in 0 .. Len(nodes) /\ blocks' = 3 * (set.node - 1) /\ blocks' \in Nat
    BY <2>1, <2>2
  <2>4. /\ set' \in [pc : {"idle", "add", "free", "store", "release", "released", "crashed"},
                     key : Keys, value : Values \cup {NoValue}, node : 0 .. Len(nodes)]
        /\ set'.pc = "release" /\ set'.node = set.node - 1
    BY <2>1, SMTT(30) DEF IInv, BlocksAreReachable, TypeOK
  <2>5. TypeOK'
    BY <2>1, <2>4 DEF IInv, BlocksAreReachable, TypeOK, history
  <2> QED  BY <2>3, <2>4, <2>5 DEF BlocksAreReachable
<1>2. Distinct'
  BY DEF IInv, Distinct, Name, ReleaseNode, ReleaseStep
<1>3. Setting'
  BY DEF IInv, Setting, ReleaseNode, ReleaseStep, SetStep
<1>4. Walking'
  BY DEF IInv, Walking, MayBe, Name, ReleaseNode, ReleaseStep, SetStep
<1> QED  BY <1>1, <1>2, <1>3, <1>4 DEF IInv

LEMMA ReadFreedNextKeeps ==
  ASSUME IInv, ReadFreedNext
  PROVE  IInv'
<1>1. BlocksAreReachable'
  BY DEF IInv, BlocksAreReachable, TypeOK, ReadFreedNext, ReleaseStep, SetStep
<1>2. Distinct'
  BY DEF IInv, Distinct, Name, ReadFreedNext, ReleaseStep
<1>3. Setting'
  BY DEF IInv, Setting, Called, ReadFreedNext, ReleaseStep, SetStep
<1>4. Walking'
  BY DEF IInv, Walking, MayBe, Name, ReadFreedNext, ReleaseStep, SetStep
<1> QED  BY <1>1, <1>2, <1>3, <1>4 DEF IInv

LEMMA ReleaseEndsKeeps ==
  ASSUME IInv, ReleaseEnds
  PROVE  IInv'
<1>1. BlocksAreReachable'
  <2>1. /\ set' = [set EXCEPT !.pc = "released"] /\ set.pc = "release" /\ set.node = 0
        /\ UNCHANGED <<nodes, sets, prep, timeout, blocks, history>>
    BY DEF ReleaseEnds, ReleaseStep, SetStep, history
  <2>2. blocks = 0 /\ set'.pc = "released"
    BY <2>1 DEF IInv, BlocksAreReachable, TypeOK
  <2>3. TypeOK'
    BY <2>1 DEF IInv, BlocksAreReachable, TypeOK, history
  <2> QED  BY <2>1, <2>2, <2>3 DEF BlocksAreReachable
<1>2. Distinct'
  BY DEF IInv, Distinct, Name, ReleaseEnds, ReleaseStep
<1>3. Setting'
  BY DEF IInv, Setting, Called, ReleaseEnds, ReleaseStep, SetStep
<1>4. Walking'
  BY DEF IInv, Walking, MayBe, Name, ReleaseEnds, ReleaseStep, SetStep
<1> QED  BY <1>1, <1>2, <1>3, <1>4 DEF IInv

LEMMA StutterKeeps ==
  ASSUME IInv, UNCHANGED vars
  PROVE  IInv'
<1>1. BlocksAreReachable'
  BY DEF IInv, BlocksAreReachable, TypeOK, vars, history
<1>2. Distinct'
  BY DEF IInv, Distinct, Name, vars
<1>3. Setting'
  BY DEF IInv, Setting, Name, vars
<1>4. Walking'
  BY DEF IInv, Walking, MayBe, Name, vars, history
<1> QED  BY <1>1, <1>2, <1>3, <1>4 DEF IInv

------------------------------------------------------------------------------
LEMMA SetCallKeeps ==
  ASSUME IInv, NEW key \in Keys, NEW value \in Values, SetCall(key, value)
  PROVE  IInv'
<1> DEFINE i == getOpt(key)
<1>1. /\ set.pc = "idle" /\ sets' = sets + 1 /\ sets < MaxSets
      /\ set' = [pc |-> IF i = 0 THEN "add" ELSE "free", key |-> key, value |-> value, node |-> i]
      /\ UNCHANGED <<nodes, prep, timeout, blocks, atOpen, replaced>>
  BY DEF SetCall, SetStep
<1>2. \/ i = 0 /\ \A j \in DOMAIN nodes : Name(j) # NameOf(key)
      \/ i \in DOMAIN nodes /\ Name(i) = NameOf(key)
  BY getOptFinds
<1> HIDE DEF i
<1>3. i \in 0 .. Len(nodes) /\ (i # 0 => i > 0)
  BY <1>2
<1>4. BlocksAreReachable'
  <2>1. sets' \in 0 .. MaxSets
    BY <1>1, OptionsAssumption DEF IInv, BlocksAreReachable, TypeOK
  <2>2. /\ set' \in [pc : {"idle", "add", "free", "store", "release", "released", "crashed"},
                     key : Keys, value : Values \cup {NoValue}, node : 0 .. Len(nodes)]
        /\ set'.pc \in {"add", "free"} /\ (set'.pc = "free" => set'.node > 0)
    BY <1>1, <1>3
  <2>3. TypeOK'
    BY <1>1, <2>1, <2>2 DEF IInv, BlocksAreReachable, TypeOK
  <2> QED  BY <1>1, <2>3 DEF IInv, BlocksAreReachable
<1>5. Distinct'
  BY <1>1 DEF IInv, Distinct, Name
<1>6. Setting'
  <2>1. \A j \in DOMAIN nodes : ~nodes[j].freed
    BY <1>1 DEF IInv, Setting
  <2> QED  BY <1>1, <1>2, <1>3, <2>1 DEF Setting, Name
<1>7. Walking'
  <2>1. \A j \in DOMAIN nodes : ~nodes[j].freed
    BY <1>1 DEF IInv, Setting
  <2> QED  BY <1>1, <2>1 DEF IInv, Walking, MayBe, Name
<1> QED  BY <1>4, <1>5, <1>6, <1>7 DEF IInv

LEMMA SetAddKeeps ==
  ASSUME IInv, SetAdd
  PROVE  IInv'
<1> DEFINE new == [key |-> set.key, value |-> set.value, freed |-> FALSE]
<1>1. /\ set.pc = "add" /\ set' = Idle /\ nodes' = Append(nodes, new) /\ blocks' = blocks + 3
      /\ UNCHANGED <<sets, prep, timeout, atOpen, replaced>>
  BY DEF SetAdd, SetStep
<1>2. new \in [key : Keys, value : Values, freed : BOOLEAN] /\ new.key = set.key /\ ~new.freed
  BY <1>1 DEF IInv, Setting, Called, BlocksAreReachable, TypeOK
<1> HIDE DEF new
<1>3. /\ nodes' \in Seq([key : Keys, value : Values, freed : BOOLEAN]) /\ Len(nodes') = Len(nodes) + 1
      /\ Len(nodes) \in Nat /\ DOMAIN nodes' = DOMAIN nodes \cup {Len(nodes) + 1}
      /\ \A i \in DOMAIN nodes : i # Len(nodes) + 1 /\ nodes'[i] = nodes[i]
      /\ nodes'[Len(nodes) + 1] = new
  <2>1. /\ nodes' \in Seq([key : Keys, value : Values, freed : BOOLEAN]) /\ Len(nodes') = Len(nodes) + 1
        /\ nodes'[Len(nodes) + 1] = new
    BY <1>1, <1>2, Nodes
  <2>2. \A i \in 1 .. Len(nodes) : nodes'[i] = nodes[i]
    BY <1>1
  <2> QED  BY <2>1, <2>2
<1>4. BlocksAreReachable'
  <2>1. /\ Idle \in [pc : {"idle", "add", "free", "store", "release", "released", "crashed"},
                     key : Keys, value : Values \cup {NoValue}, node : 0 .. Len(nodes')]
        /\ Idle.pc = "idle"
    BY IdleFits
  <2>2. blocks = 3 * Len(nodes)
    BY <1>1 DEF IInv, BlocksAreReachable
  <2>3. blocks' = 3 * Len(nodes') /\ blocks' \in Nat
    BY <1>1, <2>2
  <2>5. TypeOK'
    BY <1>1, <1>3, <2>1 DEF IInv, BlocksAreReachable, TypeOK
  <2> QED  BY <1>1, <2>1, <2>3, <2>5 DEF BlocksAreReachable
<1>5. Distinct'
  <2>1. \A i \in DOMAIN nodes : Name(i) # NameOf(set.key)
    BY <1>1 DEF IInv, Setting
  <2> QED  BY <1>2, <1>3, <2>1 DEF IInv, Distinct, Name
<1>6. Setting'
  <2>1. \A i \in DOMAIN nodes : ~nodes[i].freed
    BY <1>1 DEF IInv, Setting
  <2>2. \A i \in DOMAIN nodes' : ~nodes'[i].freed
    BY <1>2, <1>3, <2>1
  <2>3. set'.pc = "idle"
    BY <1>1 DEF Idle
  <2> QED  BY <2>2, <2>3 DEF Setting, Called
<1>7. Walking'
  <2>1. \A i \in DOMAIN nodes : ~nodes[i].freed /\ nodes'[i] = nodes[i] /\ i \in DOMAIN nodes'
    BY <1>1 DEF IInv, Setting
  <2>2. \A i \in 1 .. prep.node : i \in DOMAIN nodes
    BY DEF IInv, BlocksAreReachable, TypeOK
  <2> QED  BY <1>1, <2>1, <2>2 DEF IInv, Walking, MayBe, Name
<1> QED  BY <1>4, <1>5, <1>6, <1>7 DEF IInv

\* A node whose value is assigned.
LEMMA ValueAssigned ==
  ASSUME NEW node \in [key : Keys, value : Values, freed : BOOLEAN], NEW value \in Values
  PROVE  /\ [node EXCEPT !.value = value] = [key |-> node.key, value |-> value, freed |-> node.freed]
         /\ [node EXCEPT !.value = value] \in [key : Keys, value : Values, freed : BOOLEAN]
<1>1. [node EXCEPT !.value = value] = [key |-> node.key, value |-> value, freed |-> node.freed]
  OBVIOUS
<1> QED  BY <1>1

\* Replacing a value changes one node, and not its key.
LEMMA ReplaceNode ==
  ASSUME IInv, set.pc \in {"free", "store"}, NEW value \in Values, NEW freed \in BOOLEAN,
         nodes' = [nodes EXCEPT ![set.node] = [key |-> nodes[set.node].key, value |-> value, freed |-> freed]]
  PROVE  /\ set.node \in DOMAIN nodes /\ Name(set.node) = NameOf(set.key)
         /\ nodes' \in Seq([key : Keys, value : Values, freed : BOOLEAN])
         /\ Len(nodes') = Len(nodes) /\ DOMAIN nodes' = DOMAIN nodes
         /\ \A i \in DOMAIN nodes : /\ nodes'[i].key = nodes[i].key
                                    /\ i # set.node => nodes'[i] = nodes[i]
         /\ nodes'[set.node].value = value /\ nodes'[set.node].freed = freed
<1>1. set.node \in DOMAIN nodes /\ Name(set.node) = NameOf(set.key)
  BY DEF IInv, Setting, BlocksAreReachable, TypeOK
<1>3. nodes' \in Seq([key : Keys, value : Values, freed : BOOLEAN]) /\ Len(nodes') = Len(nodes) /\ DOMAIN nodes' = DOMAIN nodes
  BY <1>1, Nodes
<1> QED  BY <1>1, <1>3


\* What the time-out may be stays so when there are more values that have replaced it.
LEMMA MayBeStays ==
  ASSUME UNCHANGED atOpen, replaced \subseteq replaced', NEW asked, NEW number, MayBe(asked, number)
  PROVE  MayBe(asked, number)'
BY DEF MayBe

LEMMA SetFreeKeeps ==
  ASSUME IInv, SetFree
  PROVE  IInv'
<1> DEFINE old == nodes[set.node]
<1>1. /\ set.pc = "free" /\ set' = [set EXCEPT !.pc = "store"] /\ blocks' = blocks - 1
      /\ nodes' = [nodes EXCEPT ![set.node].freed = TRUE]
      /\ replaced' = ReplacedBy(prep.pc = "walk")
      /\ UNCHANGED <<sets, prep, timeout, atOpen>>
  BY DEF SetFree, SetStep
<1>2. /\ set.node \in DOMAIN nodes /\ old \in [key : Keys, value : Values, freed : BOOLEAN]
      /\ set.value \in Values /\ set.node \in 0 .. Len(nodes) /\ set.node > 0
      /\ NameOf(old.key) = NameOf(set.key)
  BY <1>1, Nodes DEF IInv, BlocksAreReachable, TypeOK, Setting, Called, Name
<1>3. nodes' = [nodes EXCEPT ![set.node] = [key |-> old.key, value |-> old.value, freed |-> TRUE]]
  <2>1. nodes' = [nodes EXCEPT ![set.node] = [old EXCEPT !.freed = TRUE]]
    BY <1>1
  <2>2. [old EXCEPT !.freed = TRUE] = [key |-> old.key, value |-> old.value, freed |-> TRUE]
    <3>1. PICK freed \in BOOLEAN : freed = TRUE
      OBVIOUS
    <3>2. [old EXCEPT !.freed = freed] = [key |-> old.key, value |-> old.value, freed |-> freed]
      BY <1>2
    <3> QED  BY <3>1, <3>2
  <2> QED  BY <2>1, <2>2
<1>4. /\ nodes' \in Seq([key : Keys, value : Values, freed : BOOLEAN])
      /\ Len(nodes') = Len(nodes) /\ DOMAIN nodes' = DOMAIN nodes
      /\ \A i \in DOMAIN nodes : /\ nodes'[i].key = nodes[i].key
                                 /\ i # set.node => nodes'[i] = nodes[i]
      /\ nodes'[set.node].freed = TRUE
  BY <1>1, <1>2, <1>3, ReplaceNode
<1>5. /\ set' \in [pc : {"idle", "add", "free", "store", "release", "released", "crashed"},
                   key : Keys, value : Values \cup {NoValue}, node : 0 .. Len(nodes)]
      /\ set'.pc = "store" /\ set'.key = set.key /\ set'.value = set.value /\ set'.node = set.node
  BY <1>1 DEF IInv, BlocksAreReachable, TypeOK
<1>6. replaced' \subseteq Values /\ replaced \subseteq replaced'
  BY <1>1, <1>2 DEF IInv, BlocksAreReachable, TypeOK, ReplacedBy
<1>7. BlocksAreReachable'
  <2>1. blocks = 3 * Len(nodes) /\ Len(nodes) \in Nat /\ Len(nodes) > 0
    BY <1>1, <1>2 DEF IInv, BlocksAreReachable
  <2>2. blocks' = 3 * Len(nodes') - 1 /\ blocks' \in Nat
    BY <1>1, <2>1
  <2>3. TypeOK'
    BY <1>1, <1>4, <1>6, SMTT(30) DEF IInv, BlocksAreReachable, TypeOK
  <2> QED  BY <1>5, <2>2, <2>3 DEF BlocksAreReachable
<1>8. Distinct'
  BY <1>4 DEF IInv, Distinct, Name
<1>9. Setting'
  <2>1. \A i \in DOMAIN nodes : ~nodes[i].freed
    BY <1>1 DEF IInv, Setting
  <2> QED  BY <1>2, <1>4, <1>5, <2>1 DEF Setting, Name
<1>10. Walking'
  <2> DEFINE asked == atOpen["io_timeout_ms"]
  <2>1. \A i \in DOMAIN nodes : ~nodes[i].freed
    BY <1>1 DEF IInv, Setting
  <2>2. CASE prep.pc \in {"walk", "opened"} /\ asked # NoValue
    <3>1. PICK i \in DOMAIN nodes :
            /\ Name(i) = "io_timeout_ms"
            /\ prep.node < i => MayBe(asked, timeout)
            /\ prep.pc = "walk" => nodes[i].value \in replaced \cup {asked}
      BY <2>1, <2>2 DEF IInv, Walking
    <3>2. prep.node < i => MayBe(asked, timeout)'
      BY <1>1, <1>6, <3>1, MayBeStays
    <3>3. ASSUME prep.pc = "walk"
          PROVE  IF nodes'[i].freed THEN set'.value \in replaced' ELSE nodes'[i].value \in replaced' \cup {asked}
      <4>1. CASE i = set.node
        BY <1>1, <1>2, <3>1, <3>3, <4>1 DEF ReplacedBy, Timeout, Name
      <4>2. CASE i # set.node
        BY <1>4, <1>6, <2>1, <3>1, <3>3, <4>2
      <4> QED  BY <4>1, <4>2
    <3>4. i \in DOMAIN nodes' /\ Name(i)' = "io_timeout_ms"
      BY <1>4, <3>1 DEF Name
    <3> QED  BY <1>1, <2>2, <3>2, <3>3, <3>4 DEF IInv, Walking
  <2>3. CASE ~(prep.pc \in {"walk", "opened"} /\ asked # NoValue)
    BY <1>1, <2>3 DEF IInv, Walking, Name
  <2> QED  BY <2>2, <2>3
<1> QED  BY <1>7, <1>8, <1>9, <1>10 DEF IInv

LEMMA SetStoreKeeps ==
  ASSUME IInv, SetStore
  PROVE  IInv'
<1> DEFINE old == nodes[set.node]
<1>1. /\ set.pc = "store" /\ set' = Idle /\ blocks' = blocks + 1
      /\ nodes' = [nodes EXCEPT ![set.node].value = set.value, ![set.node].freed = FALSE]
      /\ UNCHANGED <<sets, prep, timeout, atOpen, replaced>>
  BY DEF SetStore, SetStep
<1>2. /\ set.node \in DOMAIN nodes /\ old \in [key : Keys, value : Values, freed : BOOLEAN]
      /\ set.value \in Values /\ old.freed
  BY <1>1, Nodes DEF IInv, BlocksAreReachable, TypeOK, Setting, Called
<1>3. nodes' = [nodes EXCEPT ![set.node] = [key |-> old.key, value |-> set.value, freed |-> FALSE]]
  <2>1. nodes' = [nodes EXCEPT ![set.node] = [[old EXCEPT !.value = set.value] EXCEPT !.freed = FALSE]]
    BY <1>1
  <2>2. [[old EXCEPT !.value = set.value] EXCEPT !.freed = FALSE] = [key |-> old.key, value |-> set.value, freed |-> FALSE]
    <3> DEFINE new == [old EXCEPT !.value = set.value]
    <3>1. /\ new = [key |-> old.key, value |-> set.value, freed |-> old.freed]
          /\ new \in [key : Keys, value : Values, freed : BOOLEAN]
      BY <1>2, ValueAssigned
    <3> HIDE DEF new
    <3>2. PICK freed \in BOOLEAN : freed = FALSE
      OBVIOUS
    <3>3. [new EXCEPT !.freed = freed] = [key |-> new.key, value |-> new.value, freed |-> freed]
      BY <3>1
    <3> QED  BY <3>2, <3>3 DEF new
  <2> QED  BY <2>1, <2>2
<1>4. /\ nodes' \in Seq([key : Keys, value : Values, freed : BOOLEAN])
      /\ Len(nodes') = Len(nodes) /\ DOMAIN nodes' = DOMAIN nodes
      /\ \A i \in DOMAIN nodes : /\ nodes'[i].key = nodes[i].key
                                 /\ i # set.node => nodes'[i] = nodes[i]
      /\ nodes'[set.node].value = set.value /\ nodes'[set.node].freed = FALSE
  BY <1>1, <1>2, <1>3
<1>5. \A i \in DOMAIN nodes : i # set.node => ~nodes[i].freed
  BY DEF IInv, Setting
<1>6. BlocksAreReachable'
  <2>1. blocks = 3 * Len(nodes) - 1 /\ Len(nodes) \in Nat
    BY <1>1 DEF IInv, BlocksAreReachable
  <2>2. blocks' = 3 * Len(nodes') /\ blocks' \in Nat
    BY <1>1, <2>1
  <2>3. /\ Idle \in [pc : {"idle", "add", "free", "store", "release", "released", "crashed"},
                     key : Keys, value : Values \cup {NoValue}, node : 0 .. Len(nodes)]
        /\ Idle.pc = "idle"
    BY IdleFits
  <2>4. TypeOK'
    BY <1>1, <1>4, <2>3 DEF IInv, BlocksAreReachable, TypeOK
  <2> QED  BY <1>1, <2>2, <2>3, <2>4 DEF BlocksAreReachable
<1>7. Distinct'
  BY <1>4 DEF IInv, Distinct, Name
<1>8. Setting'
  BY <1>1, <1>5 DEF Setting, Called, Idle
<1>9. Walking'
  <2> DEFINE asked == atOpen["io_timeout_ms"]
  <2>1. CASE prep.pc \in {"walk", "opened"} /\ asked # NoValue
    <3>1. PICK i \in DOMAIN nodes :
            /\ Name(i) = "io_timeout_ms"
            /\ prep.node < i => MayBe(asked, timeout)
            /\ prep.pc = "walk" =>
                 IF nodes[i].freed THEN set.value \in replaced ELSE nodes[i].value \in replaced \cup {asked}
      BY <2>1 DEF IInv, Walking
    <3>2. prep.node < i => MayBe(asked, timeout)'
      BY <1>1, <3>1, MayBeStays
    <3>3. ASSUME prep.pc = "walk"
          PROVE  ~nodes'[i].freed /\ nodes'[i].value \in replaced' \cup {asked}
      <4>1. CASE i = set.node
        BY <1>1, <1>2, <3>1, <3>3, <4>1
      <4>2. CASE i # set.node
        BY <1>1, <1>5, <3>1, <3>3, <4>2
      <4> QED  BY <4>1, <4>2
    <3>4. i \in DOMAIN nodes' /\ Name(i)' = "io_timeout_ms"
      BY <1>4, <3>1 DEF Name
    <3> QED  BY <1>1, <2>1, <3>2, <3>3, <3>4 DEF IInv, Walking
  <2>2. CASE ~(prep.pc \in {"walk", "opened"} /\ asked # NoValue)
    <3>1. \A i \in 1 .. prep.node : i \in DOMAIN nodes
      BY DEF IInv, BlocksAreReachable, TypeOK
    <3> QED  BY <1>1, <2>2, <3>1 DEF IInv, Walking, Name
  <2> QED  BY <2>1, <2>2
<1> QED  BY <1>6, <1>7, <1>8, <1>9 DEF IInv

------------------------------------------------------------------------------
\* The options by name, of a list in which a name has one node at most.
Shown(list, value, i) == IF list[i].freed THEN value ELSE list[i].value

OptionIn(list, value) ==
  [n \in Names |-> LET i == First({j \in DOMAIN list : NameOf(list[j].key) = n})
                   IN  IF i = 0 THEN NoValue
                       ELSE IF list[i].freed THEN value ELSE list[i].value]

LEMMA OptionsOfLists == Option = OptionIn(nodes, set.value) /\ Option' = OptionIn(nodes', set'.value)
  BY DEF Option, OptionIn

LEMMA OptionAt ==
  ASSUME NEW list, DOMAIN list \subseteq Nat \ {0}, NEW value, NEW n \in Names,
         NEW i \in DOMAIN list, NameOf(list[i].key) = n,
         \A j \in DOMAIN list : NameOf(list[j].key) = n => j = i
  PROVE  OptionIn(list, value)[n] = Shown(list, value, i)
<1> DEFINE S == {j \in DOMAIN list : NameOf(list[j].key) = n}
<1>1. S \in SUBSET Nat /\ i \in S /\ \A j \in S : j = i
  OBVIOUS
<1>2. OptionIn(list, value)[n] = IF First(S) = 0 THEN NoValue ELSE Shown(list, value, First(S))
  BY DEF OptionIn, Shown
<1> HIDE DEF S
<1>3. First(S) = i /\ i # 0
  BY <1>1, FirstOfOne
<1> QED  BY <1>2, <1>3

LEMMA OptionMissing ==
  ASSUME NEW list, NEW value, NEW n \in Names, \A j \in DOMAIN list : NameOf(list[j].key) # n
  PROVE  OptionIn(list, value)[n] = NoValue
<1>1. First({j \in DOMAIN list : NameOf(list[j].key) = n}) = 0
  BY FirstOfNone
<1> QED  BY <1>1 DEF OptionIn

\* The same in this list.
LEMMA OptionNow ==
  ASSUME IInv, NEW n \in Names
  PROVE  /\ \A i \in DOMAIN nodes : Name(i) = n =>
              /\ Option[n] = IF nodes[i].freed THEN set.value ELSE nodes[i].value
              /\ Option[n] \in Values
         /\ (\A i \in DOMAIN nodes : Name(i) # n) => Option[n] = NoValue
<1>1. ASSUME NEW i \in DOMAIN nodes, Name(i) = n
      PROVE  /\ Option[n] = IF nodes[i].freed THEN set.value ELSE nodes[i].value
             /\ Option[n] \in Values
  <2>1. \A j \in DOMAIN nodes : NameOf(nodes[j].key) = n => j = i
    BY <1>1 DEF IInv, Distinct, Name
  <2>2. DOMAIN nodes \subseteq Nat \ {0} /\ NameOf(nodes[i].key) = n
    BY <1>1, Nodes DEF Name
  <2>3. OptionIn(nodes, set.value)[n] = Shown(nodes, set.value, i)
    BY <2>1, <2>2, OptionAt
  <2>4. nodes[i].freed => set.value \in Values
    BY DEF IInv, Setting, Called
  <2>5. nodes[i].value \in Values
    BY Nodes
  <2> QED  BY <2>3, <2>4, <2>5, OptionsOfLists DEF Shown
<1>2. ASSUME \A i \in DOMAIN nodes : Name(i) # n PROVE Option[n] = NoValue
  BY <1>2, OptionMissing, OptionsOfLists DEF Name
<1> QED  BY <1>1, <1>2
------------------------------------------------------------------------------
LEMMA MuxerOpenKeeps ==
  ASSUME IInv, MuxerOpen
  PROVE  IInv'
<1> DEFINE asked == Option["io_timeout_ms"]
<1>1. /\ prep.pc = "open" /\ prep' = [pc |-> "walk", node |-> Len(nodes)] /\ atOpen' = Option
      /\ replaced' = ReplacedBy(set.pc = "store")
      /\ UNCHANGED <<nodes, set, sets, blocks, timeout>>
  BY DEF MuxerOpen, PrepStep
<1>2. "io_timeout_ms" \in Names
  BY DEF Names
<1>3. Option \in [Names -> Values \cup {NoValue}]
  <2>1. \A n \in Names : Option[n] \in Values \cup {NoValue}
    BY OptionNow
  <2> QED  BY <2>1 DEF Option
<1>4. replaced' \subseteq Values /\ replaced \subseteq replaced'
  BY <1>1 DEF IInv, BlocksAreReachable, TypeOK, Setting, Called, ReplacedBy
<1>5. BlocksAreReachable'
  <2>2. TypeOK'
    BY <1>1, <1>3, <1>4 DEF IInv, BlocksAreReachable, TypeOK
  <2> QED  BY <1>1, <2>2 DEF IInv, BlocksAreReachable
<1>6. Distinct'
  BY <1>1 DEF IInv, Distinct, Name
<1>7. Setting'
  BY <1>1 DEF IInv, Setting, Name
<1>8. Walking'
  <2>1. timeout = 0 /\ prep'.pc = "walk" /\ prep'.node = Len(nodes) /\ atOpen'["io_timeout_ms"] = asked
    BY <1>1 DEF IInv, Walking
  <2>2. CASE \A i \in DOMAIN nodes : Name(i) # "io_timeout_ms"
    <3>1. asked = NoValue
      BY <1>2, <2>2, OptionNow
    <3> QED  BY <1>1, <2>1, <2>2, <3>1 DEF Walking, Name
  <2>3. ASSUME NEW i \in DOMAIN nodes, Name(i) = "io_timeout_ms" PROVE Walking'
    <3>1. asked = (IF nodes[i].freed THEN set.value ELSE nodes[i].value) /\ asked \in Values
      BY <1>2, <2>3, OptionNow
    <3>2. asked # NoValue /\ ~(Len(nodes) < i)
      BY <3>1, OptionsAssumption
    <3>3. ASSUME nodes[i].freed PROVE set.value \in replaced'
      <4>1. set.pc = "store" /\ i = set.node
        BY <3>3 DEF IInv, Setting
      <4>2. NameOf(set.key) = "io_timeout_ms"
        BY <2>3, <4>1 DEF IInv, Setting
      <4> QED  BY <1>1, <4>1, <4>2 DEF ReplacedBy, Timeout
    <3> QED  BY <1>1, <2>3, <3>1, <3>2, <3>3 DEF Walking, Name
  <2> QED  BY <2>2, <2>3
<1> QED  BY <1>5, <1>6, <1>7, <1>8 DEF IInv

LEMMA WalkKeeps ==
  ASSUME IInv, Walk
  PROVE  IInv'
<1> DEFINE k == prep.node
           asked == atOpen["io_timeout_ms"]
<1>1. /\ k > 0 /\ prep.pc = "walk" /\ prep' = [prep EXCEPT !.node = k - 1]
      /\ timeout' = IF Name(k) = "io_timeout_ms"
                    THEN IF nodes[k].freed THEN Garbage ELSE atoi[nodes[k].value]
                    ELSE timeout
      /\ UNCHANGED <<nodes, set, sets, blocks, atOpen, replaced>>
  BY DEF Walk, PrepStep, koala_muxer_setopt, Timeout, Name, history
<1>2. k \in DOMAIN nodes /\ k \in 1 .. Len(nodes) /\ nodes[k].value \in Values
  BY <1>1, Nodes DEF IInv, BlocksAreReachable, TypeOK
<1>4. timeout' \in Int
  BY <1>1, <1>2, OptionsAssumption DEF IInv, BlocksAreReachable, TypeOK
<1>5. BlocksAreReachable'
  <2>1. TypeOK'
    BY <1>1, <1>4 DEF IInv, BlocksAreReachable, TypeOK
  <2> QED  BY <1>1, <2>1 DEF IInv, BlocksAreReachable
<1>6. Distinct'
  BY <1>1 DEF IInv, Distinct, Name
<1>7. Setting'
  BY <1>1 DEF IInv, Setting, Name
<1>8. Walking'
  <2>1. CASE asked = NoValue
    <3>1. timeout = 0 /\ \A i \in 1 .. k : Name(i) # "io_timeout_ms"
      BY <1>1, <2>1 DEF IInv, Walking
    <3>2. k \in 1 .. k /\ 1 .. k - 1 \subseteq 1 .. k
      BY <1>2
    <3> QED  BY <1>1, <2>1, <3>1, <3>2 DEF Walking, Name
  <2>2. CASE asked # NoValue
    <3>1. PICK i \in DOMAIN nodes :
            /\ Name(i) = "io_timeout_ms"
            /\ k < i => MayBe(asked, timeout)
            /\ IF nodes[i].freed THEN set.value \in replaced ELSE nodes[i].value \in replaced \cup {asked}
      BY <1>1, <2>2 DEF IInv, Walking
    <3>2. ASSUME k - 1 < i PROVE MayBe(asked, timeout)'
      <4>1. CASE k = i
        <5>1. CASE nodes[i].freed
          BY <1>1, <3>1, <4>1 DEF MayBe
        <5>2. CASE ~nodes[i].freed
          BY <1>1, <3>1, <4>1 DEF MayBe
        <5> QED  BY <5>1, <5>2
      <4>2. CASE k # i
        <5>1. k < i
          BY <1>2, <3>2, <4>2
        <5>2. Name(k) # "io_timeout_ms"
          BY <1>2, <3>1, <4>2 DEF IInv, Distinct
        <5>3. timeout' = timeout
          BY <1>1, <5>2
        <5> QED  BY <1>1, <3>1, <5>1, <5>3 DEF MayBe
      <4> QED  BY <4>1, <4>2
    <3> QED  BY <1>1, <2>2, <3>1, <3>2 DEF Walking, Name
  <2> QED  BY <2>1, <2>2
<1> QED  BY <1>5, <1>6, <1>7, <1>8 DEF IInv

LEMMA NextInv == IInv /\ [Next]_vars => IInv'
<1> SUFFICES ASSUME IInv, [Next]_vars PROVE IInv'
  OBVIOUS
<1>1. CASE \E key \in Keys, value \in Values : SetCall(key, value)
  BY <1>1, SetCallKeeps
<1>2. CASE SetAdd \/ SetFails \/ SetFree \/ SetStore
  BY <1>2, SetAddKeeps, SetFailsKeeps, SetFreeKeeps, SetStoreKeeps
<1>3. CASE Prepare \/ MuxerOpen \/ MuxerOpenFails \/ Walk \/ ReadFreedValue \/ WalkEnds
  BY <1>3, PrepareKeeps, MuxerOpenKeeps, MuxerOpenFailsKeeps, WalkKeeps, ReadFreedValueKeeps,
     WalkEndsKeeps
<1>4. CASE Release \/ ReleaseNode \/ ReadFreedNext \/ ReleaseEnds
  BY <1>4, ReleaseKeeps, ReleaseNodeKeeps, ReadFreedNextKeeps, ReleaseEndsKeeps
<1>5. CASE UNCHANGED vars
  BY <1>5, StutterKeeps
<1> QED  BY <1>1, <1>2, <1>3, <1>4, <1>5 DEF Next

\* The inductive invariant.
THEOREM Invariance == Spec => []IInv
  BY InitInv, NextInv, PTL DEF Spec

\* However the calls, the walk and the release are interleaved, every block of the options
\* belongs to a node of the list or was freed, once.
THEOREM BlocksAccountedFor == Spec => []BlocksAreReachable
<1>1. IInv => BlocksAreReachable
  BY DEF IInv
<1> QED  BY <1>1, Invariance, PTL

\* muxer_open has applied the time-out that it found, or one that replaced it meanwhile.
THEOREM TimeoutApplied == Spec => []OptionApplied
<1>1. IInv => OptionApplied
  <2> SUFFICES ASSUME IInv, prep.pc = "opened", atOpen["io_timeout_ms"] # NoValue
               PROVE  MayBe(atOpen["io_timeout_ms"], timeout)
    BY DEF IInv, Walking, OptionApplied, MayBe
  <2>1. PICK i \in DOMAIN nodes : prep.node < i => MayBe(atOpen["io_timeout_ms"], timeout)
    BY DEF IInv, Walking
  <2>2. prep.node = 0 /\ 0 < i
    BY Nodes DEF IInv, Walking
  <2> QED  BY <2>1, <2>2
<1> QED  BY <1>1, Invariance, PTL

------------------------------------------------------------------------------
\* The list implements the map.

\* The options stay the same when every node shows what it did.
LEMMA OptionStays ==
  ASSUME IInv, DOMAIN nodes' = DOMAIN nodes,
         \A i \in DOMAIN nodes : /\ nodes'[i].key = nodes[i].key
                                 /\ Shown(nodes', set'.value, i) = Shown(nodes, set.value, i)
  PROVE  Option' = Option
<1>1. ASSUME NEW n \in Names
      PROVE  OptionIn(nodes', set'.value)[n] = OptionIn(nodes, set.value)[n]
  <2>1. CASE \A i \in DOMAIN nodes : Name(i) # n
    <3>1. OptionIn(nodes, set.value)[n] = NoValue
      BY <2>1, OptionMissing DEF Name
    <3>2. \A i \in DOMAIN nodes' : NameOf(nodes'[i].key) # n
      BY <2>1 DEF Name
    <3>3. OptionIn(nodes', set'.value)[n] = NoValue
      BY <3>2, OptionMissing
    <3> QED  BY <3>1, <3>3
  <2>2. ASSUME NEW i \in DOMAIN nodes, Name(i) = n
        PROVE  OptionIn(nodes', set'.value)[n] = OptionIn(nodes, set.value)[n]
    <3>1. \A j \in DOMAIN nodes : NameOf(nodes[j].key) = n => j = i
      BY <2>2 DEF IInv, Distinct, Name
    <3>2. DOMAIN nodes \subseteq Nat \ {0}
      BY Nodes
    <3>3. OptionIn(nodes, set.value)[n] = Shown(nodes, set.value, i)
      BY <2>2, <3>1, <3>2, OptionAt DEF Name
    <3>4. /\ \A j \in DOMAIN nodes' : NameOf(nodes'[j].key) = n => j = i
          /\ DOMAIN nodes' \subseteq Nat \ {0} /\ i \in DOMAIN nodes' /\ NameOf(nodes'[i].key) = n
      BY <2>2, <3>1, <3>2 DEF Name
    <3>5. OptionIn(nodes', set'.value)[n] = Shown(nodes', set'.value, i)
      BY <3>4, OptionAt
    <3> QED  BY <3>3, <3>5
  <2> QED  BY <2>1, <2>2
<1> QED  BY <1>1, OptionsOfLists DEF OptionIn

\* They do when the list is left alone and no value is freed.
LEMMA OptionUntouched ==
  ASSUME IInv, nodes' = nodes, set.pc # "store"
  PROVE  Option' = Option
<1>1. \A i \in DOMAIN nodes : ~nodes[i].freed
  BY DEF IInv, Setting
<1> QED  BY <1>1, OptionStays DEF Shown

\* One option changes when one node shows the value that is being set.
LEMMA OptionSet ==
  ASSUME IInv, IInv', set.value \in Values,
         NEW k \in DOMAIN nodes', NameOf(nodes'[k].key) = NameOf(set.key), NameOf(set.key) \in Names,
         Shown(nodes', set'.value, k) = set.value,
         DOMAIN nodes' = DOMAIN nodes \cup {k},
         \A i \in DOMAIN nodes : i # k => nodes'[i] = nodes[i] /\ ~nodes[i].freed,
         k \in DOMAIN nodes => Name(k) = NameOf(set.key)
  PROVE  Option' = [Option EXCEPT ![NameOf(set.key)] = set.value]
<1> DEFINE was == OptionIn(nodes, set.value)
           is == OptionIn(nodes', set'.value)
<1>1. /\ DOMAIN nodes \subseteq Nat \ {0}
      /\ \A i, j \in DOMAIN nodes' : NameOf(nodes'[i].key) = NameOf(nodes'[j].key) => i = j
  BY Nodes DEF IInv, Distinct, Name
<1>2. DOMAIN nodes' \subseteq Nat \ {0}
  <2>1. nodes' \in Seq([key : Keys, value : Values, freed : BOOLEAN])
    BY DEF IInv, BlocksAreReachable, TypeOK
  <2>2. DOMAIN nodes' = 1 .. Len(nodes')
    BY <2>1
  <2> QED  BY <2>2
<1>3. is[NameOf(set.key)] = set.value
  <2>1. \A j \in DOMAIN nodes' : NameOf(nodes'[j].key) = NameOf(set.key) => j = k
    BY <1>1
  <2> QED  BY <1>2, <2>1, OptionAt
<1>4. ASSUME NEW n \in Names, n # NameOf(set.key)
      PROVE  is[n] = was[n]
  <2>1. CASE \A i \in DOMAIN nodes : Name(i) # n
    <3>1. was[n] = NoValue
      BY <2>1, OptionMissing DEF Name
    <3>2. \A i \in DOMAIN nodes' : NameOf(nodes'[i].key) # n
      BY <1>4, <2>1 DEF Name
    <3>3. is[n] = NoValue
      BY <3>2, OptionMissing
    <3> QED  BY <3>1, <3>3
  <2>2. ASSUME NEW i \in DOMAIN nodes, Name(i) = n
        PROVE  is[n] = was[n]
    <3>1. i # k /\ nodes'[i] = nodes[i] /\ ~nodes[i].freed /\ i \in DOMAIN nodes'
      BY <1>4, <2>2
    <3>3. was[n] = Shown(nodes, set.value, i)
      BY <1>1, <2>2, OptionAt DEF Name
    <3>4. NameOf(nodes'[i].key) = n /\ \A j \in DOMAIN nodes' : NameOf(nodes'[j].key) = n => j = i
      BY <1>1, <2>2 DEF Name
    <3>5. is[n] = Shown(nodes', set'.value, i)
      BY <1>2, <3>4, OptionAt
    <3> QED  BY <3>1, <3>3, <3>5 DEF Shown
  <2> QED  BY <2>1, <2>2
<1>5. is = [was EXCEPT ![NameOf(set.key)] = set.value]
  <2>1. DOMAIN was = Names /\ DOMAIN is = Names /\ was = [n \in Names |-> was[n]] /\ is = [n \in Names |-> is[n]]
    BY DEF OptionIn
  <2> HIDE DEF was, is
  <2> QED  BY <1>3, <1>4, <2>1
<1> QED  BY <1>5, OptionsOfLists

\* What a call in progress asks for.
LEMMA CallAsks ==
  ASSUME IInv, set.pc \in Called
  PROVE  NameOf(set.key) \in Names /\ set.value \in Values
<1>1. set.key \in Keys
  BY DEF IInv, BlocksAreReachable, TypeOK
<1> QED  BY <1>1 DEF Keys, NameOf, IInv, Setting

LEMMA MapStep == IInv /\ IInv' /\ [Next]_vars => [Map!Next]_<<Option, Asked>>
<1> SUFFICES ASSUME IInv, IInv', [Next]_vars
             PROVE  Map!Next \/ UNCHANGED <<Option, Asked>>
  OBVIOUS
<1> DEFINE n == NameOf(set.key)
           v == set.value
<1>1. ASSUME NEW key \in Keys, NEW value \in Values, SetCall(key, value)
      PROVE  Map!Next
  <2>1. /\ set.pc = "idle" /\ nodes' = nodes
        /\ set'.pc \in {"add", "free"} /\ set'.key = key /\ set'.value = value
    BY <1>1 DEF SetCall, SetStep
  <2>2. Option' = Option
    BY <2>1, OptionUntouched
  <2>3. Asked = << >> /\ Asked' = <<NameOf(key), value>>
    BY <2>1 DEF Asked
  <2>4. NameOf(key) \in Names
    BY DEF Keys, NameOf
  <2> QED  BY <2>2, <2>3, <2>4 DEF Map!Next, Map!Call
<1>2. CASE SetAdd
  <2>1. /\ set.pc = "add" /\ set' = Idle
        /\ nodes' = Append(nodes, [key |-> set.key, value |-> v, freed |-> FALSE])
    BY <1>2 DEF SetAdd, SetStep
  <2>2. n \in Names /\ v \in Values
    BY <2>1, CallAsks DEF Called
  <2> DEFINE k == Len(nodes) + 1
             new == [key |-> set.key, value |-> v, freed |-> FALSE]
  <2>3. new \in [key : Keys, value : Values, freed : BOOLEAN]
    BY <2>2 DEF IInv, BlocksAreReachable, TypeOK
  <2>4. new.key = set.key /\ new.value = v /\ ~new.freed
    OBVIOUS
  <2> HIDE DEF new
  <2>5. /\ DOMAIN nodes' = DOMAIN nodes \cup {k} /\ k \notin DOMAIN nodes /\ nodes'[k] = new
        /\ \A i \in DOMAIN nodes : nodes'[i] = nodes[i]
    <3>1. nodes' = Append(nodes, new)
      BY <2>1 DEF new
    <3>2. Len(nodes') = k /\ nodes'[k] = new /\ nodes' \in Seq([key : Keys, value : Values, freed : BOOLEAN])
      BY <2>3, <3>1, Nodes
    <3>3. \A i \in 1 .. Len(nodes) : nodes'[i] = nodes[i]
      BY <3>1
    <3> QED  BY <3>2, <3>3
  <2>6. \A i \in DOMAIN nodes : ~nodes[i].freed
    BY <2>1 DEF IInv, Setting
  <2>7. Option' = [Option EXCEPT ![n] = v]
    <3>1. k \in DOMAIN nodes' /\ NameOf(nodes'[k].key) = n /\ Shown(nodes', set'.value, k) = v
      BY <2>4, <2>5 DEF Shown
    <3> HIDE DEF k
    <3> QED  BY <2>2, <2>5, <2>6, <3>1, OptionSet
  <2>8. Asked = <<n, v>> /\ Asked' = << >>
    BY <2>1 DEF Asked, Idle
  <2> QED  BY <2>2, <2>7, <2>8 DEF Map!Next, Map!Set
<1>3. CASE SetFails
  <2>1. set.pc = "add" /\ set' = Idle /\ nodes' = nodes
    BY <1>3 DEF SetFails, SetStep
  <2>2. n \in Names /\ v \in Values
    BY <2>1, CallAsks DEF Called
  <2>3. Option' = Option
    BY <2>1, OptionUntouched
  <2>4. Option[n] = NoValue
    <3>1. \A i \in DOMAIN nodes : Name(i) # n
      BY <2>1 DEF IInv, Setting
    <3> QED  BY <2>2, <3>1, OptionNow
  <2>5. Asked = <<n, v>> /\ Asked' = << >>
    BY <2>1 DEF Asked, Idle
  <2> QED  BY <2>2, <2>3, <2>4, <2>5 DEF Map!Next, Map!Refuse
<1>4. CASE SetFree
  <2>1. /\ set.pc = "free" /\ nodes' = [nodes EXCEPT ![set.node].freed = TRUE]
        /\ set'.pc = "store" /\ set'.key = set.key /\ set'.value = v
    BY <1>4 DEF SetFree, SetStep
  <2>2. n \in Names /\ v \in Values
    BY <2>1, CallAsks DEF Called
  <2>3. set.node \in DOMAIN nodes /\ Name(set.node) = n
    BY <2>1 DEF IInv, Setting, BlocksAreReachable, TypeOK
  <2>4. nodes[set.node] \in [key : Keys, value : Values, freed : BOOLEAN]
    BY <2>3, Nodes
  <2>5. /\ DOMAIN nodes' = DOMAIN nodes /\ \A i \in DOMAIN nodes : i # set.node => nodes'[i] = nodes[i]
        /\ nodes'[set.node].key = nodes[set.node].key /\ nodes'[set.node].freed
    BY <2>1, <2>3, <2>4
  <2>6. \A i \in DOMAIN nodes : ~nodes[i].freed
    BY <2>1 DEF IInv, Setting
  <2>7. Option' = [Option EXCEPT ![n] = v]
    <3>1. /\ set.node \in DOMAIN nodes' /\ NameOf(nodes'[set.node].key) = n
          /\ Shown(nodes', set'.value, set.node) = v /\ DOMAIN nodes' = DOMAIN nodes \cup {set.node}
      BY <2>1, <2>3, <2>5 DEF Shown, Name
    <3> QED  BY <2>2, <2>3, <2>5, <2>6, <3>1, OptionSet
  <2>8. Asked = <<n, v>> /\ Asked' = <<n, v, "set">>
    BY <2>1 DEF Asked
  <2> QED  BY <2>2, <2>7, <2>8 DEF Map!Next, Map!Set
<1>5. CASE SetStore
  <2>1. /\ set.pc = "store" /\ set' = Idle
        /\ nodes' = [nodes EXCEPT ![set.node].value = v, ![set.node].freed = FALSE]
    BY <1>5 DEF SetStore, SetStep
  <2>2. n \in Names /\ v \in Values
    BY <2>1, CallAsks DEF Called
  <2>3. set.node \in DOMAIN nodes /\ nodes[set.node].freed
    BY <2>1 DEF IInv, Setting, BlocksAreReachable, TypeOK
  <2>4. nodes[set.node] \in [key : Keys, value : Values, freed : BOOLEAN]
    BY <2>3, Nodes
  <2>5. /\ DOMAIN nodes' = DOMAIN nodes /\ \A i \in DOMAIN nodes : i # set.node => nodes'[i] = nodes[i]
        /\ nodes'[set.node].key = nodes[set.node].key /\ ~nodes'[set.node].freed
        /\ nodes'[set.node].value = v
    BY <2>1, <2>3, <2>4
  <2>6. \A i \in DOMAIN nodes : i # set.node => ~nodes[i].freed
    BY DEF IInv, Setting
  <2>7. Option' = Option
    <3>1. \A i \in DOMAIN nodes : /\ nodes'[i].key = nodes[i].key
                                  /\ Shown(nodes', set'.value, i) = Shown(nodes, set.value, i)
      BY <2>3, <2>5, <2>6 DEF Shown
    <3> QED  BY <2>5, <3>1, OptionStays
  <2>8. Asked = <<n, v, "set">> /\ Asked' = << >>
    BY <2>1 DEF Asked, Idle
  <2> QED  BY <2>2, <2>7, <2>8 DEF Map!Next, Map!Return
<1>6. CASE Prepare \/ MuxerOpen \/ MuxerOpenFails \/ Walk \/ ReadFreedValue \/ WalkEnds
  BY <1>6 DEF Prepare, MuxerOpen, MuxerOpenFails, Walk, ReadFreedValue, WalkEnds, PrepStep,
              Option, Asked
<1>7. CASE Release \/ ReleaseNode \/ ReadFreedNext \/ ReleaseEnds
  <2>1. /\ set.pc \in {"idle", "release"} /\ set'.pc \in {"release", "released", "crashed"}
        /\ nodes' = nodes
    BY <1>7 DEF Release, ReleaseNode, ReadFreedNext, ReleaseEnds, ReleaseStep, SetStep, Idle,
                IInv, BlocksAreReachable, TypeOK
  <2>2. Option' = Option
    BY <2>1, OptionUntouched
  <2>3. Asked = << >> /\ Asked' = << >>
    BY <2>1 DEF Asked
  <2> QED  BY <2>2, <2>3
<1>8. CASE UNCHANGED vars
  BY <1>8 DEF vars, Option, Asked
<1> QED  BY <1>1, <1>2, <1>3, <1>4, <1>5, <1>6, <1>7, <1>8 DEF Next

\* The list implements the map: each call of setopt sets the option it names, or is refused
\* when the name is new, and disturbs no other, whatever the prepare thread does.
THEOREM ListImplementsMap == Spec => ImplementsMap
<1>1. Init => Map!Init
  <2> SUFFICES ASSUME Init PROVE Option = [n \in Names |-> NoValue] /\ Asked = << >>
    BY DEF Map!Init
  <2>1. \A n \in Names : OptionIn(nodes, set.value)[n] = NoValue
    BY OptionMissing DEF Init
  <2>2. Option = [n \in Names |-> NoValue]
    BY <2>1, OptionsOfLists DEF OptionIn
  <2>3. Asked = << >>
    BY DEF Init, Idle, Asked
  <2> QED  BY <2>2, <2>3
<1> QED  BY <1>1, MapStep, Invariance, PTL DEF Spec, ImplementsMap, Map!Spec
==============================================================================
