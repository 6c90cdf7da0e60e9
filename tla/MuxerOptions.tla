----------------------------- MODULE MuxerOptions -----------------------------
(***************************************************************************)
(* The options of a muxer (MediaMuxer.c).  The application's thread keeps  *)
(* them in a list, new ones at the head; muxer_open, on the prepare        *)
(* thread, walks the list and hands each to the delegate, of which only    *)
(* koala_muxer_setopt's io_timeout_ms does anything; release frees the     *)
(* list.  No mutex guards it: the application may set options before,      *)
(* during and after the walk.                                              *)
(***************************************************************************)
EXTENDS Integers, Sequences

CONSTANTS
  Values,   \* the strings that options are set to
  atoi,     \* the number that a string begins with, or 0
  NoValue,
  Garbage,  \* atoi of memory that is freed
  MaxSets   \* bound on the calls of muxer_setopt

ASSUME OptionsAssumption ==
  /\ NoValue \notin Values
  /\ atoi \in [Values -> Int]
  /\ Garbage \in Int
  /\ MaxSets \in Nat

Names == {"io_timeout_ms", "other"}

\* Keys are compared with strcasecmp: two spellings of each name.
Keys == Names \X {"lower", "upper"}
NameOf(key) == key[1]
Timeout(name) == name = "io_timeout_ms"

VARIABLES
  nodes,     \* the list, from its tail to its head: [key, value, freed]
  set,       \* the application's thread: place, key, value, node it works on
  sets,      \* calls of muxer_setopt so far
  prep,      \* the prepare thread: place, node it is at
  timeout,   \* the muxer's io_timeout_ms
  blocks,    \* blocks of memory that belong to options
  atOpen,    \* history: the options when muxer_open began its walk,
  replaced   \* and the values that the time-out has been given in their place

history == <<atOpen, replaced>>
vars == <<nodes, set, sets, prep, timeout, blocks, history>>

Idle == [pc |-> "idle", key |-> <<"other", "lower">>, value |-> NoValue, node |-> 0]

\* getOpt: the first node from the head whose key fits, or 0
First(nodesThatFit) ==
  IF nodesThatFit = {} THEN 0 ELSE CHOOSE i \in nodesThatFit : \A j \in nodesThatFit : j <= i

getOpt_slipCase(key) == First({i \in DOMAIN nodes : nodes[i].key = key})

getOpt(key) == First({i \in DOMAIN nodes : NameOf(nodes[i].key) = NameOf(key)})

\* The options by name.  One that is being replaced has its new value already.
Option ==
  [n \in Names |-> LET i == First({j \in DOMAIN nodes : NameOf(nodes[j].key) = n})
                   IN  IF i = 0 THEN NoValue
                       ELSE IF nodes[i].freed THEN set.value ELSE nodes[i].value]

Init ==
  /\ nodes = << >>
  /\ set = Idle
  /\ sets = 0
  /\ prep = [pc |-> "off", node |-> 0]
  /\ timeout = 0
  /\ blocks = 0
  /\ atOpen = [n \in Names |-> NoValue]
  /\ replaced = {}
------------------------------------------------------------------------------
\* mediaStreamer_setopt, muxer_setopt, setOpt, as long as the process lives
SetStep(from, new) ==
  /\ set.pc = from
  /\ prep.pc # "crashed"
  /\ set' = new
  /\ UNCHANGED <<prep, timeout, atOpen>>

SetCall(key, value) ==
  /\ sets < MaxSets
  /\ sets' = sets + 1
  /\ LET i == getOpt(key)
     IN  SetStep("idle", [pc |-> IF i = 0 THEN "add" ELSE "free", key |-> key, value |-> value, node |-> i])
  /\ UNCHANGED <<nodes, blocks, replaced>>

SetAdd ==
  /\ SetStep("add", Idle)
  /\ nodes' = Append(nodes, [key |-> set.key, value |-> set.value, freed |-> FALSE])
  /\ blocks' = blocks + 3
  /\ UNCHANGED <<sets, replaced>>

\* malloc has failed.
SetFails == SetStep("add", Idle) /\ UNCHANGED <<nodes, sets, blocks, replaced>>

\* A new time-out, of which muxer_open may see the old value, the new one or neither.
ReplacedBy(seen) == IF seen /\ Timeout(NameOf(set.key)) THEN replaced \cup {set.value} ELSE replaced

SetFree_slipLeaks ==
  /\ SetStep("free", [set EXCEPT !.pc = "store"])
  /\ nodes' = [nodes EXCEPT ![set.node].freed = TRUE]
  /\ replaced' = ReplacedBy(prep.pc = "walk")
  /\ UNCHANGED <<sets, blocks>>

SetFree ==
  /\ SetStep("free", [set EXCEPT !.pc = "store"])
  /\ nodes' = [nodes EXCEPT ![set.node].freed = TRUE]
  /\ replaced' = ReplacedBy(prep.pc = "walk")
  /\ blocks' = blocks - 1
  /\ UNCHANGED sets

SetStore ==
  /\ SetStep("store", Idle)
  /\ nodes' = [nodes EXCEPT ![set.node].value = set.value, ![set.node].freed = FALSE]
  /\ blocks' = blocks + 1
  /\ UNCHANGED <<sets, replaced>>
------------------------------------------------------------------------------
\* The prepare thread: muxer_open, and the delegate's setopt
PrepStep(from, new) ==
  /\ prep.pc = from
  /\ prep' = new
  /\ UNCHANGED <<nodes, set, sets, blocks>>

\* mediaStreamer_prepare, called by the application's thread
Prepare ==
  /\ set.pc = "idle"
  /\ PrepStep("off", [pc |-> "open", node |-> 0])
  /\ UNCHANGED <<timeout, history>>

\* The delegate is made, and the head of the list is read.
MuxerOpen ==
  /\ PrepStep("open", [pc |-> "walk", node |-> Len(nodes)])
  /\ atOpen' = Option
  /\ replaced' = ReplacedBy(set.pc = "store")
  /\ UNCHANGED timeout

MuxerOpenFails == PrepStep("open", [pc |-> "failed", node |-> 0]) /\ UNCHANGED <<timeout, history>>

koala_muxer_setopt(node) ==
  timeout' = IF Timeout(NameOf(node.key))
             THEN IF node.freed THEN Garbage ELSE atoi[node.value]
             ELSE timeout

Walk ==
  /\ prep.node > 0
  /\ PrepStep("walk", [prep EXCEPT !.node = @ - 1])
  /\ koala_muxer_setopt(nodes[prep.node])
  /\ UNCHANGED history

\* The value is printed and handed on: when it is freed, the read may end the process.
ReadFreedValue ==
  /\ prep.node > 0
  /\ nodes[prep.node].freed
  /\ PrepStep("walk", [prep EXCEPT !.pc = "crashed"])
  /\ UNCHANGED <<timeout, history>>

WalkEnds_slipLast ==
  /\ prep.node <= 1
  /\ PrepStep("walk", [prep EXCEPT !.pc = "opened"])
  /\ UNCHANGED <<timeout, history>>

WalkEnds ==
  /\ prep.node = 0
  /\ PrepStep("walk", [prep EXCEPT !.pc = "opened"])
  /\ UNCHANGED <<timeout, history>>
------------------------------------------------------------------------------
\* muxer_release_handle, releaseOpts; the prepare thread was never started or has been
\* joined.  A node's next is read after the node is freed: it may be what it was.
ReleaseStep(from, new) == SetStep(from, new) /\ UNCHANGED <<nodes, sets, replaced>>

Release ==
  /\ prep.pc \notin {"open", "walk"}
  /\ ReleaseStep("idle", [Idle EXCEPT !.pc = "release", !.node = Len(nodes)])
  /\ UNCHANGED blocks

ReleaseNode ==
  /\ set.node > 0
  /\ ReleaseStep("release", [set EXCEPT !.node = @ - 1])
  /\ blocks' = blocks - 3

ReadFreedNext ==
  /\ set.node > 0
  /\ ReleaseStep("release", [set EXCEPT !.pc = "crashed"])
  /\ UNCHANGED blocks

ReleaseEnds ==
  /\ set.node = 0
  /\ ReleaseStep("release", [set EXCEPT !.pc = "released"])
  /\ UNCHANGED blocks
------------------------------------------------------------------------------
Next ==
  \/ \E key \in Keys, value \in Values : SetCall(key, value)
  \/ SetAdd \/ SetFails \/ SetFree \/ SetStore
  \/ Prepare \/ MuxerOpen \/ MuxerOpenFails
  \/ Walk \/ ReadFreedValue \/ WalkEnds
  \/ Release \/ ReleaseNode \/ ReadFreedNext \/ ReleaseEnds

Spec == Init /\ [][Next]_vars
------------------------------------------------------------------------------
\* The types; nobody works on a node that is not in the list.
TypeOK ==
  /\ nodes \in Seq([key : Keys, value : Values, freed : BOOLEAN])
  /\ set \in [pc : {"idle", "add", "free", "store", "release", "released", "crashed"},
              key : Keys, value : Values \cup {NoValue}, node : 0..Len(nodes)]
  /\ set.pc \in {"free", "store"} => set.node > 0
  /\ sets \in 0..MaxSets
  /\ prep \in [pc : {"off", "open", "walk", "opened", "failed", "crashed"}, node : 0..Len(nodes)]
  /\ timeout \in Int
  /\ blocks \in Nat
  /\ atOpen \in [Names -> Values \cup {NoValue}]
  /\ replaced \subseteq Values

\* The call of setopt that is under way, and whether it has had its effect.
Asked ==
  CASE set.pc \in {"add", "free"} -> <<NameOf(set.key), set.value>>
    [] set.pc = "store" -> <<NameOf(set.key), set.value, "set">>
    [] OTHER -> << >>

\* Each call of setopt sets the one option it names, in whatever spelling, and leaves
\* the others alone: the list has one node for each name.
Map == INSTANCE OptionMap WITH option <- Option, call <- Asked

ImplementsMap == Map!Spec

\* What muxer_open has applied is the time-out that was set when it began.  One that is
\* added during the walk has no effect; one that is replaced then has either value, or
\* whatever lies where the old one was, if reading that has not ended the process.
OptionApplied ==
  prep.pc = "opened" =>
    LET asked == atOpen["io_timeout_ms"]
    IN  IF asked = NoValue THEN timeout = 0
        ELSE \/ timeout = atoi[asked]
             \/ replaced # {} /\ timeout \in {atoi[v] : v \in replaced} \cup {Garbage}

\* Every block is in the list until it is freed, so a release that gets to its end has
\* freed all that the options ever took, once.  (With the types.)
BlocksAreReachable ==
  /\ TypeOK
  /\ blocks = CASE set.pc \in {"release", "crashed"} -> 3 * set.node
                [] set.pc = "released" -> 0
                [] set.pc = "store" -> 3 * Len(nodes) - 1
                [] OTHER -> 3 * Len(nodes)
==============================================================================
