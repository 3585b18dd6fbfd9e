------------------------------ MODULE SessionGraph ------------------------------
(***************************************************************************)
(* models/multi_agent_session_graph_contract.py: the nodes and edges of a  *)
(* multi-agent session, its branches, joins and checkpoints.  Accepts(g)   *)
(* says whether a graph with the parts g can be constructed; conventions   *)
(* as in ClarificationResolution.  Statuses and references to work outside *)
(* the graph are compared with nothing and left out.  References to nodes  *)
(* and edges of the graph are kept, those that no validator reads too:     *)
(* what they name may be missing.                                          *)
(***************************************************************************)
EXTENDS Naturals, Sequences, FiniteSets

CONSTANTS NodeId, EdgeId, GraphId, NoNode

NodeType == {"step", "join_node", "terminal_node"}   \* of eleven

Node == [node_id : NodeId, node_type : NodeType, parent : NodeId \cup {NoNode}]
Edge == [edge_id : EdgeId, from : NodeId, to : NodeId]

(* "done": the active, completed and failed nodes of a branch, the         *)
(* completed incoming nodes of a join.  No validator reads them, nor the   *)
(* terminal nodes of the metadata, nor what a checkpoint captured: its     *)
(* active, waiting and blocked nodes, and the edges traversed last.        *)
Branch == [entry : NodeId, nodes : SUBSET NodeId, done : SUBSET NodeId]
Join == [join_node : NodeId, incoming : Seq(NodeId), required : Nat,
         done : SUBSET NodeId]
Checkpoint == [graph_id : GraphId, nodes : SUBSET NodeId,
               edges : SUBSET EdgeId]
Metadata == [graph_id : GraphId, entry : NodeId, terminals : SUBSET NodeId]

Graph == [metadata : Metadata, nodes : SUBSET Node, edges : SUBSET Edge,
          branches : SUBSET Branch, joins : SUBSET Join,
          checkpoints : SUBSET Checkpoint]

-----------------------------------------------------------------------------
(* The incoming nodes are a list of at least one; a node may stand in it   *)
(* twice, and counts twice.                                                *)
CompletionCountNotExceedIncoming(j) ==
    j.required \in 1..Len(j.incoming)

NodeIds(g) == {n.node_id : n \in g.nodes}

NodesAreSound(g) ==
    /\ \A m, n \in g.nodes : m.node_id = n.node_id => m = n
    /\ {n.parent : n \in g.nodes} \subseteq NodeIds(g) \cup {NoNode}

\* mutant
EdgesHaveSources(g) ==
    /\ \A d, e \in g.edges : d.edge_id = e.edge_id => d = e
    /\ \A e \in g.edges : e.from \in NodeIds(g)

EdgesAreSound(g) ==
    /\ \A d, e \in g.edges : d.edge_id = e.edge_id => d = e
    /\ \A e \in g.edges : e.from \in NodeIds(g) /\ e.to \in NodeIds(g)

BranchesAreSound(g) ==
    \A b \in g.branches : {b.entry} \cup b.nodes \subseteq NodeIds(g)

JoinsAreSound(g) ==
    \A j \in g.joins :
        {j.join_node} \cup {j.incoming[i] : i \in 1..Len(j.incoming)}
            \subseteq NodeIds(g)

ValidateIds(g) ==
    /\ NodesAreSound(g) /\ EdgesAreSound(g)
    /\ BranchesAreSound(g) /\ JoinsAreSound(g)
    /\ \E n \in g.nodes : n.node_type = "terminal_node"
    /\ g.metadata.entry \in NodeIds(g)
    /\ \A c \in g.checkpoints : c.graph_id = g.metadata.graph_id

Accepts(g) ==
    /\ \A j \in g.joins : CompletionCountNotExceedIncoming(j)
    /\ ValidateIds(g)

-----------------------------------------------------------------------------
(* What an accepted graph promises. *)

(* Whatever one can reach from the entry along edges, whatever a branch    *)
(* runs through and a join waits for, and every parent is exactly one node *)
(* of the graph: primitives/lavish-axi-p52.html:306-310, and no more.      *)
Mentioned(g) ==
    {g.metadata.entry} \cup {e.from : e \in g.edges} \cup {e.to : e \in g.edges}
        \cup (UNION {{b.entry} \cup b.nodes : b \in g.branches})
        \cup (UNION {{j.join_node} \cup {j.incoming[i] : i \in 1..Len(j.incoming)} :
                        j \in g.joins})
        \cup ({n.parent : n \in g.nodes} \ {NoNode})

CheckedReferencesResolve(g) ==
    \A id \in Mentioned(g) :
        \E n \in g.nodes : /\ n.node_id = id
                           /\ \A m \in g.nodes : m.node_id = id => m = n

(* "Checkpoints capture active/waiting/blocked nodes for recovery"          *)
(* (graphs/SESSION_GRAPH.md:38); the code compares the graph only.         *)
CheckpointsCaptureNodes(g) ==
    \A c \in g.checkpoints : c.nodes \subseteq NodeIds(g)

(* A session may always grow: a new node under one that is there, reached  *)
(* by a new edge, never makes an acceptable graph refused.                 *)
Grown(g, parent, id, edge) ==
    [g EXCEPT !.nodes = @ \cup {[node_id |-> id, node_type |-> "step",
                                 parent |-> parent]},
              !.edges = @ \cup {[edge_id |-> edge, from |-> parent, to |-> id]}]

ProgressIsAccepted(g) ==
    \A parent \in NodeIds(g), id \in NodeId \ NodeIds(g),
       edge \in EdgeId \ {e.edge_id : e \in g.edges} :
            Accepts(Grown(g, parent, id, edge))
=============================================================================
