-------------------------- MODULE CrossAgentMessaging --------------------------
(***************************************************************************)
(* models/cross_agent_messaging_contract.py: a message between agents, its *)
(* audience, how it is to be delivered, and what became of it.  Accepts(e) *)
(* says whether an envelope with the parts e can be constructed;           *)
(* conventions as in ClarificationResolution.  Intent, priority, payload   *)
(* and the failure record are read by no rule; four of the message's five  *)
(* validators have no effect, and an acknowledgement that bears the id of  *)
(* another message is taken like any other.                                *)
(***************************************************************************)
EXTENDS Naturals

CONSTANTS Target,       \* agents, roles and nodes of the graph
          Never         \* no time of expiry

TransportMode == {"synchronous", "asynchronous", "fire_and_forget"}
DeliveryStatus == {"draft", "queued", "sent", "delivered", "acknowledged",
                   "processed", "failed", "expired", "rejected"}
AudienceType == {"single_agent", "role_group", "supervisor_only", "graph_node",
                 "broadcast_limited"}

Header == [transport_mode : TransportMode, created_at : Nat,
           expires_at : Nat \cup {Never}]
Audience == [audience_type : AudienceType, target_agent_ids : SUBSET Target,
             target_role_ids : SUBSET Target, target_node_ids : SUBSET Target]
DeliveryPolicy == [requires_ack : BOOLEAN, max_retries : Nat]
Acknowledgement == [delivery_status : DeliveryStatus]

Optional(S) == {x \in SUBSET S : \A a, b \in x : a = b}

Envelope == [header : Header, audience : Audience,
             delivery_policy : DeliveryPolicy,
             acknowledgement : Optional(Acknowledgement),
             failure_record : BOOLEAN]

-----------------------------------------------------------------------------
(* The validators of a record. *)

ExpiresAfterCreated(h) == h.expires_at # Never => h.expires_at > h.created_at

Targets(a) == a.target_agent_ids \cup a.target_role_ids \cup a.target_node_ids

AudienceMustBeSpecified(a) == Targets(a) # {}

BroadcastLimitedMustBeBounded(a) ==
    a.audience_type = "broadcast_limited" => Targets(a) # {}

(* The validator of the message. *)

FireAndForgetNoAck(e) ==
    e.header.transport_mode = "fire_and_forget" => ~e.delivery_policy.requires_ack

Accepts(e) ==
    /\ ExpiresAfterCreated(e.header)
    /\ AudienceMustBeSpecified(e.audience)
    /\ BroadcastLimitedMustBeBounded(e.audience)
    /\ FireAndForgetNoAck(e)

-----------------------------------------------------------------------------
(* What an accepted envelope promises. *)

AliveAt(h, now) ==
    h.created_at <= now /\ (h.expires_at # Never => now < h.expires_at)

(* A sender that waits for an acknowledgement can get one: there is        *)
(* somebody to answer, a time at which the message is alive, and a         *)
(* transport that carries answers.                                         *)
GoAheadIsBacked(e) ==
    e.delivery_policy.requires_ack =>
        /\ \E target \in Target : target \in Targets(e.audience)
        /\ \E now \in {e.header.created_at} : AliveAt(e.header, now)
        /\ e.header.transport_mode \in {"synchronous", "asynchronous"}

(* Whatever becomes of a message can be put on its record, also that it    *)
(* failed and that it is to be tried once more; and an accepted message    *)
(* can be sent on to one more agent, as a limited broadcast.               *)
Forwarded(e, target) ==
    [e EXCEPT !.audience.audience_type = "broadcast_limited",
              !.audience.target_agent_ids = @ \cup {target}]

ProgressIsAccepted(e) ==
    /\ \A a \in Acknowledgement : Accepts([e EXCEPT !.acknowledgement = {a}])
    /\ Accepts([e EXCEPT !.failure_record = TRUE,
                         !.delivery_policy.max_retries = @ + 1])
    /\ \A target \in Target : Accepts(Forwarded(e, target))
=============================================================================
