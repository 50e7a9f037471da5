------------------------------ MODULE MCAgent -------------------------------
(* Instances of Agent for TLC: what the controller pulls and pushes.       *)
EXTENDS AgentContents, Sequences

CONSTANTS d1, o1, n1

GoodKey == [chars |-> 44, foreign |-> FALSE, bytes |-> 32]
Eth0 == [named |-> TRUE, unspecified |-> <<FALSE>>]
Good == [interfaces |-> <<Eth0>>, tunnels |-> <<GoodKey>>, ports |-> <<None, 1>>,
         dscps |-> <<0, 63>>]

\* What the frame of each version holds: the pulled one has an unspecified
\* address, some pushed ones a key that decodes to 31 bytes, port 0, or a DSCP
\* value of 64.
Payload == <<[Good EXCEPT !.interfaces = <<Eth0, [Eth0 EXCEPT !.unspecified = <<TRUE>>]>>],
             Good,
             [Good EXCEPT !.tunnels = <<GoodKey, [GoodKey EXCEPT !.bytes = 31]>>],
             [Good EXCEPT !.tunnels = <<>>, !.interfaces = <<>>],
             [Good EXCEPT !.ports = <<None, 0>>],
             [Good EXCEPT !.dscps = <<63, 64>>],
             Good>>

Frames == {[dev |-> d1, org |-> o1, host |-> n1, version |-> v,
            valid |-> Check!Verdict(Payload[v]) = None] : v \in 1 .. MaxVersion}
FrameContents == [c \in Frames |-> Payload[c.version]]

\* The startup pull is not checked; ws_connect_and_drain skips a frame that
\* does not validate.
StartsPulled == {c \in Frames : c.version = 1}
PushesAll == {c \in Frames : c.valid}
AcceptedNotLast == {c \in PushesAll : c.version # MaxVersion}
=============================================================================
