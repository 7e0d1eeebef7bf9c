-------------------------- MODULE MCNotifications ---------------------------
(* Two users: bob replies to alice and reposts her, alice follows bob.      *)
EXTENDS Notifications

CONSTANTS alice, bob, reply, repost, follow

MCUsers == {alice, bob}
MCActor == [e \in Events |-> IF e = follow THEN alice ELSE bob]
MCRecipient == [e \in Events |-> IF e = follow THEN bob ELSE alice]

=============================================================================
