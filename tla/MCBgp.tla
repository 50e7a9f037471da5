------------------------------- MODULE MCBgp --------------------------------
(* Instances of BgpSpeaker for TLC.                                        *)
EXTENDS BgpSpeaker

CONSTANTS n1, n2, p, q

\* n1 is configured, dialled and may connect itself; n2 is a stranger.
ConnThree == {[nbr |-> n1, side |-> "out"], [nbr |-> n1, side |-> "in"],
              [nbr |-> n2, side |-> "in"]}
\* n1's number is one AS_TRANS stands for; it is told nothing, and its empty
\* import list opens what the global one closes to strangers.  (Preferences
\* are even: 100 is a stranger's.)
SettingsOfN1 ==
  [n \in {n1} |-> [remote_as |-> 70000, local_pref |-> 100, import |-> {}, export |-> {}]]
\* n2's paths lie between n1's.
Lens == [n \in Neighbor |-> IF n = n2 THEN {2} ELSE {1, 3}]
\* The same program at the other end, a peer without AS4, which is taken for a
\* wrong AS.
Opens == {OwnOpen(70000), [as |-> 300, caps |-> <<>>]}
\* One path without reflection, all paths with it, and a global import list
\* that has none of what strangers announce.
ThreeModes == {[multipath |-> b, reflector |-> b, import |-> {}] : b \in BOOLEAN}
  \cup {[multipath |-> FALSE, reflector |-> FALSE, import |-> {q}]}
=============================================================================
