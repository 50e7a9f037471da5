---------------------------- MODULE MCController ----------------------------
(***************************************************************************)
(* Instances of Controller for TLC: bodies and frames.                     *)
(***************************************************************************)
EXTENDS Controller, TLC

CONSTANTS d1, d2, o1, o2, n1, n2, k1, k2

\* Valid bodies addressed to the device whose path they are sent to, one org.
BodyOneOrg == [dev: {d1}, org: {o1}, host: {n1}, version: 1 .. MaxVersion, valid: {TRUE}]
\* ... of either org.
BodyTwoOrgs ==
  [dev: {d1}, org: {o1, o2}, host: {n1}, version: 1 .. MaxVersion, valid: {TRUE}]

FramesOneKey == {<<>>, <<k1>>}
FramesTwoKeys == {<<>>, <<k1>>, <<k1, k2>>, <<k2>>}
NoFrames == {}

RequestSymmetry == Permutations(Request)
=============================================================================
