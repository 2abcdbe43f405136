------------------------------ MODULE MCDatabase ------------------------------
(* Database with the values TLC needs.                                     *)
EXTENDS Database, TLC

Symmetry == Permutations(Instances)

StoredKinds == {"douyin", "wechat_channels"}
ListedNames == StoredKinds \cup {"wechat", "room", "?"}

\* "room" names no kind, and "?" is malformed.
LegacyKind == [x \in ListedNames |->
  CASE x \in StoredKinds -> x
    [] x = "wechat"      -> "wechat_channels"
    [] OTHER             -> Unknown]
=============================================================================
