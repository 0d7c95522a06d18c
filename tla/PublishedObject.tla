--------------------------- MODULE PublishedObject ---------------------------
(***************************************************************************)
(* What spectators rely on: one object, published anew now and then, and   *)
(* never with a version older than the one before.  A version is the time  *)
(* the snapshot was taken, then the time it was published.                 *)
(***************************************************************************)
EXTENDS Null

VARIABLE object

OlderVersion(s, t) ==
  \/ s.generated_at < t.generated_at
  \/ s.generated_at = t.generated_at /\ s.published_at < t.published_at

Published == object' # None /\ (object # None => ~OlderVersion(object', object))

ObjectSpec == object = None /\ [][Published]_object
============================================================================
