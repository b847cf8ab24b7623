----------------------------- MODULE MCClipStore -----------------------------
(* The instance of ClipStore for TLC: one harvested clip, written with and   *)
(* without a share parameter, and two windows that round to one moment.      *)
EXTENDS ClipStore, TLC
CONSTANTS harvested, moment, url, shared, w1, w2, h1, h2
MCClips == {harvested, moment}
MCClipAt == [u \in {url, shared} |-> harvested]
MCClipOf == [w \in {w1, w2} |-> moment]
Row(u, h) == [url |-> u, hook |-> h]
MCSourceLists ==
  {{Row(u, h)} : u \in {url, shared}, h \in {h1, h2}}
    \cup {{Row(url, h), Row(shared, h)} : h \in {h1, h2}}
\* Bound: harvested clips or moments, but not both; they share the event's
\* lock and the threads and no file.
OneKindOfClip == \E c \in Clips : \A n \in Names : n.clip # c => dir[n] = NoDir
Symmetry == Permutations({url, shared}) \cup Permutations({w1, w2}) \cup Permutations({h1, h2})
=============================================================================
