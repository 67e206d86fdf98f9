---------------------------- MODULE MCMultidrop ----------------------------
(* Multidrop on small instances: the replies the devices may send.         *)
EXTENDS Multidrop

(* One fragment of two frames, and two fragments of one.                   *)
MCReplies == {<<FALSE, TRUE>>, <<TRUE, TRUE>>}

OneFragment == {<<FALSE, TRUE>>}
=============================================================================
