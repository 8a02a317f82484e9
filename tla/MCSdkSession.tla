---------------------------- MODULE MCSdkSession ----------------------------
(* Two tabs over one session store, two requests at a time, and two        *)
(* tokens: one family that is rotated once, or two families after a new    *)
(* login.  A reused token, a lost answer, an error in place of one, a      *)
(* logout that meets a refresh and a tab restored from the other's token   *)
(* all take no more.                                                       *)
EXTENDS SdkSession
=============================================================================
