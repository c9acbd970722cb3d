---------------------------- MODULE MCPageAlloc ----------------------------
(***************************************************************************)
(* Bytes of two bits; a kernel pool of five frames (four of them in the    *)
(* bitmap), a user pool of five (again four), and a process with room for  *)
(* more pages than there are frames.  As on the 32 MB machine of the bochs *)
(* configuration, palloc refuses as many pages as a pool has.              *)
(***************************************************************************)
EXTENDS PageAlloc
=============================================================================
