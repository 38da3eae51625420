------------------------------ MODULE MCReaders ------------------------------
(* A ring of three, pages of at most two and four messages, so that messages    *)
(* fall between two pages and out of the ring; a room recreated once, and       *)
(* cursors that begin ahead of the room.                                        *)
EXTENDS Readers
=============================================================================
