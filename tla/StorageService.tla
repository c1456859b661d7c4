---------------------------- MODULE StorageService ----------------------------
(***************************************************************************)
(* storage-service: an upload puts the file into the bucket under a fresh  *)
(* key and then inserts the row of media that knows the key.  Key and row  *)
(* are named after the request; a client that repeats an upload makes a    *)
(* new request, and so a new key.                                          *)
(***************************************************************************)
EXTENDS Backends

(* Nothing has happened yet when the uploader, the size or the type of the *)
(* file is refused.                                                        *)
RefuseFile(r) ==
  /\ At(r, "put") /\ call[r].flaw = "content"
  /\ Return(r, "invalid") /\ NoEffect /\ UNCHANGED data

(* Mutant: the row first, so that its id can be part of the key. *)
PutAfterRow(r) ==
  /\ At(r, "put") /\ Goto(r, "row") /\ Effect(r)
  /\ media' = media \cup {r}
  /\ UNCHANGED <<profile, Content, objects, home, Reading>>

Put(r) ==
  /\ At(r, "put") /\ call[r].flaw # "content" /\ Goto(r, "row") /\ NoEffect
  /\ objects' = objects \cup {r}
  /\ UNCHANGED <<profile, Content, media, home, Reading>>

InsertMedia(r) ==
  /\ At(r, "row") /\ Return(r, "ok") /\ Effect(r)
  /\ media' = media \cup {r}
  /\ UNCHANGED <<profile, Content, objects, home, Reading>>
=============================================================================
