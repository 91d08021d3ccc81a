----------------------------- MODULE MCMetadata -----------------------------
(***************************************************************************)
(* Model checking Metadata, and two sentences of the design documents      *)
(* that the state machine does not implement.                              *)
(***************************************************************************)
EXTENDS Metadata

\* ownership.md: "a node that is not the current owner cannot commit anything
\* to it".  An upload of node n covers no stream that another node has open.
UploadsByOwner ==
  [][\A i \in DOMAIN stream_set_objects' \ DOMAIN stream_set_objects :
       DOMAIN destroyed_by_id' = DOMAIN destroyed_by_id =>
         \A r \in stream_set_objects'[i].offset_ranges :
           streams[r.stream_id].state = "Opened" =>
             streams[r.stream_id].node_id = stream_set_objects'[i].node_id]_vars

\* gc.md: "An object id that was reserved for an upload that never committed
\* expires after its TTL and is marked as well".
ExpiredIdsAreMarked ==
  [][\A i \in DOMAIN prepared \ DOMAIN prepared' :
       i \in DOMAIN written' \cup DOMAIN destroyed_by_id']_vars
=============================================================================
