--------------------------- MODULE MCEpollServer ---------------------------
(* EpollServer with the streams and directories of MCStreams.              *)
EXTENDS EpollService, MCStreams

(* EpollService_proofs is about streams like those of EpollPeers and       *)
(* EpollProtocol: each upload is there to its last byte, and its data does *)
(* not look like a request.                                                *)
ASSUME PlainUploadsAssumption ==
    \A streams \in {TwoPeers, OnePeer} : \A p \in DOMAIN streams :
        \A s \in streams[p] : PlainUploads(s)
=============================================================================
