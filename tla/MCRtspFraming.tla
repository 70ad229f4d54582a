---------------------------- MODULE MCRtspFraming -----------------------------
(* Requests around the size of the buffer: a header or a whole request that  *)
(* just fits it, one byte more, and a body of several buffers.               *)
EXTENDS RtspFraming

MCSizes ==
  {[hdr |-> 1, body |-> 0], [hdr |-> 2, body |-> Cap - 2], [hdr |-> Cap, body |-> 1],
   [hdr |-> 2, body |-> Cap + 2], [hdr |-> Cap + 1, body |-> 0]}
=============================================================================
