------------------------------ MODULE MCH264Rtp ------------------------------
(* A small instance of H264Rtp.                                             *)
EXTENDS H264Rtp

\* With packets of 16 bytes, 4 for a whole NAL unit and 2 for a fragment: a
\* delimiter; the first slice of an IDR picture, which just fits in a packet, or,
\* where it keeps the zero at its end, makes two full fragments; a later slice of
\* three fragments, the last not full; nothing.
MCPayloads ==
  {<<9>>, <<101, 128, 7, 7, 0>>, <<65, 64, 7, 7, 7, 7>>, << >>}

\* Start codes of three and of four bytes.
MCPrefixes == {<< >>, <<0>>}

\* Nothing, or bytes that end in a zero.
MCLeads == {<< >>, <<9, 0>>}

==============================================================================
