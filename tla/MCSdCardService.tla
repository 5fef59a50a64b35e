-------------------------- MODULE MCSdCardService --------------------------
(***************************************************************************)
(* Two drives of two sectors.  A message takes three of the ring's ten     *)
(* bytes and the next begins one later, so two fit and the third wraps     *)
(* around.  A torn block has the checksum of the image's second sector.    *)
(***************************************************************************)
EXTENDS SdCardService

MCDrives == {0, 1}
MCSectors == {0, 1}
MCZeros == <<0, 0>>
MCTorn == <<1, 0>>
MCContents == {<<0, 1>>}
MCImage == [s \in {0, 1} |-> <<0, s>>]
MCEmulatorSectors == {<<0, 0>>, <<1, 0>>}
MCMaxStarts == [emulator |-> 2, formatter |-> 1]
MCMaxRequests == [emulator |-> 2, formatter |-> 4]
=============================================================================
