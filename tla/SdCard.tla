------------------------------- MODULE SdCard -------------------------------
(***************************************************************************)
(* The SD card driver of the M4 service, SD.c: for each function the set   *)
(* of its outcomes.                                                        *)
(*                                                                         *)
(* What lasts from one call to the next is whether the chip select line is *)
(* asserted: the driver drops it around a burst of clocks and, when the    *)
(* burst goes wrong, leaves it dropped.  A card that is not selected       *)
(* answers nothing.  The bytes of frames, tokens and checksums are left    *)
(* out, and so are errors of the wire, which the driver does not look for. *)
(***************************************************************************)

CONSTANT Torn   \* what a write that was cut short may leave in a block

\* The first byte of a response: no error, 0x01, 0x05, another, or 0xFF
\* because the card sent none.
R1 == {"ready", "idle", "illegal", "other", "none"}

\* Complete; or timed out.  The wait loop sleeps after it has looked at
\* transferState.done, so a transfer that took place can time out as well.
SPITransfer == {[ok |-> TRUE, sent |-> TRUE], [ok |-> FALSE, sent |-> TRUE],
                [ok |-> FALSE, sent |-> FALSE]}

\* The line may fail to change, before or after the transfer.
ClockBurst(selected, keep) ==
    LET transfer == {t.ok : t \in SPITransfer}
    IN IF keep
       THEN {[ok |-> t, selected |-> selected] : t \in transfer}
       ELSE {[ok |-> FALSE, selected |-> selected]}
            \cup {[ok |-> t /\ raised, selected |-> t /\ raised] :
                    t \in transfer, raised \in BOOLEAN}

Failed == [ok |-> FALSE, r1 |-> "none"]

\* 32 bytes are awaited; after that 0xFF is the response.
AwaitResponse(selected) ==
    {Failed} \cup {[ok |-> TRUE, r1 |-> r] : r \in IF selected THEN R1 ELSE {"none"}}

CommandIncomplete(selected) ==
    UNION {IF frame.ok /\ burst.ok THEN AwaitResponse(selected) ELSE {Failed} :
             frame \in SPITransfer, burst \in ClockBurst(selected, TRUE)}

\* A command during initialization; it selects the card again.
Command(selected) ==
    {[ok |-> c.ok /\ b.ok, r1 |-> c.r1, selected |-> IF c.ok THEN b.selected ELSE selected] :
       c \in CommandIncomplete(selected), b \in ClockBurst(selected, FALSE)}

\* The outcome of the last burst is not looked at.
ReadDataPacket(selected, content) ==
    {[ok |-> FALSE, selected |-> selected]}
    \cup (IF selected
          THEN {[ok |-> TRUE, selected |-> b.selected, data |-> content] :
                  b \in ClockBurst(selected, FALSE)}
          ELSE {})

\* Nor that of the first one here.  What a failure leaves in the block depends
\* on how far the card had come.
WriteDataPacket(selected, old, new) ==
    UNION {IF b.selected
           THEN {[ok |-> TRUE, selected |-> TRUE, content |-> new]}
                \cup {[ok |-> FALSE, selected |-> TRUE, content |-> c] :
                        c \in {old, new, Torn}}
           ELSE {[ok |-> FALSE, selected |-> FALSE, content |-> old]} :
             b \in ClockBurst(selected, FALSE)}

\* The transfer speed that it finds is left out.
ReadCSD(selected) ==
    UNION {IF c.ok /\ c.r1 # "none"
           THEN ReadDataPacket(selected, "csd")
           ELSE {[ok |-> FALSE, selected |-> selected]} :
             c \in CommandIncomplete(selected)}

ReadBlock(selected, content) ==
    UNION {IF c.ok /\ c.r1 = "ready"
           THEN ReadDataPacket(selected, content)
           ELSE {[ok |-> FALSE, selected |-> selected]} :
             c \in CommandIncomplete(selected)}

\* One call of SD_WriteBlock up to its recursion: "again" if it got as far as
\* the data packet, which is what it retries.
WriteBlock(selected, old, new) ==
    UNION {IF c.ok /\ c.r1 = "ready"
           THEN {[ok |-> w.ok, again |-> ~w.ok, selected |-> w.selected,
                  content |-> w.content] : w \in WriteDataPacket(selected, old, new)}
           ELSE {[ok |-> FALSE, again |-> FALSE, selected |-> selected, content |-> old]} :
             c \in CommandIncomplete(selected)}
=============================================================================
