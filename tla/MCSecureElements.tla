-------------------------- MODULE MCSecureElements --------------------------
(***************************************************************************)
(* Commands and prepared store files for the run of SecureElements.         *)
(***************************************************************************)
EXTENDS SecureElements, TLC

Hosts == Permutations(Conns)

W == <<"host", 1>>
Packet(op, mode) ==
    [op |-> op, mode |-> mode, slot |-> 0, zone |-> "data", wide |-> TRUE, encrypted |-> FALSE,
     external |-> TRUE, complete |-> TRUE, on_curve |-> TRUE, block |-> 0, offset |-> 0,
     data |-> <<>>, config |-> [lock |-> [config |-> FALSE, data |-> FALSE], slots |-> {}, rest |-> W],
     key |-> <<>>, signature |-> [key |-> <<>>, digest |-> <<>>]]

Digest == <<W, W>>

\* Writes of the second word of a key, of a word of zeros to the OTP zone (no property depends
\* on what that zone holds), past the end of a slot, and of the lock bytes.
Writes ==
    LET write == Packet("Write", 0)
    IN  {[write EXCEPT !.wide = FALSE, !.offset = 1, !.data = <<W>>],
         [write EXCEPT !.zone = "otp", !.wide = FALSE, !.data = <<Zero>>],
         [write EXCEPT !.block = 1, !.data = Digest],
         [write EXCEPT !.zone = "config", !.block = LockBlock, !.data = Digest]}

\* Commands of the session, and those that read the device, use its keys or lock it.
Sessions ==
    {[Packet("Nonce", 3) EXCEPT !.data = Digest], Packet("Sha", 0),
     [Packet("Sha", 1) EXCEPT !.data = <<W>>], [Packet("Sha", 2) EXCEPT !.data = <<W>>]}

Answers ==
    {Packet("Sign", 0), Packet("Ecdh", 0), Packet("GenKey", 0), Packet("GenKey", 4),
     Packet("Lock", 0), Packet("Lock", 1), Packet("Lock", 2), Packet("Read", 0),
     Packet("Verify", 2), Packet("bad_crc", 0)}

MCPackets == Writes \cup Sessions \cup Answers

Unlocked == [default_device EXCEPT !.config.lock = [config |-> FALSE, data |-> FALSE]]
MCStoreFiles == {Unlocked}

Frame(op, slot) ==
    [op |-> op, slot |-> slot, complete |-> TRUE, p256 |-> TRUE, zone |-> 0, offset |-> 0,
     length |-> 32, on_curve |-> TRUE, uncompressed |-> TRUE, valid |-> TRUE,
     product_data |-> TRUE]
MCFrames ==
    {Frame(op, s) : op \in {"GENERATE_KEY", "GENERATE_SIGNATURE", "ESTABLISH_KEY"}, s \in {0, 255}}
        \cup {Frame(op, 0) : op \in {"READ", "QUERY", "VERIFY_SIGNATURE", "RESET", "bad_crc", "EXTENDED"}}
=============================================================================
