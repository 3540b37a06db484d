--------------------------- MODULE MCNftOwnership ---------------------------
(***************************************************************************)
(* An ERC721 history for TLC: contract 1, values 0..3 (ValueBits = 2).     *)
(***************************************************************************)
EXTENDS NftOwnership, TLC

\* event Transfer(from, to, tokenId) and Approval(owner, approved, tokenId).
NftLog(event, a, b, token) ==
  [contract |-> 1, eventID |-> event, topic |-> <<a, b, token>>]

\* Block 1 mints token 1 to address 1 and token 2 to address 2; block 2:
\* address 2 approves address 3 for token 2; block 3: address 1 transfers
\* token 1 to address 2.
NftChain ==
  << <<NftLog("Transfer", 0, 1, 1), NftLog("Transfer", 0, 2, 2)>>,
     <<NftLog("Approval", 2, 3, 2)>>,
     <<NftLog("Transfer", 1, 2, 1)>> >>
=============================================================================
