---------------------------- MODULE MCWalCodec -----------------------------
EXTENDS WalCodec

\* No payload, and one of a byte that could be a length.
MCPayloads == {<<>>, <<1>>}

=============================================================================
