------------------------------ MODULE MCWallet ------------------------------
EXTENDS Wallet

MCMnemonics == {"m", "n"}
MCImportedKeys == {<<"m", 1>>}
MCFiles == {NewWallet("n"), [NewWallet("n") EXCEPT !.encrypted = TRUE, !.salt = MaxSalts, !.cipher = <<"p", MaxSalts>>]}
MCSharedKeys == {<<"shared", 0>>}

=============================================================================
