---------------------------- MODULE MCWalletFile ----------------------------
(* The daemon has a message thread and an RPC thread; in the program with   *)
(* the user interface that one updates the wallet too.                      *)
EXTENDS WalletFile

CONSTANTS msg, rpc, gui

MsgPaths == {UpdateWallet, SetBestChain, UseBlockIndex}
RpcPaths == {UpdateWallet, KeepKey, ReadAccount, BackupWallet}

DaemonPaths == [t \in Thread |-> IF t = msg THEN MsgPaths ELSE RpcPaths \cup {EncryptWallet}]

GuiPaths ==
    [t \in Thread |-> CASE t = msg -> {UpdateWallet}
                        [] t = rpc -> {KeepKey, ReadAccount}
                        [] t = gui -> {KeepKey, EncryptWallet}]
=============================================================================
