---- MODULE MCAccounts ----
(***************************************************************************)
(* One Plex and one Jellyfin account, that both exist at the beginning or   *)
(* that pages create, of owners and administrators or of others; with two   *)
(* requests and no mishap (and then the e-mail of an owner is not told), or *)
(* one and one.                                                             *)
(***************************************************************************)
EXTENDS Accounts

CONSTANTS p, j

MCPlex == {p}
MCJellyfin == {j}

MCInit ==
    /\ AccountsInit
    /\ native \in {{}, Account} /\ owners \in {{}, native}
    /\ \/ spare.requests = MaxRequests /\ spare.mishaps = 0 /\ {} \in {owners, emailed}
       \/ spare.requests = MaxRequests - 1 /\ spare.mishaps = MaxMishaps

MCSpec == MCInit /\ [][AccountsNext]_accountVars /\ AccountsFairness
====
