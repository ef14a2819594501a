----------------------------- MODULE MCTokenCache -----------------------------
(* Two threads, three calls: the default registry, to pull and to push, with *)
(* the saved login or anonymously, and another registry with what the docker *)
(* config says; a registry restart and time for a token to expire.           *)
EXTENDS TokenCache

CONSTANTS t1, t2, hub, elsewhere, login, theirs

MCThreads == {t1, t2}
MCDocker == [r \in {hub, elsewhere} |-> IF r = elsewhere THEN theirs ELSE NoCredential]
MCLogins == {login}

Ask(r, p) == [registry |-> r, push |-> p, token |-> NoCredential]

MCRequests == {Ask(hub, FALSE), Ask(hub, TRUE), Ask(elsewhere, FALSE)}
=============================================================================
