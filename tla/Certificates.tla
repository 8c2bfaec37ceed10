---------------------------- MODULE Certificates ----------------------------
(***************************************************************************)
(* The admin requests that replace the TLS certificate: a request for a    *)
(* signing request may create a key, which waits beside the key in use     *)
(* until the signed certificate is uploaded.                               *)
(*                                                                         *)
(* A certificate is the key it was issued for.                             *)
(***************************************************************************)
EXTENDS Naturals, FiniteSets

CONSTANTS
    Keys,       \* private keys; one is in use at the beginning
    FirstKey,
    None,       \* no key
    Requests,   \* admin requests that may be served at the same time
    MaxRequests \* bound on the requests of a behaviour

VARIABLES
    certFile, keyFile, keyFileBak,  \* the key each of the files is about, or None
    issued,    \* the keys that somebody outside has a certificate for
    used,      \* the keys generated so far
    req,       \* the requests being served
    served     \* counts the requests
vars == <<certFile, keyFile, keyFileBak, issued, used, req, served>>

NoRequest == [pc |-> "idle", cert |-> None, key |-> None, match |-> FALSE]

Init ==
    /\ certFile = FirstKey /\ keyFile = FirstKey /\ keyFileBak = None
    /\ issued = {FirstKey} /\ used = {FirstKey}
    /\ req = [r \in Requests |-> NoRequest]
    /\ served = 0

Arrives(r) == req[r].pc = "idle" /\ served < MaxRequests /\ served' = served + 1
Goto(r, pc) == req' = [req EXCEPT ![r].pc = pc]
Finish(r) == req' = [req EXCEPT ![r] = NoRequest]

\* serveCertsCSR: a signing request for a new key, or for the key in use.
ServeCSR(r) ==
    /\ Arrives(r)
    /\ \/ \E k \in Keys \ used :
            /\ used' = used \union {k}
            /\ keyFileBak' \in {k, keyFileBak}   \* writing it may fail
            /\ issued' = IF keyFileBak' = k THEN issued \union {k} ELSE issued
       \/ /\ keyFile # None
          /\ issued' = issued \union {keyFile}
          /\ UNCHANGED <<used, keyFileBak>>
    /\ UNCHANGED <<certFile, keyFile, req>>

\* serveCertsReplace: the payload is a certificate, a key or both.
ServeReplace(r) ==
    /\ Arrives(r)
    /\ \E c \in issued \union {None}, k \in Keys \union {None} :
         /\ c # None \/ k # None
         /\ req' = [req EXCEPT ![r] = [pc |-> IF k = None THEN "compare" ELSE "cert",
                                       cert |-> c, key |-> k, match |-> FALSE]]
    /\ UNCHANGED <<certFile, keyFile, keyFileBak, issued, used>>

\* A certificate without a key belongs to the key that waits.  A key that
\* cannot be read is an error.
Compare(r) ==
    /\ req[r].pc = "compare"
    /\ IF keyFileBak = None THEN Finish(r)
       ELSE req' = [req EXCEPT ![r].pc = IF keyFileBak = req[r].cert THEN "adopt" ELSE "cert",
                               ![r].match = (keyFileBak = req[r].cert)]
    /\ UNCHANGED <<certFile, keyFile, keyFileBak, issued, used, served>>

\* The key that was read becomes the key in use, unless it cannot be written.
Adopt(r) ==
    /\ req[r].pc = "adopt"
    /\ \/ keyFile' = req[r].cert /\ keyFileBak' = None /\ Goto(r, "cert")
       \/ Finish(r) /\ UNCHANGED <<keyFile, keyFileBak>>
    /\ UNCHANGED <<certFile, issued, used, served>>

WriteCert(r) ==
    /\ req[r].pc = "cert"
    /\ \/ certFile' = (IF req[r].cert # None THEN req[r].cert ELSE certFile)
          /\ Goto(r, "key")
       \/ req[r].cert # None /\ Finish(r) /\ UNCHANGED certFile
    /\ UNCHANGED <<keyFile, keyFileBak, issued, used, served>>

WriteKey(r) ==
    /\ req[r].pc = "key"
    /\ keyFile' \in (IF req[r].key # None THEN {req[r].key, keyFile} ELSE {keyFile})
    /\ Finish(r)
    /\ UNCHANGED <<certFile, keyFileBak, issued, used, served>>

Next == \E r \in Requests :
    \/ ServeCSR(r) \/ ServeReplace(r) \/ Compare(r) \/ Adopt(r) \/ WriteCert(r) \/ WriteKey(r)

Spec == Init /\ [][Next]_vars

----------------------------------------------------------------------------
(* "The certificate will only be updated if the public key associated with  *)
(* the new certificate matches the public key generated by the CSR          *)
(* endpoint" (docs/api/_index.md), when no key is uploaded: serveCertsReplace*)
(* compares the two only to decide about the key file (listen_web_admin.go  *)
(* 478-499).                                                                *)
UpdatedOnlyIfMatching ==
    [][\A r \in Requests :
          req[r].pc = "cert" /\ req[r].key = None /\ certFile' # certFile => req[r].match]_vars
=============================================================================
