-------------------------------- MODULE Proxy --------------------------------
(***************************************************************************)
(* The HTTP proxy (cocaine12/proxy/proxy.go) in front of a worker that     *)
(* serves HTTP: one request of an HTTP client becomes one call of the      *)
(* application, and the stream of its answer, which HttpHandler writes, a  *)
(* response of net/http.  Get of the channel returns the messages of that  *)
(* stream in order (Rx), an error once the connection is lost, and the     *)
(* context's error after 30 s.                                             *)
(***************************************************************************)
EXTENDS HttpHandler

StatusInternalServerError == 500

VARIABLES
    stage,      \* "parse", "connect", "pack", "enqueue", "write", "head", "body";
                \* "refused" before the application was asked, "done" after it
    taken,      \* messages of the answer that Get has returned
    cut,        \* history: the answer was given up before its end
    client      \* history: what the HTTP client is sent

proxyVars == <<stage, taken, cut, client>>
allVars == <<vars, proxyVars>>

Status(code) == [kind |-> "status", code |-> code]

ProxyInit ==
    /\ Init
    /\ stage = "parse" /\ taken = 0 /\ cut = FALSE /\ client = <<>>

-----------------------------------------------------------------------------
(* process, up to the call. *)

Answer(code, to) ==
    /\ client' = <<Status(code)>> /\ stage' = to
    /\ UNCHANGED <<vars, taken, cut>>

Proceed(from, to) ==
    /\ stage = from /\ stage' = to
    /\ UNCHANGED <<vars, taken, cut, client>>

\* No service or no event in the headers or in the path.
ParseFails == stage = "parse" /\ Answer(StatusBadRequest, "refused")
Parsed == Proceed("parse", "connect")

\* NewService
ConnectFails == stage = "connect" /\ Answer(StatusInternalServerError, "refused")
Connected == Proceed("connect", "pack")

\* packRequest: the client's body cannot be read.
PackFails == stage = "pack" /\ Answer(StatusBadRequest, "refused")
Packed == Proceed("pack", "enqueue")

\* app.Call "enqueue", channel.Call "write"
EnqueueFails == stage = "enqueue" /\ Answer(StatusBadRequest, "refused")
Enqueued == Proceed("enqueue", "write")
WriteFails == stage = "write" /\ Answer(StatusInternalServerError, "done")
Written == Proceed("write", "head")

-----------------------------------------------------------------------------
(* The answer. *)

Get == taken < Len(out) /\ taken' = taken + 1 /\ UNCHANGED <<vars, cut>>

\* The first chunk decodes as a head; an error or a close does not.
GetHead ==
    /\ stage = "head" /\ Get
    /\ IF out[1].kind = "head"
         THEN client' = <<Status(out[1].code)>> /\ stage' = "body"
         ELSE client' = <<Status(StatusInternalServerError)>> /\ stage' = "done"

\* Mutant: the body variable is written before the look at the end.
GetBodyStale ==
    /\ stage = "body" /\ Get
    /\ client' = Append(client, IF out[taken'].kind = "body" THEN out[taken'] ELSE Body(taken - 1))
    /\ stage' = IF out[taken'].kind = "body" THEN "body" ELSE "done"

\* A chunk is written; an error or the close ends the loop.
GetBody ==
    /\ stage = "body" /\ Get
    /\ IF out[taken'].kind = "body"
         THEN client' = Append(client, out[taken']) /\ UNCHANGED stage
         ELSE stage' = "done" /\ UNCHANGED client

\* Get fails: the context is over or the connection lost.
GetFails ==
    /\ stage \in {"head", "body"}
    /\ cut' = TRUE /\ stage' = "done"
    /\ client' = IF stage = "head" THEN <<Status(StatusInternalServerError)>> ELSE client
    /\ UNCHANGED <<vars, taken>>

-----------------------------------------------------------------------------
\* The application is invoked by the enqueue and reads what "write" sends.
Application ==
    /\ stage \in {"write", "head", "body", "done"}
    /\ stage = "write" => pc # "read"
    /\ Next
    /\ UNCHANGED proxyVars

ProxyNext ==
    \/ ParseFails \/ Parsed \/ ConnectFails \/ Connected \/ PackFails \/ Packed
    \/ EnqueueFails \/ Enqueued \/ WriteFails \/ Written
    \/ GetHead \/ GetBody \/ GetFails
    \/ Application

ProxySpec == ProxyInit /\ [][ProxyNext]_allVars

-----------------------------------------------------------------------------
(***************************************************************************)
(* The client of the proxy gets what the application wrote: one status,    *)
(* the application's if there is a body; the same chunks in the same order,*)
(* up to a point; all of them if the answer was not given up; and some     *)
(* status in any case, also if the handler failed before its own.          *)
(***************************************************************************)
ClientSeesTheReply ==
    /\ stage \in {"refused", "done"} => client # <<>>
    /\ Len(client) > 1 \/ stage = "body" =>
        /\ client[1] = Status(out[1].code)
        /\ \A k \in 2..Len(client) : client[k] = out[k] /\ out[k].kind = "body"
    /\ stage = "done" /\ ~cut /\ taken > 1 =>
        /\ \A k \in 2..Len(out) : out[k].kind = "body" <=> k <= Len(client)
=============================================================================
