----------------------------- MODULE HttpClient -----------------------------
(***************************************************************************)
(* HTTPClient of http_client.cpp: a session, a proxy and a response, and   *)
(* an easy handle of libcurl that lives as long as one Launch.  One thread *)
(* uses a client, and libcurl calls back while it performs.                *)
(* A text is a value of Inputs, Empty the empty one; a login stands for    *)
(* "user:pass".  A text that callbacks append to is the set of launches    *)
(* whose data it holds, a number taken from libcurl the launch it is of.   *)
(* Left out: settings that are only copied into the handle (time limits,   *)
(* headers, skip, CA file, verbose), those that never take effect (cookie, *)
(* user agent, and the login, which an empty user name set after it        *)
(* replaces), and the counters of launches.                                *)
(***************************************************************************)
EXTENDS Naturals

CONSTANTS Inputs,      \* texts given to the setters
          Empty,       \* not in Inputs
          MaxLaunches  \* bound: launches in all

VARIABLES session, proxy, response,   \* _session, _proxy, _response
          curl,          \* the options of the easy handle; Closed if there is none
          isFirstWrite,
          launches,      \* launches so far
          given          \* proxy logins given since the proxy was last cleared

http == <<session, proxy, response, given, curl, isFirstWrite, launches>>

Closed == [method |-> Empty]
Idle == curl = Closed

Session == [url |-> Empty, params |-> Empty, requestOption |-> Empty]
Proxy == [enable |-> FALSE, host |-> Empty, user |-> Empty, login |-> Empty]
Response == [url |-> Empty, host |-> 0, header |-> {}, content |-> {}, askHeader |-> {}, code |-> 0,
             contentLength |-> 0, contentLengthZip |-> 0]

HttpInit ==
  /\ session = Session /\ proxy = Proxy /\ response = Response /\ given = {}
  /\ curl = Closed /\ isFirstWrite = TRUE /\ launches = 0

-----------------------------------------------------------------------------
\* Setters and clearers, called between launches.

Apart == Idle /\ UNCHANGED <<curl, isFirstWrite, launches>>

SetUrl(url) ==
  /\ Apart
  /\ session' = [session EXCEPT !.url = url]
  /\ response' = [response EXCEPT !.url = url]
  /\ UNCHANGED <<proxy, given>>

SetParam(params) == Apart /\ session' = [session EXCEPT !.params = params] /\ UNCHANGED <<proxy, response, given>>

SetRequestOption(option) ==
  Apart /\ session' = [session EXCEPT !.requestOption = option] /\ UNCHANGED <<proxy, response, given>>

\* A login is put together only of something; else the one before stays.
SetProxy(host, user) ==
  /\ Apart
  /\ proxy' = [enable |-> TRUE, host |-> host, user |-> user,
               login |-> IF user # Empty THEN user ELSE proxy.login]
  /\ given' = given \union ({user} \ {Empty})
  /\ UNCHANGED <<session, response>>

\* HTTPResponse::Clear keeps the address, the host and the compressed length.
ClearedResponse ==
  [url |-> response.url, host |-> response.host, header |-> {}, content |-> {}, askHeader |-> {},
   code |-> 0, contentLength |-> 0, contentLengthZip |-> response.contentLengthZip]

ClearProxy == Apart /\ proxy' = Proxy /\ given' = {} /\ UNCHANGED <<session, response>>
ClearSession == Apart /\ session' = Session /\ UNCHANGED <<proxy, response, given>>
ClearResponse == Apart /\ response' = ClearedResponse /\ UNCHANGED <<session, proxy, given>>

\* All three; there is no handle to close when no Launch is under way.
Clear ==
  /\ Idle /\ UNCHANGED <<curl, launches>>
  /\ proxy' = Proxy /\ given' = {} /\ session' = Session /\ response' = ClearedResponse
  /\ isFirstWrite' = TRUE

Change ==
  \/ \E text \in Inputs \union {Empty} :
       \/ SetUrl(text) \/ SetParam(text) \/ SetRequestOption(text)
       \/ \E host \in Inputs : SetProxy(host, text)
  \/ ClearProxy \/ ClearSession \/ ClearResponse \/ Clear

-----------------------------------------------------------------------------
\* Launch.

\* Get, Put and Post leave their name in requestOption, where the next Request finds it.
Options == {"GET", "PUT", "POST", "OTHER"}
Named(option) == IF option = "OTHER" THEN session ELSE [session EXCEPT !.requestOption = option]

\* What SetProxy and SetSession put into the handle.  CURLOPT_POSTFIELDS makes a POST of
\* a Put too.
SetSession(option) ==
  [url |-> session.url,
   method |-> IF option = "PUT" /\ session.params # Empty THEN "POST"
              ELSE IF option = "OTHER" THEN session.requestOption ELSE option,
   body |-> IF option \in {"PUT", "POST"} THEN session.params ELSE Empty,
   proxy |-> IF proxy.enable THEN proxy.host ELSE Empty,
   proxyLogin |-> IF proxy.enable THEN proxy.login ELSE Empty]

\* Mutant: what the launch before left stays.
InitializeLater == UNCHANGED isFirstWrite /\ response' = ClearedResponse

\* Before curl_easy_init.
Initialize == isFirstWrite' = TRUE /\ response' = ClearedResponse

\* Launch up to curl_easy_perform, or its end if curl_easy_init fails.
Launch(option) ==
  /\ Idle /\ launches < MaxLaunches
  /\ launches' = launches + 1
  /\ session' = Named(option)
  /\ Initialize
  /\ curl' \in {SetSession(option), Closed}
  /\ UNCHANGED <<proxy, given>>

Answer(r) == ~Idle /\ response' = r /\ UNCHANGED <<session, proxy, given, curl, launches>>

\* A request goes out, one more for every redirection; only the last is kept.
AskHeaderFunction == Answer([response EXCEPT !.askHeader = {launches}]) /\ UNCHANGED isFirstWrite

\* A header line comes in, those of redirections included.
HeaderFunction == Answer([response EXCEPT !.header = @ \union {launches}]) /\ UNCHANGED isFirstWrite

\* ParseResponseCode and ParseResponseLength.
Parsed == [response EXCEPT !.code = launches, !.contentLength = launches,
                           !.contentLengthZip = launches, !.host = launches]

\* A part of the body comes in; code, lengths and host are asked for with the first.
WriteFunction ==
  /\ Answer([IF isFirstWrite THEN Parsed ELSE response EXCEPT !.content = @ \union {launches}])
  /\ isFirstWrite' = FALSE

\* curl_easy_perform returns and the handle is closed.
Performed == ~Idle /\ curl' = Closed /\ UNCHANGED <<session, proxy, response, given, isFirstWrite, launches>>

HttpNext ==
  \/ Change
  \/ \E option \in Options : Launch(option)
  \/ AskHeaderFunction \/ HeaderFunction \/ WriteFunction \/ Performed

HttpSpec == HttpInit /\ [][HttpNext]_http

-----------------------------------------------------------------------------
\* Properties.

\* LaunchFresh: launches do not mix, whatever is set and cleared between them.  The texts of
\* a response are of the last launch; its code is there if and only if a body came, so that
\* an answer without one has the code 0, and the host and the compressed length of an answer
\* before it; its address is the session's, unless that was cleared.  A proxy is sent the
\* login it was given; if it was given none, at most one given to a proxy before it since
\* ClearProxy.
LaunchFresh ==
  /\ response.header \union response.content \union response.askHeader \subseteq {launches}
  /\ response.code = IF response.content = {} THEN 0 ELSE launches
  /\ response.contentLength = response.code /\ response.host = response.contentLengthZip
  /\ response.code # 0 => response.host = response.code
  /\ response.url = session.url \/ session.url = Empty
  /\ ~Idle =>
       /\ curl.proxyLogin \in given \union {Empty}
       /\ proxy.user # Empty => curl.proxyLogin = proxy.user
=============================================================================
