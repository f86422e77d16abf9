----------------------------- MODULE PathRewrite -----------------------------
(***************************************************************************)
(* The path a backend is asked for (internal/gateway/proxy.go): once in     *)
(* applyDirector, which the direct and the retrying path call, and once in  *)
(* ServeWebSocket.  A path as it is sent is a sequence of characters, each  *)
(* percent-encoded or not; net/url keeps it decoded, and as it was sent     *)
(* where decoding loses how.  Encodings that differ in the case of their    *)
(* digits are one here.  The query, which every way takes over from the     *)
(* request, is left out.                                                    *)
(***************************************************************************)
EXTENDS Naturals, Sequences, SequencesExt

CONSTANTS
  Escaped,    \* the characters escape encodes in a path, "*" and "(" among them
  Unfit       \* those validEncoded takes as a sign that nothing was encoded

Slash == "/"
Star == "*"

ASSUME EscapedAssumption ==
  /\ Unfit \subseteq Escaped
  /\ Slash \notin Escaped /\ Star \notin Unfit

-----------------------------------------------------------------------------
(* net/url.                                                                 *)

BareSlash == [char |-> Slash, escaped |-> FALSE]

StartsWith(s, first) == s # <<>> /\ s[1] = first

Decoded(sent) == [i \in 1..Len(sent) |-> sent[i].char]

\* A decoded path, sent as it is; "%" and "?" in it then mean something else.
Bare(path) == [i \in 1..Len(path) |-> [char |-> path[i], escaped |-> FALSE]]

escape(path) == [i \in 1..Len(path) |-> [char |-> path[i], escaped |-> path[i] \in Escaped]]

\* url.Parse: RawPath is kept where escape would not give it back.
Usual(sent) == sent \in {escape(Decoded(sent)), Bare(<<Star>>)}

Parsed(sent) == [path |-> Decoded(sent), raw |-> IF Usual(sent) THEN <<>> ELSE sent]

validEncoded(sent) == \A i \in 1..Len(sent) : ~sent[i].escaped => sent[i].char \notin Unfit

\* RawPath counts only as long as it stands for Path.
EscapedPath(url) ==
  LET stands == url.raw # <<>> /\ validEncoded(url.raw) /\ Decoded(url.raw) = url.path IN
  CASE stands -> url.raw
    [] ~stands /\ url.path = <<Star>> -> Bare(url.path)
    [] ~stands /\ url.path # <<Star>> -> escape(url.path)

\* What net/http writes, "/" for an empty path.
RequestURI(url) ==
  IF EscapedPath(url) = <<>> THEN <<BareSlash>> ELSE EscapedPath(url)

-----------------------------------------------------------------------------
(* The rewriting.                                                           *)

\* strings.TrimPrefix
Trimmed(path, prefix) ==
  IF IsPrefix(prefix, path) THEN SubSeq(path, Len(prefix) + 1, Len(path)) ELSE path

\* Mutant: the slash goes with the prefix.
StrippedWithSlash(path, prefix) ==
  LET rest == Trimmed(path, prefix)
  IN IF StartsWith(rest, Slash) THEN Tail(rest) ELSE rest

\* "/" where nothing is left.
Stripped(path, prefix) ==
  LET rest == Trimmed(path, prefix) IN IF rest = <<>> THEN <<Slash>> ELSE rest

\* One slash between the two.
Joined(base, sent) ==
  LET endsWithSlash == base # <<>> /\ Last(base) = BareSlash IN
  CASE endsWithSlash /\ StartsWith(sent, BareSlash) -> base \o Tail(sent)
    [] ~endsWithSlash /\ ~StartsWith(sent, BareSlash) -> base \o <<BareSlash>> \o sent
    [] OTHER -> base \o sent

\* The Director of NewSingleHostReverseProxy puts the backend's own path first:
\* Path is joined like RawPath, which is empty if it is in both.
joinURLPath(base, url) ==
  LET joined == Joined(EscapedPath(base), EscapedPath(url))
  IN [path |-> Decoded(joined),
      raw  |-> IF base.raw = <<>> /\ url.raw = <<>> THEN <<>> ELSE joined]

\* current is the URL of the outbound request, original the client's.  RawPath
\* is left as it is.
applyDirector(route, current, original) ==
  [current EXCEPT !.path =
     IF route.strip THEN Stripped(current.path, route.path) ELSE original.path]

DirectPath(route, base, sent) ==
  LET url == Parsed(sent)
  IN RequestURI(applyDirector(route, joinURLPath(Parsed(base), url), url))

\* Mutant: like the direct path, after the backend's own path.
RetryPathJoined(route, base, sent) ==
  LET url == Parsed(sent)
  IN RequestURI(applyDirector(route, Parsed(base \o sent), url))

RetryPath(route, base, sent) ==
  LET url == Parsed(sent) IN RequestURI(applyDirector(route, url, url))

\* The decoded path is written into the handshake as it is.
WebSocketPath(route, base, sent) ==
  LET path == Parsed(sent).path
  IN Bare(IF route.strip THEN Stripped(path, route.path) ELSE path)

=============================================================================
