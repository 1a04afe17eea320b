----------------------------- MODULE LinkCodec ------------------------------
(***************************************************************************)
(* Share links and outbound JSON (core/xray/link.go and sharelink.go):     *)
(* ParseLink turns a link or a pasted JSON block into a stored outbound,   *)
(* BuildLink turns a stored outbound into a link and lists what the link   *)
(* leaves out.                                                             *)
(*                                                                         *)
(* A card is passed back and forth between the two forms.  Percent and     *)
(* base64 escaping, which the link's reader undoes, and the display name   *)
(* are left out; every parameter that decides how the server is reached    *)
(* is kept.  A block of parameters is a function from the keys that are    *)
(* present to their values.                                                *)
(***************************************************************************)
EXTENDS Naturals, Sequences, FiniteSets, SequencesExt, TLC

CONSTANTS
  Sources,       \* where cards come from: "link" (another client), "user"
  Protocols,     \* protocols of the outbounds users write
  LinkKeys,      \* the sets of optional parameters a link carries
  BlockKeys      \* the optional keys of a user's stream settings

VARIABLES
  card,        \* what is held now: a link, an outbound, or nothing
  origin,      \* history: the outbound the link was built from, or NoCard
  left,        \* notes: what BuildLink said it left out
  source       \* history: where the outbound came from, "link" or "user"

linkVars == <<card, origin, left, source>>
NoCard == [form |-> "none"]

Empty == << >>
Has(f, k) == k \in DOMAIN f
Get(f, k) == IF Has(f, k) THEN f[k] ELSE ""
setIf(k, v) == IF v = "" THEN Empty ELSE k :> v
firstNonEmpty(vs) ==
  LET given == SelectSeq(vs, LAMBDA v : v # "") IN IF given = << >> THEN "" ELSE given[1]
TrimSlash(v) == CASE v = "/p" -> "p" [] v = "/" -> "" [] OTHER -> v

-----------------------------------------------------------------------------
(* Transport parameters of a link -> streamSettings.  "sec" is the block    *)
(* of the security layer, "net" the one of the transport.                   *)
TLSBlock(q, addr) ==
  setIf("serverName", firstNonEmpty(<<Get(q, "sni"), Get(q, "host"), addr>>))
    @@ setIf("fingerprint", Get(q, "fp")) @@ setIf("alpn", Get(q, "alpn"))

RealityBlock(q, addr) ==
  setIf("serverName", firstNonEmpty(<<Get(q, "sni"), addr>>))
    @@ setIf("publicKey", Get(q, "pbk")) @@ setIf("shortId", Get(q, "sid"))
    @@ setIf("fingerprint", Get(q, "fp")) @@ setIf("spiderX", Get(q, "spx"))

TransportBlock(network, q) ==
  CASE network = "ws" ->
         ("path" :> firstNonEmpty(<<Get(q, "path"), "/">>)) @@ setIf("headers.Host", Get(q, "host"))
    [] network = "grpc" ->
         setIf("serviceName", TrimSlash(firstNonEmpty(<<Get(q, "serviceName"), Get(q, "path")>>)))
    [] network = "h2" -> setIf("host", Get(q, "host")) @@ setIf("path", Get(q, "path"))
    [] network = "tcp" ->
         IF Get(q, "headerType") = "http" THEN "header" :> "http" ELSE Empty
    [] network = "xhttp" ->
         ("path" :> firstNonEmpty(<<Get(q, "path"), "/">>)) @@ setIf("host", Get(q, "host"))
           @@ setIf("mode", Get(q, "mode"))
           @@ setIf("extra", IF Get(q, "extra") = "malformed" THEN "" ELSE Get(q, "extra"))
    [] OTHER -> Empty

Modern(network) == IF network = "splithttp" THEN "xhttp" ELSE network

buildStreamSettings(q, addr) ==
  LET network == Modern(firstNonEmpty(<<Get(q, "type"), "tcp">>))
      security == Get(q, "security")
  IN  [network |-> network, security |-> security,
       sec |-> CASE security = "tls" -> TLSBlock(q, addr)
                 [] security = "reality" -> RealityBlock(q, addr)
                 [] OTHER -> Empty,
       net |-> TransportBlock(network, q)]

-----------------------------------------------------------------------------
(* streamSettings -> transport parameters of a link.                        *)
SecurityQuery(ss) ==
  CASE ss.security \in {"", "none"} -> Empty
    [] ss.security = "tls" ->
         ("security" :> "tls") @@ setIf("sni", Get(ss.sec, "serverName"))
           @@ setIf("fp", Get(ss.sec, "fingerprint")) @@ setIf("alpn", Get(ss.sec, "alpn"))
           @@ setIf("allowInsecure", IF Get(ss.sec, "allowInsecure") = "true" THEN "1" ELSE "")
    [] ss.security = "reality" ->
         ("security" :> "reality") @@ setIf("sni", Get(ss.sec, "serverName"))
           @@ setIf("pbk", Get(ss.sec, "publicKey")) @@ setIf("sid", Get(ss.sec, "shortId"))
           @@ setIf("fp", Get(ss.sec, "fingerprint")) @@ setIf("spx", Get(ss.sec, "spiderX"))
    [] OTHER -> "security" :> ss.security

TransportQuery(network, net) ==
  CASE network \in {"tcp", "raw"} ->
         IF Get(net, "header") # "http" THEN Empty
         ELSE ("headerType" :> "http") @@ setIf("path", Get(net, "path")) @@ setIf("host", Get(net, "host"))
    [] network = "ws" ->
         setIf("path", Get(net, "path"))
           @@ setIf("host", firstNonEmpty(<<Get(net, "host"), Get(net, "headers.Host")>>))
    [] network = "grpc" ->
         setIf("serviceName", Get(net, "serviceName")) @@ setIf("authority", Get(net, "authority"))
           @@ setIf("mode", IF Get(net, "multiMode") = "true" THEN "multi" ELSE "")
    [] network \in {"h2", "httpupgrade"} -> setIf("host", Get(net, "host")) @@ setIf("path", Get(net, "path"))
    [] network = "xhttp" ->
         setIf("path", Get(net, "path")) @@ setIf("host", Get(net, "host"))
           @@ setIf("mode", Get(net, "mode")) @@ setIf("extra", Get(net, "extra"))
    [] OTHER -> Empty

Linkable == {"tcp", "raw", "ws", "grpc", "h2", "httpupgrade", "xhttp"}

Network(ss) == Modern(firstNonEmpty(<<ss.network, "tcp">>))
streamQuery(ss) ==
  ("type" :> Network(ss)) @@ SecurityQuery(ss) @@ TransportQuery(Network(ss), ss.net)
streamNotes(ss) ==
  (IF ss.security \in {"", "none", "tls", "reality"} THEN {} ELSE {"security"})
    \cup (IF Network(ss) \in Linkable THEN {} ELSE {"transport"})

-----------------------------------------------------------------------------
(* Outbounds.  "user" holds what identifies the client: secret (id or       *)
(* password), cipher (encryption, security or method), flow.  A flat block  *)
(* is the form panels export, with the address at the top of settings.      *)
Missing(o) == o.secret = "" \/ (o.protocol = "shadowsocks" /\ o.cipher = "")
DefaultCipher(protocol) ==
  CASE protocol = "vless" -> "none" [] protocol = "vmess" -> "auto" [] OTHER -> ""

normalizeFlatSettings(o) ==
  IF o.flat /\ o.port # 0
  THEN [o EXCEPT !.flat = FALSE, !.cipher = firstNonEmpty(<<@, DefaultCipher(o.protocol)>>)]
  ELSE o

Stored(protocol, l, cipher, flow, ss) ==
  [form |-> "outbound", protocol |-> protocol, flat |-> FALSE, more |-> {},
   address |-> l.address, port |-> l.port, secret |-> l.secret,
   cipher |-> cipher, flow |-> flow, stream |-> ss]

NoStream == [network |-> "", security |-> "", sec |-> Empty, net |-> Empty]

parseVLESS(l) ==
  Stored("vless", l, firstNonEmpty(<<Get(l.q, "encryption"), "none">>), Get(l.q, "flow"),
         buildStreamSettings(l.q, l.address))

(* The payload's own field names, copied to the common ones; "type" (the    *)
(* header type) is read into the payload and used nowhere.                  *)
parseVMESS(l) ==
  LET q == setIf("type", Get(l.q, "net")) @@ setIf("security", Get(l.q, "tls"))
             @@ setIf("sni", Get(l.q, "sni")) @@ setIf("host", Get(l.q, "host"))
             @@ setIf("path", Get(l.q, "path")) @@ setIf("alpn", Get(l.q, "alpn"))
             @@ setIf("fp", Get(l.q, "fp"))
  IN  Stored("vmess", l, firstNonEmpty(<<Get(l.q, "scy"), "auto">>), "",
             buildStreamSettings(q, l.address))

parseTrojan(l) ==
  LET q == ("security" :> firstNonEmpty(<<Get(l.q, "security"), "tls">>)) @@ l.q
  IN  Stored("trojan", l, "", "", buildStreamSettings(q, l.address))

parseSS(l) == Stored("shadowsocks", l, Get(l.q, "method"), "", NoStream)

(* ParseLink on a link; one without credentials or address is an error.     *)
ParseLink(l) ==
  IF l.secret = "" \/ l.address = "" THEN NoCard
  ELSE CASE l.scheme = "vless" -> parseVLESS(l) [] l.scheme = "vmess" -> parseVMESS(l)
         [] l.scheme = "trojan" -> parseTrojan(l) [] l.scheme = "ss" -> parseSS(l)
         [] OTHER -> NoCard

Scheme(protocol) == IF protocol = "shadowsocks" THEN "ss" ELSE protocol

(* VmessPayload with a bug: a gRPC service name is not carried.             *)
VmessPayloadNoService(o, q) ==
  setIf("scy", firstNonEmpty(<<o.cipher, "auto">>)) @@ setIf("net", Get(q, "type"))
    @@ setIf("host", Get(q, "host")) @@ setIf("path", Get(q, "path"))
    @@ setIf("tls", IF Get(q, "security") = "reality" THEN "" ELSE Get(q, "security"))
    @@ setIf("sni", Get(q, "sni")) @@ setIf("alpn", Get(q, "alpn")) @@ setIf("fp", Get(q, "fp"))

VmessPayload(o, q) ==
  setIf("scy", firstNonEmpty(<<o.cipher, "auto">>)) @@ setIf("net", Get(q, "type"))
    @@ setIf("type", firstNonEmpty(<<Get(q, "headerType"), "none">>))
    @@ setIf("host", Get(q, "host"))
    @@ setIf("path", firstNonEmpty(<<Get(q, "path"), Get(q, "serviceName")>>))
    @@ setIf("tls", IF Get(q, "security") = "reality" THEN "" ELSE Get(q, "security"))
    @@ setIf("sni", Get(q, "sni")) @@ setIf("alpn", Get(q, "alpn")) @@ setIf("fp", Get(q, "fp"))

LinkQuery(o) ==
  LET q == streamQuery(o.stream)
  IN  CASE o.protocol = "vless" ->
             ("encryption" :> firstNonEmpty(<<o.cipher, "none">>)) @@ setIf("flow", o.flow) @@ q
        [] o.protocol = "trojan" -> q @@ ("security" :> "none")
        [] o.protocol = "shadowsocks" -> "method" :> o.cipher
        [] o.protocol = "vmess" -> VmessPayload(o, q)

(* A link of an outbound with something to link: the first server and user. *)
BuildLink(raw) ==
  LET o == normalizeFlatSettings(raw)
  IN  IF \/ o.protocol \notin {"vless", "vmess", "trojan", "shadowsocks"}
         \/ o.flat \/ Missing(o) \/ o.address = ""
      THEN NoCard
      ELSE [form |-> "link", scheme |-> Scheme(o.protocol), secret |-> o.secret,
            address |-> o.address, port |-> o.port, q |-> LinkQuery(o)]

(* "more": servers or users beyond the first, an own mux or sockopt block.  *)
Notes(o) ==
  o.more \cup
  CASE o.protocol = "shadowsocks" ->
         (IF o.stream.network \in {"", "tcp"} THEN {} ELSE {"transport"})
           \cup (IF o.stream.security \in {"", "none"} THEN {} ELSE {"security"})
    [] o.protocol = "vmess" ->
         streamNotes(o.stream) \cup (IF o.stream.security = "reality" THEN {"reality"} ELSE {})
    [] OTHER -> streamNotes(o.stream)

-----------------------------------------------------------------------------
Schemes    == {"vless", "vmess", "trojan", "ss", "http"}
Networks   == {"", "tcp", "ws", "grpc", "h2", "httpupgrade", "xhttp", "splithttp", "kcp"}
Securities == {"", "none", "tls", "reality", "xtls"}

(* One value per key, and for a service name both spellings.                *)
Values(k) ==
  CASE k = "path" -> {"/p"} [] k = "serviceName" -> {"p", "/p"}
    [] k = "extra" -> {"x", "malformed"} [] k \in {"headerType", "header"} -> {"http"}
    [] k \in {"multiMode", "allowInsecure"} -> {"true"} [] OTHER -> {k}
Blocks(K) == {f \in [K -> UNION {Values(k) : k \in K}] : \A k \in K : f[k] \in Values(k)}

TransportKeys(network) ==
  CASE network \in {"", "tcp"} -> {"header", "host", "path"}
    [] network = "ws" -> {"host", "headers.Host", "path"}
    [] network = "grpc" -> {"serviceName", "authority", "multiMode"}
    [] network \in {"h2", "httpupgrade"} -> {"host", "path"}
    [] network \in {"xhttp", "splithttp"} -> {"host", "path", "mode", "extra"}
    [] OTHER -> {}
SecurityKeys(security) ==
  CASE security = "tls" -> {"serverName", "fingerprint", "alpn", "allowInsecure"}
    [] security = "reality" -> {"serverName", "fingerprint", "publicKey", "shortId", "spiderX"}
    [] OTHER -> {}

SharedLink ==
  \E K \in LinkKeys : \E q \in Blocks(K) :
    \E s \in Schemes, w \in {"", "w"}, n \in Networks, sec \in Securities :
      card = [form |-> "link", scheme |-> s, secret |-> w, address |-> "a", port |-> 443,
              q |-> IF s = "vmess" THEN setIf("net", n) @@ setIf("tls", sec) @@ q
                    ELSE IF s = "ss" THEN "method" :> "m"
                    ELSE setIf("type", n) @@ setIf("security", sec) @@ q]

WrittenOutbound ==
  \E n \in Networks, sec \in Securities :
  \E net \in UNION {Blocks(K \cap TransportKeys(n)) : K \in BlockKeys},
     opts \in UNION {Blocks(K \cap SecurityKeys(sec)) : K \in BlockKeys} :
    \E p \in Protocols, flat \in BOOLEAN, more \in {{}, {"mux"}}, port \in {0, 443}, cipher \in {"", "c"} :
      card = [form |-> "outbound", protocol |-> p, flat |-> flat, more |-> more,
              address |-> "a", port |-> port, secret |-> "w", cipher |-> cipher, flow |-> "",
              stream |-> [network |-> n, security |-> sec, sec |-> opts, net |-> net]]

LinkInit ==
  /\ source \in Sources
  /\ IF source = "link" THEN SharedLink ELSE WrittenOutbound
  /\ origin = NoCard /\ left = {}

Import ==
  /\ card.form = "link"
  /\ card' = ParseLink(card)
  /\ UNCHANGED <<origin, left, source>>

(* parseOutboundJSON: a pasted block is stored in canonical form.           *)
Paste ==
  /\ card.form = "outbound" /\ card.flat /\ card.port # 0
  /\ card' = normalizeFlatSettings(card)
  /\ UNCHANGED <<origin, left, source>>

Export ==
  /\ card.form = "outbound" /\ origin = NoCard
  /\ card' = BuildLink(card)
  /\ origin' = [card EXCEPT !.flat = FALSE] /\ left' = Notes(card)
  /\ UNCHANGED source

LinkNext == Import \/ Paste \/ Export

-----------------------------------------------------------------------------
(* What an outbound means to the server it reaches: defaults filled in.     *)
Meaning(o) ==
  LET ss == o.stream
      net == Network(ss)
      host == firstNonEmpty(<<Get(ss.net, "host"), Get(ss.net, "headers.Host")>>)
      path == firstNonEmpty(<<Get(ss.net, "path"), IF net \in {"ws", "xhttp"} THEN "/" ELSE "">>)
      rest == [k \in DOMAIN ss.net \ {"host", "headers.Host", "path"} |-> ss.net[k]]
  IN  [protocol |-> o.protocol, address |-> o.address, port |-> o.port, secret |-> o.secret,
       cipher |-> firstNonEmpty(<<o.cipher, DefaultCipher(o.protocol)>>), flow |-> o.flow,
       network |-> net, security |-> IF ss.security = "" THEN "none" ELSE ss.security,
       sec |-> IF ss.security \notin {"tls", "reality"} THEN Empty
               ELSE setIf("serverName", firstNonEmpty(<<Get(ss.sec, "serverName"), o.address>>)) @@ ss.sec,
       net |-> setIf("host", host) @@ setIf("path", path) @@ rest]

(* An outbound that came from a link, exported without a note and imported  *)
(* again (by this program: "or ParseLink - can import"), reaches the same   *)
(* server in the same way.                                                  *)
BackFromLink == card.form = "outbound" /\ origin # NoCard /\ left = {}
SharedLinkIsFaithful == BackFromLink /\ source = "link" => Meaning(card) = Meaning(origin)

(* "an empty list means the link carries the whole outbound".               *)
NotesAreComplete == BackFromLink => Meaning(card) = Meaning(origin)
=============================================================================
