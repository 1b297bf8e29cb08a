---------------------------- MODULE MessageBody ----------------------------
(***************************************************************************)
(* From the body a consumer sent to the body Meta receives                 *)
(* (internal/outbound/handler.go, message.go, input_aliases.go, body.go):  *)
(* translate the English names, decode, validate and normalise, take the   *)
(* hash that tells a retry from another request, build Meta's body.        *)
(*                                                                         *)
(* The behaviour is of one request.  What the consumer means is a request  *)
(* in the form of MessageRequest, every text without surrounding spaces;   *)
(* what it writes is a JSON object.  Which object it writes for what it    *)
(* means is the model's environment, given by Wire.                        *)
(***************************************************************************)
EXTENDS MessageRequest, MessageAliases, FiniteSetsExt, TLC

CONSTANTS
  Meanings,         \* what a consumer may mean
  Spellings(_),     \* how it may write a meaning
  Wire(_, _),       \* the object it then sends
  InstagramInstances   \* the instances of type Instagram, found by `instancia`

VARIABLES
  meant,        \* what the consumer means
  spelling,     \* how it writes it
  phase,        \* how far the request has come
  body,         \* the object received, and then translated
  request,      \* the decoded request, normalised by Validate()
  oldNames,     \* Portuguese names and values it used
  hash,         \* the request's fingerprint, of the idempotency record
  sent          \* Meta's body

vars == <<meant, spelling, phase, body, request, oldNames, hash, sent>>

NoBody == [nothing |-> TRUE]

-----------------------------------------------------------------------------
(* Decoding: the keys a block has, and the block's zero for what is missing. *)

Decoded(m, zero) == [k \in DOMAIN zero |-> IF k \in DOMAIN m THEN m[k] ELSE zero[k]]

ReadLocation(m) == Decoded(m, LocationRequest)
ReadHeader(m) ==
  [Decoded(m, TemplateHeader) EXCEPT !.localizacao = Each(ReadLocation, @)]
ReadButton(m) == Decoded(m, Button)
ReadTemplateButton(m) == Decoded(m, TemplateButtonUnion)
ReadCard(m) ==
  [Decoded(m, TemplateCard) EXCEPT
     !.cabecalho = Each(ReadHeader, @),
     !.botoes_template = Each(ReadTemplateButton, @),
     !.botoes = Each(ReadButton, @)]
ReadItem(m) == Decoded(m, ListItem)
ReadSection(m) == [Decoded(m, ListSection) EXCEPT !.itens = Each(ReadItem, @)]
ReadReaction(m) == Decoded(m, ReactionRequest)
ReadContact(m) == Decoded(m, Contact)
ReadFlow(m) == Decoded(m, FlowRequest)

Unmarshal(m) ==
  [Decoded(m, Request) EXCEPT
     !.cabecalho = Each(ReadHeader, @),
     !.cabecalho_midia = Each(ReadHeader, @),
     !.botoes = Each(ReadButton, @),
     !.botoes_template = Each(ReadTemplateButton, @),
     !.cartoes = Each(ReadCard, @),
     !.secoes = Each(ReadSection, @),
     !.reacao = Each(ReadReaction, @),
     !.localizacao = Each(ReadLocation, @),
     !.contatos = Each(ReadContact, @),
     !.fluxo = Each(ReadFlow, @)]

(* Two requests have one fingerprint exactly when they are equal: SHA-256 of *)
(* the JSON of the normalised struct, which is always in the same order.     *)
RequestHash(p) == [sha256 |-> p]

-----------------------------------------------------------------------------
(* Meta's body (body.go): a key whose value is empty is left out. *)

Optional(key, t) == IF IsSet(t) THEN key :> t ELSE <<>>

locationBody(l) ==
  [latitude |-> l.latitude[1], longitude |-> l.longitude[1]]
    @@ Optional("name", l.nome) @@ Optional("address", l.endereco)

mediaBody(category, id, caption, filename) ==
  [id |-> id]
    @@ (IF AcceptsCaption(category) THEN Optional("caption", caption) ELSE <<>>)
    @@ (IF AcceptsFilename(category) THEN Optional("filename", filename) ELSE <<>>)

headerParameter(h) ==
  CASE h.tipo = "texto"       -> [type |-> "text", text |-> h.texto]
    [] h.tipo = "localizacao" -> [type |-> "location",
                                  location |-> locationBody(h.localizacao[1])]
    [] OTHER -> LET kind == GraphAPIType(h.tipo)
                IN ("type" :> kind) @@
                   (kind :> mediaBody(h.tipo, h.media_id, Blank, h.nome_arquivo))

textParameters(texts) == [i \in DOMAIN texts |-> [type |-> "text", text |-> texts[i]]]

(* The index is a string in the Graph API. *)
buttonComponent(b) ==
  [type |-> "button", index |-> ToString(b.indice)] @@
  (IF b.tipo = "url"
   THEN [sub_type |-> "url", parameters |-> <<[type |-> "text", text |-> b.texto]>>]
   ELSE [sub_type |-> "quick_reply",
         parameters |-> <<[type |-> "payload", payload |-> b.payload]>>])

headerComponents(headers) ==
  [i \in DOMAIN headers |->
     [type |-> "header", parameters |-> <<headerParameter(headers[i])>>]]

bodyComponents(variables) ==
  IF variables = <<>> THEN <<>>
  ELSE <<[type |-> "body", parameters |-> textParameters(variables)]>>

(* Header, body and buttons, of the template or of one of its cards. *)
componentsOf(x) ==
  headerComponents(x.cabecalho) \o bodyComponents(x.variaveis)
    \o Each(buttonComponent, x.botoes_template)

templateComponents(p) ==
  componentsOf(p) \o
  (IF p.cartoes = <<>> THEN <<>>
   ELSE <<[type |-> "carousel",
           cards |-> [i \in DOMAIN p.cartoes |->
                        [card_index |-> i - 1,
                         components |-> componentsOf(p.cartoes[i])]]]>>)

replyButton(kind, b) == ("type" :> kind) @@ (kind :> [id |-> b.id, title |-> b.titulo])

linkAction(title, url) ==
  [name |-> "cta_url", parameters |-> [display_text |-> title, url |-> url]]

carouselCard(c, i) ==
  [card_index |-> i - 1, type |-> "cta_url",
   header |-> headerParameter(c.cabecalho[1]),
   action |-> IF c.botoes = <<>> THEN linkAction(c.botao_titulo, c.botao_url)
              ELSE [buttons |-> [j \in DOMAIN c.botoes |->
                                   replyButton("quick_reply", c.botoes[j])]]]
  @@ (IF IsSet(c.texto) THEN [body |-> [text |-> c.texto]] ELSE <<>>)

listRow(i) == [id |-> i.id, title |-> i.titulo] @@ Optional("description", i.descricao)
listSection(s) == [title |-> s.titulo, rows |-> Each(listRow, s.itens)]

flowParameters(p) ==
  LET f == p.fluxo[1]
      payload == Optional("screen", f.tela)
                   @@ (IF f.dados = <<>> THEN <<>> ELSE "data" :> f.dados)
  IN [flow_message_version |-> "3", flow_token |-> f.token,
      flow_cta |-> p.botao_titulo, flow_action |-> f.acao]
     @@ Optional("flow_id", f.id) @@ Optional("flow_name", f.nome)
     @@ (IF payload = <<>> THEN <<>> ELSE "flow_action_payload" :> payload)

(* The action of an interactive message. *)
interactiveAction(p) ==
  CASE p.tipo = "botoes"    -> [buttons |-> [i \in DOMAIN p.botoes |->
                                               replyButton("reply", p.botoes[i])]]
    [] p.tipo = "carrossel" -> [cards |-> [i \in DOMAIN p.cartoes |->
                                             carouselCard(p.cartoes[i], i)]]
    [] p.tipo = "cta_url"   -> linkAction(p.botao_titulo, p.botao_url)
    [] p.tipo = "lista"     -> [button |-> p.botao_titulo,
                                sections |-> Each(listSection, p.secoes)]
    [] p.tipo = "flow"      -> [name |-> "flow", parameters |-> flowParameters(p)]
    [] OTHER                -> [name |-> "send_location"]

interactiveTypes ==
  [botoes |-> "button", carrossel |-> "carousel", cta_url |-> "cta_url",
   lista |-> "list", pedir_localizacao |-> "location_request_message",
   flow |-> "flow"]

(* A medium in the header takes the place of a text. *)
interactiveHeader(p) ==
  IF p.tipo \notin WithFreeHeader THEN <<>>
  ELSE IF p.tipo # "lista" /\ p.cabecalho_midia # <<>>
       THEN "header" :> headerParameter(p.cabecalho_midia[1])
       ELSE IF IsSet(p.cabecalho_texto)
            THEN "header" :> [type |-> "text", text |-> p.cabecalho_texto] ELSE <<>>

interactiveBody(p) ==
  [type |-> interactiveTypes[p.tipo], body |-> [text |-> p.texto],
   action |-> interactiveAction(p)]
  @@ interactiveHeader(p)
  @@ (IF p.tipo \in WithFreeHeader /\ IsSet(p.rodape)
      THEN "footer" :> [text |-> p.rodape] ELSE <<>>)

templateBody(p) ==
  [name |-> p.template, language |-> [code |-> p.idioma]]
  @@ (IF templateComponents(p) = <<>> THEN <<>>
      ELSE "components" :> templateComponents(p))

(* What the message says, under the key of its type. *)
messageContent(p) ==
  CASE p.tipo = "texto"       -> "text" :> [body |-> p.texto]
    [] p.tipo = "template"    -> "template" :> templateBody(p)
    [] p.tipo = "midia"       -> GraphAPIType(p.categoria) :>
                                   mediaBody(p.categoria, p.media_id, p.legenda,
                                             p.nome_arquivo)
    [] p.tipo = "reacao"      -> "reaction" :> [message_id |-> p.reacao[1].alvo,
                                                emoji |-> p.reacao[1].emoji[1]]
    [] p.tipo = "localizacao" -> "location" :> locationBody(p.localizacao[1])
    [] p.tipo = "contatos"    -> "contacts" :> p.contatos
    [] OTHER                  -> "interactive" :> interactiveBody(p)

MetaBody(p) ==
  [to |-> Canonicalize(p.para), content |-> messageContent(p)]
  @@ (IF IsSet(p.responder_a)
      THEN "context" :> [message_id |-> p.responder_a] ELSE <<>>)

(* Instagram's body has the text and the address, nothing else.  The address *)
(* is an IGSID and not a number: it goes as the consumer wrote it, trimmed,  *)
(* never in the canonical form Validate() gives every `para`.                *)
TrimmedAddress(to) ==
  LET written == {i \in DOMAIN to : to[i] # " "}
  IN IF written = {} THEN <<>> ELSE SubSeq(to, Min(written), Max(written))

InstagramBody(rawTo, text) == [recipient |-> [id |-> rawTo], message |-> [text |-> text]]

OnInstagram(p) == p.instancia \in InstagramInstances

(* Meta's body for a normalised request whose `para` was rawTo: the type of *)
(* the instance decides which call goes out.                                *)
BodyFor(p, rawTo) == IF OnInstagram(p) THEN InstagramBody(rawTo, p.texto) ELSE MetaBody(p)

(* An Instagram instance sends text only. *)
SentOnItsInstance(p) == OnInstagram(p) => p.tipo = "texto"

-----------------------------------------------------------------------------
(* The handler, up to the idempotency record, and the body it then sends. *)

Init ==
  /\ meant \in Meanings
  /\ spelling \in Spellings(meant)
  /\ body = NoBody
  /\ phase = "meant"
  /\ request = Request
  /\ oldNames = {}
  /\ hash = NoBody
  /\ sent = NoBody

Receive ==
  /\ phase = "meant"
  /\ phase' = "received"
  /\ body' = Wire(meant, spelling)
  /\ UNCHANGED <<meant, spelling, request, oldNames, hash, sent>>

Refuse ==
  /\ phase' = "refused"
  /\ UNCHANGED <<meant, spelling, request, oldNames, hash, sent>>

(* A key in both languages is refused: one of the two would be ignored. *)
TranslateRefused ==
  /\ phase = "received"
  /\ ErrConflictingAlias(body)
  /\ Refuse
  /\ UNCHANGED body

Translate ==
  /\ phase = "received"
  /\ ~ErrConflictingAlias(body)
  /\ phase' = "translated"
  /\ body' = translateRequestBody(body)
  /\ oldNames' = OldNames(body)
  /\ UNCHANGED <<meant, spelling, request, hash, sent>>

ValidateRefused ==
  /\ phase = "translated"
  /\ ~Accepts(Unmarshal(body))
  /\ Refuse
  /\ UNCHANGED body

(* The hash is taken after the validation, which normalises the request. *)
ValidateAndHash ==
  /\ phase = "translated"
  /\ Accepts(Unmarshal(body))
  /\ phase' = "accepted"
  /\ request' = Normal(Unmarshal(body))
  /\ hash' = RequestHash(request')
  /\ UNCHANGED <<meant, spelling, body, oldNames, sent>>

(* The type of the instance is known only after the validation and the hash. *)
InstagramRefused ==
  /\ phase = "accepted"
  /\ ~SentOnItsInstance(request)
  /\ Refuse
  /\ UNCHANGED body

Build ==
  /\ phase = "accepted"
  /\ SentOnItsInstance(request)
  /\ phase' = "sent"
  /\ sent' = BodyFor(request, TrimmedAddress(Unmarshal(body).para))
  /\ UNCHANGED <<meant, spelling, body, request, oldNames, hash>>

Next ==
  \/ Receive \/ TranslateRefused \/ Translate
  \/ ValidateRefused \/ ValidateAndHash \/ InstagramRefused \/ Build

Spec == Init /\ [][Next]_vars

-----------------------------------------------------------------------------
(* Properties. *)

(* Every request that differs from p by one thing said less. *)
Erased(x, zero) ==
  {[k |-> k, x |-> [x EXCEPT ![k] = zero[k]]] : k \in {k \in DOMAIN x : x[k] # zero[k]}}

ErasedIn(s, zero) ==
  UNION {{[k |-> e.k, x |-> [s EXCEPT ![i] = e.x]] : e \in Erased(s[i], zero)} :
           i \in DOMAIN s}

Inner(x, field, zero) ==
  {[k |-> e.k, x |-> [x EXCEPT ![field] = e.x]] : e \in ErasedIn(x[field], zero)}

InnerOf(s, field, zero) ==
  UNION {{[k |-> e.k, x |-> [s EXCEPT ![i] = e.x]] : e \in Inner(s[i], field, zero)} :
           i \in DOMAIN s}

In(p, field, erased) == {[k |-> e.k, x |-> [p EXCEPT ![field] = e.x]] : e \in erased}

Less(p) ==
  Inner(p, "cabecalho", TemplateHeader)
  \cup Inner(p, "cabecalho_midia", TemplateHeader)
  \cup Inner(p, "botoes_template", TemplateButtonUnion)
  \cup Inner(p, "botoes", Button)
  \cup Inner(p, "secoes", ListSection)
  \cup Inner(p, "cartoes", TemplateCard)
  \cup Inner(p, "reacao", ReactionRequest)
  \cup Inner(p, "localizacao", LocationRequest)
  \cup Inner(p, "contatos", Contact)
  \cup Inner(p, "fluxo", FlowRequest)
  \cup In(p, "cabecalho", InnerOf(p.cabecalho, "localizacao", LocationRequest))
  \cup In(p, "secoes", InnerOf(p.secoes, "itens", ListItem))
  \cup In(p, "cartoes", InnerOf(p.cartoes, "cabecalho", TemplateHeader))
  \cup In(p, "cartoes", InnerOf(p.cartoes, "botoes", Button))
  \cup In(p, "cartoes", InnerOf(p.cartoes, "botoes_template", TemplateButtonUnion))

LostIn(p, less) ==
  {e.k : e \in {e \in less :
                  /\ Accepts(e.x)
                  /\ Normal(e.x) # p
                  /\ BodyFor(Normal(e.x), e.x.para) = BodyFor(p, p.para)}}

(* The fields of the body itself that Validate() guards in no other type; it *)
(* does not know the type of the instance, and Instagram has no answer to a  *)
(* message.                                                                  *)
Unguarded(p) ==
  {"texto", "template", "idioma", "variaveis", "botao_url", "media_id",
   "categoria", "legenda", "nome_arquivo"}
  \cup (IF OnInstagram(p) THEN {"responder_a"} ELSE {})

(* "It would vanish without an error" (message.go, twenty times): what a     *)
(* consumer says and is accepted reaches Meta.  Whatever may be left out of  *)
(* an accepted request changes Meta's body when it is; only a field of the   *)
(* Unguarded ones, in a type or an instance that does not carry it, is       *)
(* dropped with a 200.                                                       *)
OnlyUnguardedFieldsVanish ==
  phase = "sent" => /\ LostIn(request, Erased(request, Request)) \subseteq Unguarded(request)
                    /\ LostIn(request, Less(request)) = {}
=============================================================================
