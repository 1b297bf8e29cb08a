--------------------------- MODULE MCTranslations ---------------------------
(***************************************************************************)
(* The translations of the gateway, in one run: side = "send" is           *)
(* MessageBody, what a consumer wrote becoming Meta's body; "webhook" is   *)
(* WebhookBatch and "instagram" InstagramBatch, what Meta wrote becoming   *)
(* events.  They share nothing; a behaviour takes one side and keeps it.   *)
(*                                                                         *)
(* Each text of a request has a length of its own, so that a text in the   *)
(* wrong place of Meta's body is told from the right one.                  *)
(***************************************************************************)
EXTENDS MessageBody

(* A mobile number with and without its ninth digit, a landline, a number  *)
(* of another country.                                                     *)
Mobile == <<"5", "5", "1", "1", "9", "8", "7", "6", "5", "4", "3", "2", "1">>
NinthMissing == <<"5", "5", "1", "1", "8", "7", "6", "5", "4", "3", "2", "1">>
Landline == <<"5", "5", "1", "1", "3", "7", "6", "5", "4", "3", "2", "1">>
Foreign == <<"4", "4", "1", "1", "8", "7", "6", "5", "4", "3", "2", "1">>

(* The instance of type Instagram; an IGSID may look like a mobile number    *)
(* without its ninth digit.                                                  *)
TheInstagram == Id(1)
LikeAPhone == NinthMissing

-----------------------------------------------------------------------------
(* Blocks. *)

Pin(name) == [latitude |-> <<-23>>, longitude |-> <<-46>>, nome |-> name, endereco |-> Words(31)]
BarePin == [LocationRequest EXCEPT !.latitude = <<0>>, !.longitude = <<180>>]
OffTheMap == [BarePin EXCEPT !.latitude = <<91>>]

Header(kind) == [TemplateHeader EXCEPT !.tipo = kind]
TextHead == [Header("texto") EXCEPT !.texto = Words(32)]
Picture(kind, n) == [Header(kind) EXCEPT !.media_id = Id(n)]
Linked == [Header("imagem") EXCEPT !.media_id = Text(33, "link")]
Bytes == [Header("imagem") EXCEPT !.media_id = Text(33, "bytes")]
Receipt(kind) == [Picture(kind, 34) EXCEPT !.nome_arquivo = Words(35)]
PinHead == [Header("localizacao") EXCEPT !.localizacao = <<BarePin>>]
NamedPinHead == [Header("localizacao") EXCEPT !.localizacao = <<Pin(Words(30))>>]
Headers ==
  {TextHead, Picture("video", 33), Linked, Bytes, Receipt("documento"), Receipt("imagem"),
   Picture("audio", 33), PinHead, NamedPinHead, Header("localizacao"), Header("texto"),
   [TextHead EXCEPT !.media_id = Id(33)], [PinHead EXCEPT !.texto = Words(32)],
   [Picture("imagem", 33) EXCEPT !.localizacao = <<BarePin>>]}

Reply(n) == [id |-> Id(n), titulo |-> Words(n)]
Replies(k) == [i \in 1..k |-> Reply(10 + i)]
UrlButton(i, n) == [TemplateButtonUnion EXCEPT !.indice = i, !.tipo = "url", !.texto = Words(n)]
QuickButton(i, n) ==
  [TemplateButtonUnion EXCEPT !.indice = i, !.tipo = "resposta_rapida", !.payload = Words(n)]
TemplateButtonLists ==
  {<<UrlButton(0, 41)>>, <<QuickButton(0, 42), UrlButton(1, 41)>>,
   <<UrlButton(0, 41), QuickButton(0, 42)>>, <<UrlButton(-1, 41)>>,
   <<[UrlButton(0, 41) EXCEPT !.payload = Words(42)]>>, <<TemplateButtonUnion>>}

(* Cards of a template and of a free carousel. *)
Card(n) ==
  [TemplateCard EXCEPT !.cabecalho = <<Picture("imagem", n)>>, !.variaveis = <<Words(n + 1)>>,
                       !.botoes_template = <<QuickButton(0, n + 2), UrlButton(1, n + 3)>>]
Slide(n) ==
  [TemplateCard EXCEPT !.cabecalho = <<Picture("imagem", n)>>, !.texto = Words(n + 1),
                       !.botoes = <<Reply(15), Reply(16)>>]
LinkSlide(n) ==
  [Slide(n) EXCEPT !.botoes = <<>>, !.botao_titulo = Words(17), !.botao_url = Text(n + 2, "link")]
CardPairs == {<<Card(50), c>> : c \in
  {Card(60), Slide(60),
   [Card(60) EXCEPT !.botoes_template = <<UrlButton(1, 61), QuickButton(0, 62)>>],
   [Card(60) EXCEPT !.botoes_template = <<UrlButton(1, 61)>>],
   [Card(60) EXCEPT !.variaveis = <<>>], [Card(60) EXCEPT !.cabecalho = <<>>],
   [Card(60) EXCEPT !.texto = Words(64)], [Card(60) EXCEPT !.botoes = Replies(1)],
   [Card(60) EXCEPT !.cabecalho = <<Picture("video", 60)>>],
   [Card(60) EXCEPT !.cabecalho = <<PinHead>>], [Card(60) EXCEPT !.cabecalho = <<Linked>>]}}
SlidePairs == {<<Slide(50), c>> : c \in
  {Slide(60), LinkSlide(60), [Slide(60) EXCEPT !.texto = Blank],
   [Slide(60) EXCEPT !.variaveis = <<Words(65)>>], [Slide(60) EXCEPT !.botoes = Replies(3)],
   [Slide(60) EXCEPT !.botao_titulo = Words(17)], [Slide(60) EXCEPT !.cabecalho = <<Linked>>],
   [Slide(60) EXCEPT !.botoes_template = <<UrlButton(0, 41)>>]}}
  \cup {<<LinkSlide(50), LinkSlide(60)>>, <<LinkSlide(50), [LinkSlide(60) EXCEPT !.botao_url = Blank]>>}

Item(n) == [id |-> Id(n), titulo |-> Words(20), descricao |-> Words(n)]
Section(k, n) == [titulo |-> Words(n), itens |-> [i \in 1..k |-> Item(20 + i)]]
SectionLists ==
  {<<Section(1, 21)>>, <<Section(5, 21), Section(5, 22)>>, <<Section(5, 21), Section(6, 22)>>,
   <<Section(0, 21)>>, <<[titulo |-> Words(25), itens |-> <<Item(20)>>]>>,
   <<[titulo |-> Words(24), itens |-> <<[Item(20) EXCEPT !.descricao = Words(73)]>>]>>}

Reaction == [alvo |-> Id(26), emoji |-> <<Words(1)>>]
Person == [formatted_name |-> Words(27), birthday |-> Text(10, "date"), others |-> Words(28)]
Form == [FlowRequest EXCEPT !.id = Id(29), !.token = Id(36), !.tela = Id(37), !.dados = <<Words(38)>>]
Forms ==
  {Form, [Form EXCEPT !.acao = "navigate"], [Form EXCEPT !.acao = "data_exchange"],
   [Form EXCEPT !.acao = "data_exchange", !.tela = Blank, !.dados = <<>>],
   [Form EXCEPT !.nome = Words(39)], [Form EXCEPT !.id = Blank, !.nome = Words(39)],
   [Form EXCEPT !.tela = Blank], [Form EXCEPT !.token = Blank], [Form EXCEPT !.acao = "outra"]}

-----------------------------------------------------------------------------
(* Requests. *)

Common(type) ==
  [Request EXCEPT !.instancia = Id(2), !.para = Mobile, !.tipo = type]
WithText(type) == [Common(type) EXCEPT !.texto = Words(3)]
TemplateRequest == [Common("template") EXCEPT !.template = Id(4), !.idioma = Id(5)]

(* One good request of each type, and one of Instagram. *)
Bases ==
  {[WithText("texto") EXCEPT !.instancia = TheInstagram, !.para = LikeAPhone],
   WithText("texto"), WithText("pedir_localizacao"), TemplateRequest,
   [WithText("carrossel") EXCEPT !.cartoes = <<Slide(50), Slide(60)>>],
   [WithText("botoes") EXCEPT !.botoes = Replies(2)],
   [WithText("cta_url") EXCEPT !.botao_titulo = Words(8), !.botao_url = Text(9, "link")],
   [WithText("lista") EXCEPT !.botao_titulo = Words(8), !.secoes = <<Section(1, 21)>>],
   [Common("midia") EXCEPT !.media_id = Id(6), !.categoria = "imagem"],
   [Common("midia") EXCEPT !.media_id = Id(6), !.categoria = "documento"],
   [Common("reacao") EXCEPT !.reacao = <<Reaction>>],
   [Common("localizacao") EXCEPT !.localizacao = <<Pin(Words(30))>>],
   [Common("contatos") EXCEPT !.contatos = <<Person>>],
   [Common("flow") EXCEPT !.fluxo = <<Form>>, !.botao_titulo = Words(8)]}

(* Requests that have an object at every position. *)
Full ==
  Bases \cup {[TemplateRequest EXCEPT !.cabecalho = <<TextHead>>,
                                     !.botoes_template = <<QuickButton(0, 42), UrlButton(1, 41)>>],
             [TemplateRequest EXCEPT !.cartoes = <<Card(50), Card(60)>>],
             [WithText("botoes") EXCEPT !.botoes = Replies(2),
                                        !.cabecalho_midia = <<Receipt("documento")>>],
             [Common("flow") EXCEPT !.fluxo = <<[Form EXCEPT !.id = Blank, !.nome = Words(39)]>>,
                                    !.botao_titulo = Words(8)]}

(* What each field may say. *)
Says ==
  [instancia |-> {Blank, TheInstagram}, para |-> {<<>>, Landline, Foreign}, tipo |-> {"outro"},
   responder_a |-> {Id(7)}, texto |-> {Words(3), Text(3, "bytes"), Blank},
   template |-> {Id(4), Blank}, idioma |-> {Id(5), Blank},
   variaveis |-> {<<Words(11), Words(12)>>}, cabecalho |-> {<<h>> : h \in Headers},
   botoes_url |-> {<<"raw">>}, botoes_template |-> TemplateButtonLists,
   cartoes |-> CardPairs \cup SlidePairs
                 \cup {<<Card(50)>>, [i \in 1..11 |-> Card(50 + i)], <<>>},
   components |-> {<<"raw">>}, botoes |-> {Replies(1), Replies(3), Replies(4), <<Reply(21)>>, <<>>},
   botao_titulo |-> {Words(8), Words(21), Blank}, botao_url |-> {Text(9, "link"), Blank},
   secoes |-> SectionLists, cabecalho_texto |-> {Words(13), Words(61)},
   rodape |-> {Words(14), Words(61)}, cabecalho_midia |-> {<<h>> : h \in Headers},
   media_id |-> {Id(6), Text(6, "link"), Text(6, "bytes")},
   categoria |-> {"imagem", "audio", "documento", "outra", ""},
   legenda |-> {Words(18), Text(18, "bytes")}, nome_arquivo |-> {Words(19)},
   reacao |-> {<<Reaction>>, <<[Reaction EXCEPT !.emoji = <<Blank>>]>>,
               <<[Reaction EXCEPT !.emoji = <<>>]>>},
   localizacao |-> {<<BarePin>>, <<OffTheMap>>, <<LocationRequest>>, <<Pin(Blank)>>},
   contatos |-> {<<Person>>, <<Person, [Person EXCEPT !.birthday = Words(5)]>>,
                 <<[Person EXCEPT !.formatted_name = Blank]>>},
   fluxo |-> {<<f>> : f \in Forms}]

(* A base with one field said otherwise, or two of the fields that meet in a *)
(* guard of its type.                                                        *)
PairsOf(type) ==
  CASE type = "template" -> {{"cabecalho", "cartoes"}, {"cabecalho", "botoes_template"},
                             {"cartoes", "botoes_template"}, {"cartoes", "variaveis"}}
    [] type \in {"botoes", "cta_url"} -> {{"cabecalho_texto", "cabecalho_midia"},
                                         {"rodape", "cabecalho_midia"}, {"botoes", "botao_url"}}
    [] type = "midia" -> {{"categoria", "legenda"}, {"categoria", "nome_arquivo"}}
    [] type = "carrossel" -> {{"cartoes", "botao_url"}}
    [] OTHER -> {}

Saying(p, f) == {[p EXCEPT ![f] = v] : v \in Says[f]}
Twofold(p, pair) == UNION {UNION {Saying(q, g) : q \in Saying(p, f), g \in pair \ {f}} : f \in pair}

Instagrams == {TheInstagram}

EveryMeaning ==
  Full \cup UNION {Saying(p, f) : p \in Bases, f \in DOMAIN Says}
       \cup UNION {UNION {Twofold(p, pair) : pair \in PairsOf(p.tipo)} : p \in Bases}

-----------------------------------------------------------------------------
(* Spelling. *)

Positions == {"top", "header", "card", "templateButton", "reaction", "location", "flow",
              "button", "value"}

EnglishOf(dict) == [pt \in {dict[en] : en \in DOMAIN dict} |-> CHOOSE en \in DOMAIN dict : dict[en] = pt]

(* An object that says what differs from the block's zero, its keys in English *)
(* if the position is; `both` says the first key of the dictionary twice.      *)
Written(x, zero, dict, english, both) ==
  LET said == {k \in DOMAIN x : x[k] # zero[k]}
      en == EnglishOf(dict)
      name(k) == IF english /\ k \in DOMAIN en THEN en[k] ELSE k
      twins == {en[k] : k \in said \cap DOMAIN en}
      object == [n \in {name(k) : k \in said} |-> x[CHOOSE k \in said : name(k) = n]]
  IN IF both /\ ~english /\ twins # {}
     THEN LET twin == CHOOSE n \in twins : TRUE IN object @@ (twin :> x[dict[twin]])
     ELSE object

SpelledValue(v, dict, english) ==
  LET en == EnglishOf(dict) IN IF english /\ v \in DOMAIN en THEN en[v] ELSE v

(* Spaces around every text the code trims, and spaces alone for a text that *)
(* is not said.                                                              *)
Spaced(t) == [t EXCEPT !.padded = TRUE]
SpacedFields(x, fields) == [k \in DOMAIN x |-> IF k \in fields THEN Spaced(x[k]) ELSE x[k]]
SpacedAll(s, fields) == [i \in DOMAIN s |-> SpacedFields(s[i], fields)]

SpacedHeader(h) ==
  [SpacedFields(h, {"texto", "media_id", "nome_arquivo"}) EXCEPT
     !.localizacao = SpacedAll(@, {"nome", "endereco"})]
SpacedCard(type, c) ==
  [SpacedFields(c, IF type = "carrossel" THEN {"texto", "botao_titulo", "botao_url"} ELSE {}) EXCEPT
     !.cabecalho = Each(SpacedHeader, @),
     !.variaveis = Each(Spaced, @),
     !.botoes = SpacedAll(@, {"id", "titulo"}),
     !.botoes_template = SpacedAll(@, {"texto", "payload"})]
SpacedSection(s) ==
  [SpacedFields(s, {"titulo"}) EXCEPT !.itens = SpacedAll(@, {"id", "titulo", "descricao"})]
SpacedReaction(r) == [SpacedFields(r, {"alvo"}) EXCEPT !.emoji = Each(Spaced, @)]

SpacedRequest(p) ==
  [SpacedFields(p, {"instancia", "texto", "template", "idioma", "botao_titulo", "botao_url",
                    "responder_a", "media_id", "legenda", "nome_arquivo"}
                   \cup (IF p.tipo \in WithFreeHeader THEN {"cabecalho_texto", "rodape"} ELSE {})) EXCEPT
     !.para = IF @ = Mobile /\ p.instancia # TheInstagram THEN <<"+">> \o NinthMissing
              ELSE <<" ">> \o @ \o <<" ">>,
     !.cabecalho = Each(SpacedHeader, @),
     !.cabecalho_midia = Each(SpacedHeader, @),
     !.botoes = SpacedAll(@, {"id", "titulo"}),
     !.botoes_template = SpacedAll(@, {"texto", "payload"}),
     !.cartoes = [i \in DOMAIN @ |-> SpacedCard(p.tipo, @[i])],
     !.secoes = Each(SpacedSection, @),
     !.reacao = Each(SpacedReaction, @),
     !.localizacao = SpacedAll(@, {"nome", "endereco"}),
     !.contatos = SpacedAll(@, {"formatted_name", "birthday"}),
     !.fluxo = SpacedAll(@, {"id", "nome", "token", "tela"})]

(* The object a consumer writes.  The pin of a header has Portuguese names: no  *)
(* dictionary is for that position.                                             *)
WireOf(p0, s) ==
  LET p == IF s.spaces THEN SpacedRequest(p0) ELSE p0
      E(position) == position \in s.english
      two(position) == s.twice = position
      pin(l) == Written(l, LocationRequest, locationAlias, FALSE, FALSE)
      header(h) == Written([h EXCEPT !.localizacao = Each(pin, @)], TemplateHeader,
                           templateHeaderAlias, E("header"), two("header"))
      button(b) == Written(b, Button, buttonAlias, E("button"), two("button"))
      templateButton(b) ==
        Written([b EXCEPT !.tipo = SpelledValue(@, templateButtonTypeValueAlias, E("value"))],
                TemplateButtonUnion, templateButtonAlias, E("templateButton"), two("templateButton"))
      card(c) ==
        Written([c EXCEPT !.cabecalho = Each(header, @), !.botoes = Each(button, @),
                          !.botoes_template = Each(templateButton, @)],
                TemplateCard, cardAlias, E("card"), two("card"))
  IN Written([p EXCEPT
       !.tipo = SpelledValue(@, requestTypeValueAlias, E("value")),
       !.categoria = SpelledValue(@, requestCategoryValueAlias, E("value")),
       !.cabecalho = Each(header, @),
       !.cabecalho_midia = Each(header, @),
       !.botoes = Each(button, @),
       !.botoes_template = Each(templateButton, @),
       !.cartoes = Each(card, @),
       !.reacao = [i \in DOMAIN @ |->
                     Written(@[i], ReactionRequest, reactionAlias, E("reaction"), two("reaction"))],
       !.localizacao = [i \in DOMAIN @ |->
                     Written(@[i], LocationRequest, locationAlias, E("location"), two("location"))],
       !.fluxo = [i \in DOMAIN @ |->
                     Written(@[i], FlowRequest, flowAlias, E("flow"), two("flow"))]],
     Request, requestAliasAtTopLevel, E("top"), two("top"))

Spelling(english, spaces, twice) == [english |-> english, spaces |-> spaces, twice |-> twice]

Portuguese(spaces) == Spelling({}, spaces, "no")
English(spaces) == Spelling(Positions, spaces, "no")

(* One position in the other language, and one object that names a key twice. *)
OneApart == {Spelling({at}, FALSE, "no") : at \in Positions}
              \cup {Spelling(Positions \ {at}, FALSE, "no") : at \in Positions}
Twice == {Spelling(Positions \ {at}, FALSE, at) : at \in Positions}

(* Every meaning in Portuguese and in English; what is accepted also with *)
(* spaces; a few with one position apart.                                  *)
SpellingsOf(p) ==
  {Portuguese(FALSE), English(FALSE)}
  \cup (IF Accepts(p) THEN {Portuguese(TRUE), English(TRUE)} ELSE {})
  \cup (IF p \in Full THEN OneApart \cup Twice ELSE {})

-----------------------------------------------------------------------------
(* Properties about the spelling. *)

NamesTwice == WireOf(meant, spelling) # WireOf(meant, [spelling EXCEPT !.twice = "no"])

(* The order translate, decode, normalise, hash (handler.go, message.go): in *)
(* whichever language, with whatever spaces and punctuation a request is     *)
(* written, it is accepted or refused for what it means, and a retry in      *)
(* another spelling has the fingerprint of the first and gives Meta the same *)
(* body.  The id of an Instagram contact reaches Meta as it was written, even *)
(* one that looks like a phone number.  A key written in both languages, in  *)
(* any object of the body, is refused.                                       *)
SpellingDoesNotMatter ==
  /\ phase \in {"accepted", "sent"} =>
       ~NamesTwice /\ Accepts(meant) /\ hash = RequestHash(Normal(meant))
  /\ phase = "sent" => sent = BodyFor(Normal(meant), meant.para)
  /\ phase = "refused" => NamesTwice \/ ~Accepts(meant) \/ ~SentOnItsInstance(meant)

(* CounterOldNameUsed decides when the Portuguese names may go: a request    *)
(* counts exactly when somewhere in it a name or a value that has an English *)
(* form came in Portuguese.                                                  *)
OldNamesAreCounted ==
  phase = "sent" =>
    (oldNames = {} <=>
       WireOf(meant, spelling) = WireOf(meant, [spelling EXCEPT !.english = Positions]))

-----------------------------------------------------------------------------
(* Webhooks. *)

CONSTANTS own, other, Arriving, ArrivingInstagram

VARIABLES side, payload, evs, ignored, unmodeled, answer

P == INSTANCE WebhookParts

W == INSTANCE WebhookBatch WITH Payloads <- Arriving, Own <- [waba |-> own, number |-> own]

G == INSTANCE InstagramBatch WITH Payloads <- ArrivingInstagram, OwnIgId <- own, unreadable <- ignored

ASSUME TranslationsAssumption == W!BatchAssumption /\ G!BatchAssumption

webhookVars == <<payload, evs, ignored, unmodeled, answer>>
allVars == <<side, vars, webhookVars>>

Message(id, type) ==
  [id |-> id, type |-> P!Read(type), text |-> P!Absent, reaction |-> P!Absent,
   location |-> P!Absent]
Hello == P!Read([Message(P!Read("m1"), "text") EXCEPT !.text = P!Read("body")])
Messages ==
  {Hello, P!Unreadable, P!Read(Message(P!Unreadable, "text")), P!Read(Message(P!Absent, "text")),
   P!Read([Message(P!Read("m2"), "text") EXCEPT !.text = P!Unreadable]),
   P!Read([Message(P!Read("m2"), "text") EXCEPT !.type = P!Unreadable])}
  \cup {P!Read([Message(P!Read("m2"), "reaction") EXCEPT !.reaction = r]) :
          r \in {P!Absent, P!Unreadable, P!Read(""), P!Read("m1")}}
  \cup {P!Read([Message(P!Read("m2"), "location") EXCEPT !.location = l]) :
          l \in {P!Absent, P!Unreadable, P!Read("place")}}

Status(id, state, pricing) == P!Read([id |-> id, status |-> state, pricing |-> pricing])
Delivered == Status(P!Read("m3"), P!Read("delivered"), P!Absent)
Statuses ==
  {Delivered, P!Unreadable, Status(P!Absent, P!Read("read"), P!Absent),
   Status(P!Read("m3"), P!Unreadable, P!Absent), Status(P!Read("m3"), P!Read("read"), P!Unreadable)}

ListsOf(items, good) ==
  {P!Absent, P!Unreadable} \cup {P!Read(<<i>>) : i \in items} \cup {P!Read(<<i, good>>) : i \in items}

Value(metadata, messages, statuses) ==
  P!Read([metadata |-> metadata, messages |-> messages, statuses |-> statuses])
Values ==
  {Value(n, m, P!Absent) : n \in {P!Read(own), P!Read(other), P!Unreadable}, m \in ListsOf(Messages, Hello)}
  \cup {Value(P!Read(own), m, s) : m \in {P!Unreadable, P!Read(<<Hello>>)}, s \in ListsOf(Statuses, Delivered)}

(* The value of an account change, and one whose shape is not known. *)
AccountValue(f, said(_)) ==
  P!Read([k \in P!ToSet(P!Pieces[f]) |-> said(k)] @@ Value(P!Absent, P!Absent, P!Absent).is)
AccountValues(f) ==
  {AccountValue(f, LAMBDA k : P!Read(k)), AccountValue(f, LAMBDA k : P!Unreadable), P!Unreadable}
  \cup {AccountValue(f, LAMBDA k : IF k = p THEN P!Read(k) ELSE P!Absent) : p \in P!ToSet(P!Pieces[f])}
  \cup {AccountValue(f, LAMBDA k : IF k = p THEN P!Absent ELSE P!Read(k)) : p \in P!ToSet(P!Pieces[f])}

Change(field, value) == P!Read([field |-> field, value |-> value])
MessagesChange(value) == Change(P!Read("messages"), value)
SomeValue == Value(P!Read(own), P!Read(<<Hello>>), P!Read(<<Delivered>>))
FewChanges ==
  {MessagesChange(SomeValue), MessagesChange(P!Unreadable), MessagesChange(P!Absent), P!Unreadable,
   Change(P!Unreadable, SomeValue), Change(P!Read("flows"), SomeValue), Change(P!Absent, P!Absent),
   MessagesChange(Value(P!Unreadable, P!Read(<<Hello>>), P!Absent)),
   Change(P!Read("account_alert"), AccountValue("account_alert", LAMBDA k : P!Read(k)))}
(* An account change of which a list is broken that is not of its kind. *)
AlertBesideBrokenList ==
  Change(P!Read("account_alert"),
         [AccountValue("account_alert", LAMBDA k : P!Read(k)) EXCEPT !.is.messages = P!Unreadable])
AllChanges ==
  FewChanges \cup {AlertBesideBrokenList} \cup {MessagesChange(v) : v \in Values}
  \cup UNION {{Change(P!Read(f), v) : v \in AccountValues(f)} : f \in DOMAIN P!Pieces}

Entry(id, changes) == P!Read([id |-> id, time |-> P!Read(1), changes |-> changes])
Accounts == {P!Read(own), P!Read(other), P!Unreadable}
FewEntries ==
  {Entry(id, P!Read(<<c>>)) : id \in Accounts, c \in FewChanges}
  \cup {P!Unreadable, Entry(P!Read(own), P!Unreadable), Entry(P!Read(other), P!Absent)}

Body(entries) == [object |-> TRUE, entry |-> entries]
EveryPayload ==
  {[object |-> FALSE], Body(P!Unreadable), Body(P!Absent)}
  \cup {Body(P!Read(<<Entry(id, P!Read(<<c, d>>))>>)) : id \in Accounts, c \in AllChanges, d \in FewChanges}
  \cup {Body(P!Read(<<e, f>>)) : e \in FewEntries, f \in FewEntries}

-----------------------------------------------------------------------------
(* Webhooks of Instagram. *)

Texted(mid, text, echo) == [mid |-> mid, text |-> text, echo |-> echo]
InstagramItem(message, sender) ==
  P!Read([message |-> message, sender |-> sender, timestamp |-> P!Read(1)])
FirstDM == InstagramItem(P!Read(Texted("m1", "words", FALSE)), P!Read("somebody"))
InstagramItems ==
  {P!Unreadable, InstagramItem(P!Absent, P!Absent), InstagramItem(P!Unreadable, P!Absent), FirstDM,
   InstagramItem(P!Read(Texted("m2", "words", FALSE)), P!Unreadable)}
  \cup {InstagramItem(P!Read(m), P!Absent) :
          m \in {Texted("m3", "words", TRUE), Texted("", "words", FALSE), Texted("m4", "", FALSE)}}
InstagramLists(items) ==
  {P!Absent, P!Unreadable, P!Read(<<>>)} \cup {P!Read(<<i>>) : i \in items}
  \cup {P!Read(<<i, j>>) : i \in items, j \in items}
InstagramEntry(id, list) == P!Read([id |-> id, messaging |-> list])
InstagramEntries(items) ==
  {P!Unreadable} \cup
  {InstagramEntry(id, list) : id \in Accounts \cup {P!Absent}, list \in InstagramLists(items)}
EveryInstagramPayload ==
  {[object |-> FALSE], Body(P!Unreadable), Body(P!Absent), Body(P!Read(<<>>))}
  \cup {Body(P!Read(<<e>>)) : e \in InstagramEntries(InstagramItems)}
  \cup {Body(P!Read(<<e, f>>)) : e \in InstagramEntries({FirstDM}), f \in InstagramEntries(InstagramItems)}

-----------------------------------------------------------------------------
(* All sides. *)

NoWebhook ==
  payload = [object |-> FALSE] /\ evs = <<>> /\ ignored = 0 /\ unmodeled = 0 /\ answer = "none"
NoSend ==
  /\ meant = Request /\ spelling = Portuguese(FALSE) /\ phase = "none" /\ body = NoBody
  /\ request = Request /\ oldNames = {} /\ hash = NoBody /\ sent = NoBody

SidesInit == \/ side = "send" /\ Init /\ NoWebhook
             \/ side = "webhook" /\ W!Init /\ unmodeled = 0 /\ NoSend
             \/ side = "instagram" /\ G!Init /\ NoSend

SidesNext == \/ side = "send" /\ Next /\ UNCHANGED <<side, webhookVars>>
             \/ side = "webhook" /\ W!Next /\ UNCHANGED <<side, unmodeled, vars>>
             \/ side = "instagram" /\ G!Next /\ UNCHANGED <<side, vars>>

SidesSpec == SidesInit /\ [][SidesNext]_allVars

(* "An event we don't know how to read cannot discard the ones after it"     *)
(* (parse.go): see WebhookBatch and InstagramBatch.                          *)
ItemsAreReadAlone ==
  /\ side = "webhook" => W!ItemsAreReadAlone
  /\ side = "instagram" => G!ItemsAreReadAlone

(* "Counted, never silently discarded" (parse.go, instagram.go): see         *)
(* WebhookBatch and InstagramBatch.                                          *)
LossIsTold ==
  /\ side = "webhook" => W!LossIsTold
  /\ side = "instagram" => G!LossIsTold

(* Isolation by number and by account (handler.go): see WebhookBatch and     *)
(* InstagramBatch.                                                           *)
DeliveredIsProven ==
  /\ side = "webhook" => W!DeliveredIsProven
  /\ side = "instagram" => G!DeliveredIsProven
=============================================================================
