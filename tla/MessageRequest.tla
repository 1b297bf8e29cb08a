--------------------------- MODULE MessageRequest ---------------------------
(***************************************************************************)
(* The body of POST /v1/messages (internal/outbound/message.go): what a    *)
(* consumer may ask for, how it is normalised and what is refused.         *)
(*                                                                         *)
(* Fields have their JSON names.  A text keeps what the checks look at: its *)
(* length in runes, whether spaces surround it, and what it is (words, an  *)
(* id, a link, or bytes as a data: URI).  The members of an enumeration    *)
(* (tipo, categoria, acao) are strings.  A pointer is a sequence of at     *)
(* most one element, a phone number a sequence of characters.              *)
(***************************************************************************)
EXTENDS Integers, Sequences, FiniteSets, Phone

-----------------------------------------------------------------------------
(* Texts. *)

Text(n, what) == [runes |-> n, is |-> what, padded |-> FALSE]
Words(n) == Text(n, "words")
Id(n) == Text(n, "id")
Blank == Words(0)

TrimSpace(t) == [t EXCEPT !.padded = FALSE]
IsSet(t) == t # Blank
UpTo(limit, t) == t.runes <= limit
containsBase64(t) == t.is = "bytes"

(* What may become a segment of a URL. *)
MediaIDValid(t) == t.is = "id" /\ t.runes > 0

Each(Op(_), s) == [i \in DOMAIN s |-> Op(s[i])]
All(Op(_), s) == \A i \in DOMAIN s : Op(s[i])
Alike(Kind(_), s) == \A i, j \in DOMAIN s : Kind(s[i]) = Kind(s[j])

-----------------------------------------------------------------------------
(* Media (internal/meta/media.go). *)

categories ==
  [imagem    |-> [graphType |-> "image",    caption |-> TRUE,  filename |-> FALSE],
   video     |-> [graphType |-> "video",    caption |-> TRUE,  filename |-> FALSE],
   audio     |-> [graphType |-> "audio",    caption |-> FALSE, filename |-> FALSE],
   documento |-> [graphType |-> "document", caption |-> TRUE,  filename |-> TRUE],
   sticker   |-> [graphType |-> "sticker",  caption |-> FALSE, filename |-> FALSE]]

KnownCategory(c) == c \in DOMAIN categories
GraphAPIType(c) == categories[c].graphType
AcceptsCaption(c) == KnownCategory(c) /\ categories[c].caption
AcceptsFilename(c) == KnownCategory(c) /\ categories[c].filename

-----------------------------------------------------------------------------
(* The blocks of a request, each as it is when the body names none of its  *)
(* fields.                                                                 *)

TemplateHeader ==
  [tipo |-> "", texto |-> Blank, media_id |-> Blank, nome_arquivo |-> Blank,
   localizacao |-> <<>>]

Button == [id |-> Blank, titulo |-> Blank]

TemplateButtonUnion ==
  [indice |-> 0, tipo |-> "", texto |-> Blank, payload |-> Blank]

TemplateCard ==
  [cabecalho |-> <<>>, variaveis |-> <<>>, botoes_template |-> <<>>,
   texto |-> Blank, botoes |-> <<>>, botao_titulo |-> Blank, botao_url |-> Blank]

ListItem == [id |-> Blank, titulo |-> Blank, descricao |-> Blank]

ListSection == [titulo |-> Blank, itens |-> <<>>]

ReactionRequest == [alvo |-> Blank, emoji |-> <<>>]

LocationRequest ==
  [latitude |-> <<>>, longitude |-> <<>>, nome |-> Blank, endereco |-> Blank]

(* Of a contact, the two fields that are looked at; the others cross as they *)
(* came.                                                                    *)
Contact == [formatted_name |-> Blank, birthday |-> Blank, others |-> Blank]

FlowRequest ==
  [id |-> Blank, nome |-> Blank, token |-> Blank, acao |-> "", tela |-> Blank,
   dados |-> <<>>]

Request ==
  [instancia |-> Blank, para |-> <<>>, tipo |-> "", responder_a |-> Blank,
   texto |-> Blank, template |-> Blank, idioma |-> Blank, variaveis |-> <<>>,
   cabecalho |-> <<>>, botoes_url |-> <<>>, botoes_template |-> <<>>,
   cartoes |-> <<>>, components |-> <<>>, botoes |-> <<>>,
   botao_titulo |-> Blank, botao_url |-> Blank, secoes |-> <<>>,
   cabecalho_texto |-> Blank, rodape |-> Blank, cabecalho_midia |-> <<>>,
   media_id |-> Blank, categoria |-> "", legenda |-> Blank,
   nome_arquivo |-> Blank, reacao |-> <<>>, localizacao |-> <<>>,
   contatos |-> <<>>, fluxo |-> <<>>]

-----------------------------------------------------------------------------
(* Normalisation.  The code trims each field where it validates it; a field *)
(* of a type that does not carry it is trimmed only where told below, and  *)
(* elsewhere it is refused whatever it holds.                              *)

WithFreeHeader == {"botoes", "cta_url", "lista"}

TrimmedLocation(l) == [l EXCEPT !.nome = TrimSpace(@), !.endereco = TrimSpace(@)]

TrimmedHeader(h) ==
  [h EXCEPT !.texto = TrimSpace(@), !.media_id = TrimSpace(@),
            !.nome_arquivo = TrimSpace(@),
            !.localizacao = Each(TrimmedLocation, @)]

TrimmedButton(b) == [b EXCEPT !.id = TrimSpace(@), !.titulo = TrimSpace(@)]

TrimmedTemplateButton(b) ==
  [b EXCEPT !.texto = TrimSpace(@), !.payload = TrimSpace(@)]

TrimmedTemplateCard(c) ==
  [c EXCEPT !.cabecalho = Each(TrimmedHeader, @),
            !.variaveis = Each(TrimSpace, @),
            !.botoes_template = Each(TrimmedTemplateButton, @)]

TrimmedCarouselCard(c) ==
  [c EXCEPT !.cabecalho = Each(TrimmedHeader, @),
            !.botoes = Each(TrimmedButton, @),
            !.texto = TrimSpace(@), !.botao_titulo = TrimSpace(@),
            !.botao_url = TrimSpace(@)]

TrimmedItem(i) ==
  [i EXCEPT !.id = TrimSpace(@), !.titulo = TrimSpace(@), !.descricao = TrimSpace(@)]

TrimmedSection(s) ==
  [s EXCEPT !.titulo = TrimSpace(@), !.itens = Each(TrimmedItem, @)]

TrimmedReaction(r) ==
  [r EXCEPT !.alvo = TrimSpace(@), !.emoji = Each(TrimSpace, @)]

TrimmedContact(c) ==
  [c EXCEPT !.formatted_name = TrimSpace(@), !.birthday = TrimSpace(@)]

(* An action that is not told is "navigate". *)
TrimmedFlow(f) ==
  [f EXCEPT !.id = TrimSpace(@), !.nome = TrimSpace(@), !.token = TrimSpace(@),
            !.tela = TrimSpace(@), !.acao = IF @ = "" THEN "navigate" ELSE @]

(* The common fields, whatever the type. *)
TrimmedCommon(p) ==
  [p EXCEPT !.instancia = TrimSpace(@), !.para = Canonicalize(@),
            !.texto = TrimSpace(@), !.template = TrimSpace(@),
            !.idioma = TrimSpace(@), !.botao_titulo = TrimSpace(@),
            !.botao_url = TrimSpace(@), !.responder_a = TrimSpace(@),
            !.media_id = TrimSpace(@), !.legenda = TrimSpace(@),
            !.nome_arquivo = TrimSpace(@)]

(* The blocks; the body's variables are the one text left as it came. *)
Normal(p) ==
  LET freeText(t) == IF p.tipo \in WithFreeHeader THEN TrimSpace(t) ELSE t
  IN [TrimmedCommon(p) EXCEPT
        !.cabecalho = Each(TrimmedHeader, @),
        !.cabecalho_midia = Each(TrimmedHeader, @),
        !.cabecalho_texto = freeText(@),
        !.rodape = freeText(@),
        !.botoes = Each(TrimmedButton, @),
        !.botoes_template = Each(TrimmedTemplateButton, @),
        !.cartoes = IF p.tipo = "carrossel" THEN Each(TrimmedCarouselCard, @)
                    ELSE Each(TrimmedTemplateCard, @),
        !.secoes = Each(TrimmedSection, @),
        !.reacao = Each(TrimmedReaction, @),
        !.localizacao = Each(TrimmedLocation, @),
        !.contatos = Each(TrimmedContact, @),
        !.fluxo = Each(TrimmedFlow, @)]

-----------------------------------------------------------------------------
(* What is accepted, of a request already in its normal form.  Only whether *)
(* the request is accepted matters here, not which of its faults is named.  *)

headerTextAndFooterLimit == 60
ctaURLDisplayTextLimit == 20
listButtonLimit == 20
flowCtaLimit == 20
quickReplyButtonTitleLimit == 20
quickReplyButtonCountLimit == 3
carouselCards == 2..10
listSectionsLimit == 10
listSectionTitleLimit == 24
listItemIDLimit == 200
listItemTitleLimit == 24
listItemDescriptionLimit == 72
totalListItemsLimit == 10

mediaHeaders == {"imagem", "video", "documento"}
cardHeaders == {"imagem", "video"}

LocationFits(l) ==
  /\ l.latitude # <<>> /\ l.latitude[1] \in -90..90
  /\ l.longitude # <<>> /\ l.longitude[1] \in -180..180

(* A header has one of three forms, and nothing of the other two. *)
LocationHeader(h) ==
  /\ h.tipo = "localizacao"
  /\ h.localizacao # <<>> /\ LocationFits(h.localizacao[1])
  /\ {h.texto, h.media_id, h.nome_arquivo} = {Blank}

TextHeader(h) ==
  /\ h.tipo = "texto"
  /\ IsSet(h.texto)
  /\ {h.media_id, h.nome_arquivo} = {Blank}
  /\ h.localizacao = <<>>

MediaHeader(h) ==
  /\ h.tipo \in mediaHeaders
  /\ MediaIDValid(h.media_id)
  /\ IsSet(h.nome_arquivo) => AcceptsFilename(h.tipo)
  /\ ~IsSet(h.texto)
  /\ h.localizacao = <<>>

HeaderFits(h) == LocationHeader(h) \/ TextHeader(h) \/ MediaHeader(h)

(* The text header and the footer of an interactive message. *)
HeaderTextAndFooterFit(p) ==
  /\ UpTo(headerTextAndFooterLimit, p.cabecalho_texto)
  /\ UpTo(headerTextAndFooterLimit, p.rodape)

(* The message has one header, and this one is a medium. *)
HeaderMediaFits(p) ==
  p.cabecalho_midia # <<>> => /\ ~IsSet(p.cabecalho_texto)
                              /\ MediaHeader(p.cabecalho_midia[1])

ButtonTitleFits(p) ==
  LET limit == CASE p.tipo = "lista" -> listButtonLimit
                 [] p.tipo = "flow"  -> flowCtaLimit
                 [] OTHER            -> ctaURLDisplayTextLimit
  IN IsSet(p.botao_titulo) /\ UpTo(limit, p.botao_titulo)

ButtonFits(b) ==
  IsSet(b.id) /\ IsSet(b.titulo) /\ UpTo(quickReplyButtonTitleLimit, b.titulo)

ButtonsFit(s) == Len(s) \in 1..quickReplyButtonCountLimit /\ All(ButtonFits, s)

(* Each button of a template takes one parameter. *)
TemplateButtonFits(b) ==
  /\ b.indice >= 0
  /\ \/ b.tipo = "url" /\ IsSet(b.texto) /\ ~IsSet(b.payload)
     \/ b.tipo = "resposta_rapida" /\ IsSet(b.payload) /\ ~IsSet(b.texto)

TemplateButtonsFit(s) ==
  /\ All(TemplateButtonFits, s)
  /\ \A i, j \in DOMAIN s : s[i].indice = s[j].indice => i = j

CardHeaderFits(c) ==
  /\ c.cabecalho # <<>>
  /\ c.cabecalho[1].tipo \in cardHeaders
  /\ HeaderFits(c.cabecalho[1])

(* A card of a template: nothing of the free carousel's. *)
TemplateCardFits(c) ==
  /\ CardHeaderFits(c)
  /\ {c.texto, c.botao_titulo, c.botao_url} = {Blank}
  /\ c.botoes = <<>>
  /\ TemplateButtonsFit(c.botoes_template)

(* What Meta wants equal in all the cards of a template. *)
buttonSignature(s) == {<<s[i].indice, s[i].tipo>> : i \in DOMAIN s}
TemplateCardKind(c) ==
  <<c.cabecalho[1].tipo, Len(c.variaveis), buttonSignature(c.botoes_template)>>

CardsFit(p) ==
  p.cartoes # <<>> =>
    /\ Len(p.cartoes) \in carouselCards
    /\ p.cabecalho = <<>> /\ p.botoes_template = <<>>
    /\ All(TemplateCardFits, p.cartoes)
    /\ Alike(TemplateCardKind, p.cartoes)

(* A card of a free carousel: quick replies or a link, never both. *)
CarouselCardFits(c) ==
  /\ CardHeaderFits(c)
  /\ c.variaveis = <<>> /\ c.botoes_template = <<>>
  /\ IsSet(c.texto)
  /\ \/ ~IsSet(c.botao_titulo) /\ ~IsSet(c.botao_url) /\ ButtonsFit(c.botoes)
     \/ /\ IsSet(c.botao_titulo) /\ UpTo(ctaURLDisplayTextLimit, c.botao_titulo)
        /\ IsSet(c.botao_url)
        /\ c.botoes = <<>>

CarouselCardKind(c) == <<c.cabecalho[1].tipo, IsSet(c.botao_url), Len(c.botoes)>>

CarouselFits(p) ==
  /\ Len(p.cartoes) \in carouselCards
  /\ ~IsSet(p.botao_url)
  /\ All(CarouselCardFits, p.cartoes)
  /\ Alike(CarouselCardKind, p.cartoes)

ItemFits(i) ==
  /\ IsSet(i.id) /\ UpTo(listItemIDLimit, i.id)
  /\ IsSet(i.titulo) /\ UpTo(listItemTitleLimit, i.titulo)
  /\ UpTo(listItemDescriptionLimit, i.descricao)

SectionFits(s) ==
  /\ IsSet(s.titulo) /\ UpTo(listSectionTitleLimit, s.titulo)
  /\ s.itens # <<>> /\ All(ItemFits, s.itens)

totalItems(sections) ==
  Cardinality(UNION {{i} \X DOMAIN sections[i].itens : i \in DOMAIN sections})

(* The items of all the sections together have a limit of their own. *)
ListFits(p) ==
  /\ Len(p.secoes) \in 1..listSectionsLimit
  /\ All(SectionFits, p.secoes)
  /\ totalItems(p.secoes) <= totalListItemsLimit

(* An empty emoji removes the reaction; an absent one is a mistake. *)
ReactionFits(r) == IsSet(r.alvo) /\ r.emoji # <<>>

(* A date is a text of the ten runes of YYYY-MM-DD. *)
IsDate(t) == t.is = "date"
ContactFits(c) ==
  IsSet(c.formatted_name) /\ (IsSet(c.birthday) => IsDate(c.birthday))

FlowFits(f) ==
  /\ IsSet(f.id) # IsSet(f.nome)
  /\ IsSet(f.token)
  /\ \/ f.acao = "navigate" /\ IsSet(f.tela)
     \/ f.acao = "data_exchange"

MediaFits(p) ==
  /\ IsSet(p.media_id)
  /\ KnownCategory(p.categoria)
  /\ IsSet(p.legenda) => AcceptsCaption(p.categoria)
  /\ IsSet(p.nome_arquivo) => AcceptsFilename(p.categoria)

(* What each type requires, and what only it forbids. *)
TypeFits(p) ==
  CASE p.tipo = "texto"             -> IsSet(p.texto)
    [] p.tipo = "template"          -> /\ IsSet(p.template) /\ IsSet(p.idioma)
                                       /\ ~IsSet(p.responder_a)
                                       /\ All(HeaderFits, p.cabecalho)
                                       /\ TemplateButtonsFit(p.botoes_template)
                                       /\ CardsFit(p)
    [] p.tipo = "carrossel"         -> IsSet(p.texto) /\ CarouselFits(p)
    [] p.tipo = "botoes"            -> /\ ~IsSet(p.botao_url) /\ ~IsSet(p.botao_titulo)
                                       /\ IsSet(p.texto) /\ ButtonsFit(p.botoes)
                                       /\ HeaderTextAndFooterFit(p) /\ HeaderMediaFits(p)
    [] p.tipo = "cta_url"           -> /\ p.botoes = <<>> /\ IsSet(p.texto)
                                       /\ ButtonTitleFits(p) /\ IsSet(p.botao_url)
                                       /\ HeaderTextAndFooterFit(p) /\ HeaderMediaFits(p)
    [] p.tipo = "lista"             -> /\ IsSet(p.texto) /\ ButtonTitleFits(p)
                                       /\ ListFits(p) /\ HeaderTextAndFooterFit(p)
    [] p.tipo = "pedir_localizacao" -> IsSet(p.texto)
    [] p.tipo = "midia"             -> MediaFits(p)
    [] p.tipo = "reacao"            -> p.reacao # <<>> /\ All(ReactionFits, p.reacao)
    [] p.tipo = "localizacao"       -> /\ p.localizacao # <<>>
                                       /\ All(LocationFits, p.localizacao)
    [] p.tipo = "contatos"          -> p.contatos # <<>> /\ All(ContactFits, p.contatos)
    [] p.tipo = "flow"              -> /\ p.fluxo # <<>> /\ All(FlowFits, p.fluxo)
                                       /\ ButtonTitleFits(p)
    [] OTHER                        -> FALSE

(* Mutant: a footer is welcome in a flow, whose body has none. *)
Carriers_FlowFooter ==
  [cabecalho       |-> {"template"},
   botoes_template |-> {"template"},
   cartoes         |-> {"template", "carrossel"},
   cabecalho_texto |-> WithFreeHeader,
   rodape          |-> WithFreeHeader \cup {"flow"},
   cabecalho_midia |-> {"botoes", "cta_url"},
   botao_titulo    |-> {"cta_url", "lista", "flow"},
   secoes          |-> {"lista"},
   botoes          |-> {"botoes", "cta_url"},
   reacao          |-> {"reacao"},
   localizacao     |-> {"localizacao"},
   contatos        |-> {"contatos"},
   fluxo           |-> {"flow"}]

(* The types that carry a field: in any other it would vanish. *)
Carriers ==
  [cabecalho       |-> {"template"},
   botoes_template |-> {"template"},
   cartoes         |-> {"template", "carrossel"},
   cabecalho_texto |-> WithFreeHeader,
   rodape          |-> WithFreeHeader,
   cabecalho_midia |-> {"botoes", "cta_url"},
   botao_titulo    |-> {"cta_url", "lista", "flow"},
   secoes          |-> {"lista"},
   botoes          |-> {"botoes", "cta_url"},
   reacao          |-> {"reacao"},
   localizacao     |-> {"localizacao"},
   contatos        |-> {"contatos"},
   fluxo           |-> {"flow"}]

NothingWouldVanish(p) ==
  \A f \in DOMAIN Carriers : p[f] # Request[f] => p.tipo \in Carriers[f]

refuseBase64(p) ==
  ~\E f \in {"texto", "media_id", "legenda", "nome_arquivo"} : containsBase64(p[f])

Validate(p) ==
  /\ IsSet(p.instancia)
  /\ p.para # <<>>
  /\ p.components = <<>> /\ p.botoes_url = <<>>
  /\ TypeFits(p)
  /\ NothingWouldVanish(p)
  /\ refuseBase64(p)

(* The request after Validate() has trimmed it, and whether it passed. *)
Accepts(p) == Validate(Normal(p))
=============================================================================
