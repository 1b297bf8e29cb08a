CONSTANTS
  own = "own"
  other = "other"
  Arriving <- EveryPayload
  ArrivingInstagram <- EveryInstagramPayload
  Meanings <- EveryMeaning
  Spellings <- SpellingsOf
  Wire <- WireOf
  InstagramInstances <- Instagrams
SPECIFICATION SidesSpec
CHECK_DEADLOCK FALSE
INVARIANTS
  SpellingDoesNotMatter
  OldNamesAreCounted
  OnlyUnguardedFieldsVanish
  ItemsAreReadAlone
  LossIsTold
  DeliveredIsProven
