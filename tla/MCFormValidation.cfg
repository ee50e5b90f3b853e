CONSTANTS
  mail = mail
  again = again
  more = more
  none = none
  short = short
  long = long
  Fields = {mail, again, more}
  NoField = NoField
  Values <- SomeValues
  Empty = none
  Size <- SomeSizes
  Addresses = {long}
  Required = {more}
  EmailFields = {mail}
  MinLength <- TwoAtLeast
  MaxLength <- TwoAtMost
  Other <- RepeatAddress
  Replaced = {again, more}
  Secret = {again, more}
SPECIFICATION Spec
INVARIANTS
  TypeOK
  MessagesAreCurrent
  MarksMatchMessages
PROPERTY
  SentIfRight
