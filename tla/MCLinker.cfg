\* Every pair of files of one or two sections behind crt0, in every order.
SPECIFICATION Spec
CONSTANTS
  Input <- MCInput
  LabelName <- MCLabelName
  Alphabet <- MCAlphabet
INVARIANTS
  TypeOK
  RecursionBounded
  NeedsMet
  OnlyNeeded
PROPERTIES
  LinkingNeverFails
  ImageSpec
