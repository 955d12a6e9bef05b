SPECIFICATION Spec
CONSTANTS
  Inputs <- MCInputs
  TextsOf <- MCTexts
  OptionsOf <- MCOptions
  NIF = 5
  MaxInclude = 3
INVARIANT TranslatesAsStandard
